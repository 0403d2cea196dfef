----------------------------- MODULE RateLimiter -----------------------------
(***************************************************************************)
(* The per-client rate limiter in front of auth-service and order-service  *)
(* (shared/middleware/rate_limiter.go).  A request looks its client's      *)
(* bucket up under one mutex and draws from it under another; in between   *)
(* other requests run, and the clean-up may forget the entry.              *)
(*                                                                         *)
(* Time is counted in ticks of refill: a full bucket is worth Full ticks   *)
(* and a request costs Cost of them (2.5 s and 0.5 s in the code, which    *)
(* calls NewIPRateLimiter(5, 2)), so fractions of a token are whole        *)
(* numbers here.  Points in time are kept as the ticks that have passed    *)
(* since, up to the number above which nothing depends on them.            *)
(*                                                                         *)
(* credit and slow are history variables: the bucket that a limiter would  *)
(* keep that never forgets a client, and the clients of which a request    *)
(* was admitted more than Grace ticks after it had looked its bucket up.   *)
(* Of a client in slow no credit is kept any more: it stays 0.             *)
(***************************************************************************)
EXTENDS Integers

CONSTANTS
  Clients,   \* addresses, as clientIP returns them
  Requests,  \* HTTP requests that may be in the middleware at a time
  Buckets,   \* RateLimiter objects: enough for all clients and requests
  Full,      \* maxTokens
  Cost,      \* one token
  IdleTTL,   \* idleTTL
  Grace,     \* delay within a request up to which the limit is claimed
  None       \* no bucket, no client

ASSUME LimiterAssumption == /\ Full \in Nat /\ Cost \in Nat \ {0} /\ Cost <= Full
                            /\ Grace \in Nat /\ IdleTTL \in Nat
                            /\ Full + Grace <= IdleTTL
                            /\ None \notin Clients \cup Buckets

VARIABLES
  limiters,  \* limiters[c]: the bucket in the map entry of c, or None
  idle,      \* idle[c]: ticks since lastSeen of the entry
  tokens,    \* tokens[b], as of the last refill
  elapsed,   \* elapsed[b]: ticks since lastRefill
  doomed,    \* clients whose lastSeen was before the cutoff when it was taken
  sweeping,  \* cleanupLoop is between the cutoff and the mutex
  client,    \* client[r]: whose request r is, None when r is free
  pending,   \* pending[r]: the bucket r has looked up
  age,       \* age[r]: ticks since r looked its bucket up
  credit,    \* credit[c]: history, see above
  slow       \* history, see above

entryVars   == <<limiters, idle>>
bucketVars  == <<tokens, elapsed>>
sweepVars   == <<doomed, sweeping>>
requestVars == <<client, pending, age>>
historyVars == <<credit, slow>>
limiterVars == <<entryVars, bucketVars, sweepVars, requestVars, historyVars>>

AtMost(limit, n) == IF n > limit THEN limit ELSE n

LimiterInit ==
  /\ limiters = [c \in Clients |-> None]
  /\ idle = [c \in Clients |-> 0]
  /\ tokens = [b \in Buckets |-> Full]
  /\ elapsed = [b \in Buckets |-> Full]
  /\ doomed = {}
  /\ sweeping = FALSE
  /\ client = [r \in Requests |-> None]
  /\ pending = [r \in Requests |-> None]
  /\ age = [r \in Requests |-> 0]
  /\ credit = [c \in Clients |-> Full]
  /\ slow = {}

-----------------------------------------------------------------------------
(* getLimiter                                                              *)

Unused(b) == /\ \A c \in Clients : limiters[c] # b
             /\ \A r \in Requests : pending[r] # b

(* A bug: a new bucket is empty. *)
NewRateLimiterEmpty(b) == /\ tokens' = [tokens EXCEPT ![b] = 0]
                          /\ elapsed' = [elapsed EXCEPT ![b] = 0]

NewRateLimiter(b) == /\ tokens' = [tokens EXCEPT ![b] = Full]
                     /\ elapsed' = [elapsed EXCEPT ![b] = 0]

(* The entry of c is found, or made with a new bucket. *)
Entry(c, b) ==
  \/ /\ limiters[c] = b
     /\ UNCHANGED <<limiters, bucketVars>>
  \/ /\ limiters[c] = None
     /\ Unused(b) /\ b = CHOOSE x \in Buckets : Unused(x)
     /\ NewRateLimiter(b)
     /\ limiters' = [limiters EXCEPT ![c] = b]

(* A bug: the clean-up goes by what it saw before it had the mutex. *)
SeenTooLate(c) == /\ idle' = [idle EXCEPT ![c] = 0]
                  /\ UNCHANGED doomed

(* lastSeen becomes now, which no cutoff taken before is behind. *)
Seen(c) == /\ idle' = [idle EXCEPT ![c] = 0]
           /\ doomed' = doomed \ {c}

GetLimiter(r, c) ==
  /\ pending[r] = None
  /\ \E b \in Buckets : /\ Entry(c, b)
                        /\ pending' = [pending EXCEPT ![r] = b]
  /\ Seen(c)
  /\ client' = [client EXCEPT ![r] = c]
  /\ age' = [age EXCEPT ![r] = 0]
  /\ UNCHANGED <<sweeping, historyVars>>

-----------------------------------------------------------------------------
(* Allow                                                                   *)

Refilled(b) == AtMost(Full, tokens[b] + elapsed[b])

(* The bucket after Allow, which sets lastRefill and takes n. *)
Draw(b, n) == /\ tokens' = [tokens EXCEPT ![b] = Refilled(b) - n]
              /\ elapsed' = [elapsed EXCEPT ![b] = 0]

Done(r) == /\ client' = [client EXCEPT ![r] = None]
           /\ pending' = [pending EXCEPT ![r] = None]
           /\ age' = [age EXCEPT ![r] = 0]

Admit(r) ==
  /\ pending[r] # None
  /\ Refilled(pending[r]) >= Cost
  /\ Draw(pending[r], Cost)
  /\ Done(r)
  /\ slow' = IF age[r] > Grace THEN slow \cup {client[r]} ELSE slow
  /\ credit' = [credit EXCEPT ![client[r]] = IF client[r] \in slow' THEN 0 ELSE @ - Cost]
  /\ UNCHANGED <<entryVars, sweepVars>>

(* 429 Too Many Requests. *)
Reject(r) ==
  /\ pending[r] # None
  /\ Refilled(pending[r]) < Cost
  /\ Draw(pending[r], 0)
  /\ Done(r)
  /\ UNCHANGED <<entryVars, sweepVars, historyVars>>

-----------------------------------------------------------------------------
(* cleanupLoop                                                             *)

(* A bug: the comparison with the cutoff is the wrong way round. *)
BeforeCutoffSwapped(c) == limiters[c] # None /\ idle[c] < IdleTTL

BeforeCutoff(c) == limiters[c] # None /\ idle[c] > IdleTTL

(* The cutoff is taken before the mutex; until that is held an entry may   *)
(* be seen again, but none can become older than the cutoff.               *)
Cutoff ==
  /\ ~sweeping
  /\ sweeping' = TRUE
  /\ doomed' = {c \in Clients : BeforeCutoff(c)}
  /\ UNCHANGED <<entryVars, bucketVars, requestVars, historyVars>>

Sweep ==
  /\ sweeping
  /\ sweeping' = FALSE
  /\ doomed' = {}
  /\ limiters' = [c \in Clients |-> IF c \in doomed THEN None ELSE limiters[c]]
  /\ UNCHANGED <<idle, bucketVars, requestVars, historyVars>>

Tick ==
  /\ idle' = [c \in Clients |-> AtMost(IdleTTL + 1, idle[c] + 1)]
  /\ elapsed' = [b \in Buckets |-> AtMost(Full, elapsed[b] + 1)]
  /\ age' = [r \in Requests |-> IF pending[r] = None THEN 0
                                ELSE AtMost(Grace + 1, age[r] + 1)]
  /\ credit' = [c \in Clients |-> IF c \in slow THEN 0 ELSE AtMost(Full, credit[c] + 1)]
  /\ UNCHANGED <<limiters, tokens, sweepVars, client, pending, slow>>

-----------------------------------------------------------------------------
LimiterNext ==
  \/ \E r \in Requests : \/ \E c \in Clients : GetLimiter(r, c)
                         \/ Admit(r)
                         \/ Reject(r)
  \/ Cutoff
  \/ Sweep
  \/ Tick

LimiterSpec == LimiterInit /\ [][LimiterNext]_limiterVars

(* Time passes and the goroutine of the clean-up runs; a request may be    *)
(* held up for ever, and none has to come.                                 *)
LimiterFairness == WF_limiterVars(Tick) /\ WF_limiterVars(Cutoff) /\ WF_limiterVars(Sweep)

LimiterFairSpec == LimiterSpec /\ LimiterFairness
=============================================================================
