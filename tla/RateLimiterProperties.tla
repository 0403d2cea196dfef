------------------------ MODULE RateLimiterProperties ------------------------
(***************************************************************************)
(* What the rate limiter guarantees although it forgets idle clients and   *)
(* looks a bucket up and draws from it in two steps.                       *)
(***************************************************************************)
EXTENDS RateLimiter

(* The map, the buckets and the requests are of their types. *)
LimiterTypeOK ==
  /\ limiters \in [Clients -> Buckets \cup {None}]
  /\ idle \in [Clients -> 0..(IdleTTL + 1)]
  /\ tokens \in [Buckets -> 0..Full]
  /\ elapsed \in [Buckets -> 0..Full]
  /\ doomed \subseteq Clients
  /\ sweeping \in BOOLEAN
  /\ client \in [Requests -> Clients \cup {None}]
  /\ pending \in [Requests -> Buckets \cup {None}]
  /\ age \in [Requests -> 0..(Grace + 1)]
  /\ credit \in [Clients -> Int]
  /\ slow \subseteq Clients

(* README, Rate Limiting: "5 requests burst, 2/second sustained".  What is *)
(* admitted of a client never exceeds one bucket and the refill since,     *)
(* across clean-ups, as long as no request of the client was held up       *)
(* between getLimiter and Allow for almost as long as an entry lives.      *)
LimitHolds == \A c \in Clients : c \notin slow => credit[c] >= 0

(* Allow: only requests over the limit are rejected, also when their       *)
(* bucket was made anew or had already been forgotten.                     *)
RejectsOnlyOverLimit ==
  \A r \in Requests : Reject(r) => credit[client[r]] < Cost
NobodyIsRejectedEarly == [][RejectsOnlyOverLimit]_limiterVars

(* cleanupLoop: the entry of a client that sends nothing more goes away,   *)
(* so the map does not grow for ever.                                      *)
IdleEntriesGo ==
  \A c \in Clients :
    limiters[c] # None /\ idle[c] = 1 ~> limiters[c] = None \/ idle[c] = 0

-----------------------------------------------------------------------------
(* Two clients never share a bucket, nor do a client and a request of      *)
(* another one.                                                            *)
OwnBucket ==
  /\ \A r \in Requests : pending[r] = None <=> client[r] = None
  /\ \A c, d \in Clients : c # d /\ limiters[c] # None => limiters[c] # limiters[d]
  /\ \A r \in Requests, c \in Clients :
       pending[r] # None /\ pending[r] = limiters[c] => client[r] = c
  /\ \A r, s \in Requests :
       pending[r] # None /\ pending[r] = pending[s] => client[r] = client[s]

(* A request is at least as old as the last request of its client; while   *)
(* it is younger than Grace, the clean-up has not taken its bucket away.   *)
YoungRequestsKeepTheirBucket ==
  \A r \in Requests :
    pending[r] # None =>
      /\ age[r] >= AtMost(Grace + 1, idle[client[r]])
      /\ age[r] <= Grace => pending[r] = limiters[client[r]]

(* The clean-up is about to forget only clients that have been idle for    *)
(* longer than it takes to fill their bucket.                              *)
DoomedAreIdle == \A c \in doomed : limiters[c] # None /\ idle[c] > IdleTTL

(* The bucket of a client is worth its credit, a bucket that has been      *)
(* forgotten at least that; who has no bucket or has been idle long enough *)
(* has full credit.                                                        *)
BucketsHoldCredit ==
  /\ \A c \in Clients :
       IF c \in slow THEN credit[c] = 0
       ELSE /\ credit[c] \in 0..Full
            /\ credit[c] >= AtMost(Full, idle[c] - Grace)
            /\ IF limiters[c] = None THEN credit[c] = Full
               ELSE credit[c] = Refilled(limiters[c])
  /\ \A r \in Requests :
       pending[r] # None => credit[client[r]] <= Refilled(pending[r])

(* The inductive invariant. *)
LimiterInvariant ==
  /\ LimiterTypeOK
  /\ OwnBucket
  /\ YoungRequestsKeepTheirBucket
  /\ DoomedAreIdle
  /\ BucketsHoldCredit
=============================================================================
