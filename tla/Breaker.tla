------------------------------- MODULE Breaker -------------------------------
(***************************************************************************)
(* The circuit breaker that payment-service wraps around the payment       *)
(* transaction (internal/circuit/breaker.go).  Execute holds the mutex     *)
(* while it decides whether to run the function and again while it records *)
(* the outcome, and not in between; each half is one action.               *)
(*                                                                         *)
(* An error of the function is a failure whatever its cause: a database    *)
(* error or a declined payment.  The breaker lives in memory.  Time is the *)
(* number of ticks since lastFailureTime, counted up to the cooldown,      *)
(* beyond which the code does not distinguish.                             *)
(***************************************************************************)
EXTENDS Integers, FiniteSets

CONSTANTS
  Callers,      \* goroutines that call Execute: one, the payment consumer
  Threshold,    \* failureThreshold, 3 in the code
  Cooldown,     \* cooldown in ticks, 10 seconds in the code
  MaxFailures,  \* bound: failed calls in a behaviour
  MaxDeaths     \* bound: ends of the process

ASSUME BreakerAssumption == /\ Callers # {} /\ IsFiniteSet(Callers)
                            /\ Threshold \in Nat \ {0}
                            /\ Cooldown \in Nat
                            /\ MaxFailures \in Nat
                            /\ MaxDeaths \in Nat

VARIABLES
  state,         \* "closed", "open" or "half-open"
  failureCount,
  sinceFailure,  \* ticks since lastFailureTime, at most Cooldown
  running,       \* callers inside the function
  streak,        \* history: failures since the last success
  failures,      \* failed calls so far
  deaths         \* ends of the process so far

breakerVars == <<state, failureCount, sinceFailure, running, streak, failures, deaths>>

BreakerInit ==
  /\ state = "closed"
  /\ failureCount = 0
  /\ sinceFailure = Cooldown
  /\ running = {}
  /\ streak = 0
  /\ failures = 0
  /\ deaths = 0

Cool ==
  /\ sinceFailure < Cooldown
  /\ sinceFailure' = sinceFailure + 1
  /\ UNCHANGED <<state, failureCount, running, streak, failures, deaths>>

CooledDown == sinceFailure = Cooldown

(* Plausible bug: the cooldown only decides about the state, not the call. *)
EnterDuringCooldown(c) ==
  /\ c \notin running
  /\ state' = IF state = "open" /\ CooledDown THEN "half-open" ELSE state
  /\ running' = running \cup {c}
  /\ UNCHANGED <<failureCount, sinceFailure, streak, failures, deaths>>

(* The first half of Execute lets the call through; an open breaker that   *)
(* has cooled down becomes half-open.  A rejected call changes nothing.    *)
Enter(c) ==
  /\ c \notin running
  /\ \/ state # "open" /\ UNCHANGED state
     \/ state = "open" /\ CooledDown /\ state' = "half-open"
  /\ running' = running \cup {c}
  /\ UNCHANGED <<failureCount, sinceFailure, streak, failures, deaths>>

(* Plausible bug: more failures than the threshold are waited for. *)
FailOneMore(c) ==
  /\ c \in running
  /\ failures < MaxFailures
  /\ failures' = failures + 1
  /\ running' = running \ {c}
  /\ failureCount' = failureCount + 1
  /\ sinceFailure' = 0
  /\ streak' = streak + 1
  /\ state' = IF failureCount' > Threshold THEN "open" ELSE state
  /\ UNCHANGED deaths

(* The second half of Execute, after an error. *)
Fail(c) ==
  /\ c \in running
  /\ failures < MaxFailures
  /\ failures' = failures + 1
  /\ running' = running \ {c}
  /\ failureCount' = failureCount + 1
  /\ sinceFailure' = 0
  /\ streak' = streak + 1
  /\ state' = IF failureCount' >= Threshold THEN "open" ELSE state
  /\ UNCHANGED deaths

(* Plausible bug: a recovery resets the count and forgets the state. *)
SucceedStaysHalfOpen(c) ==
  /\ c \in running
  /\ running' = running \ {c}
  /\ failureCount' = IF state = "half-open" THEN 0 ELSE failureCount
  /\ streak' = 0
  /\ UNCHANGED <<state, sinceFailure, failures, deaths>>

(* The second half of Execute, without an error: only a half-open breaker  *)
(* forgets its failures.                                                   *)
Succeed(c) ==
  /\ c \in running
  /\ running' = running \ {c}
  /\ \/ state = "half-open" /\ state' = "closed" /\ failureCount' = 0
     \/ state # "half-open" /\ UNCHANGED <<state, failureCount>>
  /\ streak' = 0
  /\ UNCHANGED <<sinceFailure, failures, deaths>>

(* The process ends, calls in progress included, and starts anew. *)
NewProcess ==
  /\ deaths < MaxDeaths
  /\ deaths' = deaths + 1
  /\ state' = "closed"
  /\ failureCount' = 0
  /\ sinceFailure' = Cooldown
  /\ running' = {}
  /\ streak' = 0
  /\ UNCHANGED failures

Return(c) == Fail(c) \/ Succeed(c)

BreakerNext == Cool \/ NewProcess \/ \E c \in Callers : Enter(c) \/ Return(c)

BreakerSpec == BreakerInit /\ [][BreakerNext]_breakerVars

(* Time passes, calls return, and the consumer keeps calling: it retries a *)
(* failed event and goes on to the next one.                               *)
BreakerFairness == /\ WF_breakerVars(Cool)
                   /\ \A c \in Callers : /\ WF_breakerVars(Enter(c))
                                         /\ WF_breakerVars(Return(c))

BreakerFairSpec == BreakerSpec /\ BreakerFairness
=============================================================================
