-------------------------- MODULE BreakerProperties --------------------------
(***************************************************************************)
(* What the circuit breaker of payment-service guarantees.                 *)
(***************************************************************************)
EXTENDS Breaker

(* States, counts and times are of their types. *)
BreakerTypeOK ==
  /\ state \in {"closed", "open", "half-open"}
  /\ failureCount \in Nat
  /\ sinceFailure \in 0..Cooldown
  /\ running \subseteq Callers
  /\ streak \in Nat
  /\ failures \in Nat
  /\ deaths \in Nat

(* README, Circuit Breaker: "failing fast after 3 consecutive failures":   *)
(* after that many, whatever calls overlap and whatever went before, the   *)
(* breaker is no longer closed, until a call succeeds.                     *)
OutageIsNoticed == streak >= Threshold => state # "closed"

(* While the breaker is open no call of the protected function is running, *)
(* as it is only called by one goroutine.                                  *)
QuietWhileOpen == state = "open" => running = {}

(* Failing fast: after the breaker has opened, the next call of the        *)
(* function starts only when a whole cooldown has passed since the last    *)
(* failure, also after a trial call that failed.                           *)
CallStarts == running' \ running # {}
PausedBeforeTrial == CallStarts /\ state # "closed" => CooledDown
TrialsArePaused == [][PausedBeforeTrial]_breakerVars

(* The same words of the README read the other way: only consecutive       *)
(* failures open a closed breaker.  The code counts the failures since the *)
(* breaker last closed, so failures among successes open it too.           *)
Opening == state = "closed" /\ state' = "open"
OpensAfterConsecutiveFailures == [][Opening => streak' >= Threshold]_breakerVars

(* README, Circuit Breaker: "recovering automatically".  Once calls        *)
(* succeed again, the breaker closes.                                      *)
Recovers == state = "open" ~> state = "closed"

-----------------------------------------------------------------------------
(* The inductive invariant behind the safety properties: the breaker is    *)
(* closed while fewer than Threshold calls have failed since it last       *)
(* closed, that count covers the failures since the last success, and a    *)
(* trial call is under way only after a cooldown.                          *)
CountDecidesState == state = "closed" <=> failureCount < Threshold

BreakerInvariant ==
  /\ BreakerTypeOK
  /\ CountDecidesState
  /\ streak <= failureCount
  /\ state = "half-open" => CooledDown
=============================================================================
