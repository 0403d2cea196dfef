-------------------------- MODULE ConsumerProperties --------------------------
(***************************************************************************)
(* What a consumer of the services guarantees.                             *)
(***************************************************************************)
EXTENDS Consumer

Offsets == 1..N

(* The consumer is done with record k: handled, in the DLQ, or dropped. *)
Settled(k) == k \in handled \cup dlq \cup dropped

(* Positions are ordered as the offsets of a consumer are: committed up to *)
(* committable up to dealt-with up to fetched up to the end of the topic.  *)
TypeOK ==
  /\ mode \in {"running", "stopping", "returned", "dead"}
  /\ end \in 0..N
  /\ next \in Nat /\ fetched \in Nat /\ committable \in Nat /\ committed \in Nat
  /\ committed <= committable
  /\ committable <= next
  /\ next <= fetched
  /\ fetched <= end
  /\ attempt \in 0..MaxRetry
  /\ attempt > 0 => next < fetched
  /\ runs \in [Offsets -> Nat]
  /\ handled \subseteq Offsets /\ dlq \subseteq Offsets /\ dropped \subseteq Offsets
  /\ restarts \in Nat /\ errors \in Nat /\ stops \in Nat

-----------------------------------------------------------------------------
(* At least once: an offset is stored in Kafka only when every record up   *)
(* to it was handled or given up, so neither a crash in the middle of a    *)
(* batch nor a fetch error nor a SIGTERM loses a record unseen.            *)
CommittedIsSettled == \A k \in 1..committed : Settled(k)

(* The retry budget of a record is spent once per life of the process: the *)
(* handler runs at most MaxRetry times, and again as often after each      *)
(* restart that finds the record uncommitted.                              *)
RetryBudget == \A k \in Offsets : runs[k] <= MaxRetry * (restarts + 1)

(* README, Dead Letter Queue: an event is given up only after MaxRetry     *)
(* attempts, even if it is redelivered and fails in several lives.         *)
GivenUpOnlyAfterRetries == \A k \in dlq \cup dropped : runs[k] >= MaxRetry

(* Exactly once from the stored offset on: the handler never runs again on *)
(* a record whose offset has been committed.                               *)
RunsOnCommitted == \A k \in 1..committed : runs'[k] = runs[k]
NoRunAfterCommit == [][RunsOnCommitted]_vars

(* Seen from the outside the consumer is the cursor of GroupCursor. *)
Cursor == INSTANCE GroupCursor WITH position <- next, offset <- committed

(* Polls, batches, retries, dead letters and restarts only advance the     *)
(* position by one record, store an offset that was passed, or fall back   *)
(* to the stored one.                                                      *)
ImplementsCursor == Cursor!Spec

(* Every published record is eventually handled or given up. *)
EveryRecordSettled == \A k \in Offsets : end >= k ~> Settled(k)

-----------------------------------------------------------------------------
(* The inductive invariant behind the safety properties.                   *)

(* Everything the process has moved past is settled. *)
PassedIsSettled == \A k \in 1..next : Settled(k)

(* The attempts at the current record are runs of its handler in this life *)
(* and no record beyond it has been run in this life.                      *)
RunsAreAccountedFor ==
  \A k \in Offsets :
    runs[k] <= MaxRetry * restarts
               + (IF k <= next THEN MaxRetry ELSE IF k = next + 1 THEN attempt ELSE 0)

AttemptsAreRuns == attempt > 0 => runs[next + 1] >= attempt

(* What the loop relies on: passed records are settled, runs are bounded   *)
(* by the attempts of each life, and attempts are runs.                    *)
ConsumerInvariant ==
  /\ TypeOK
  /\ PassedIsSettled
  /\ RunsAreAccountedFor
  /\ AttemptsAreRuns
  /\ GivenUpOnlyAfterRetries
=============================================================================
