------------------------ MODULE NotificationProperties ------------------------
(***************************************************************************)
(* What notification-service guarantees.                                   *)
(***************************************************************************)
EXTENDS Notification

(* Tables, log and cursors have their shapes; an offset is stored only     *)
(* after it was passed, and no cursor passes the end of the topic.         *)
TypeOK ==
  /\ topic \in Seq(Events)
  /\ owner \in Instances
  /\ committed \in Nat /\ committed <= position[owner]
  /\ position \in [Instances -> Nat]
  /\ fetched \in [Instances -> Nat]
  /\ pc \in [Instances -> {"check", "record"}]
  /\ attempt \in [Instances -> 0..MaxRetry]
  /\ processed \subseteq Events
  /\ notifications \in [Events -> Nat]
  /\ dlq \subseteq Events /\ dropped \subseteq Events
  /\ errors \in Nat /\ rebalances \in Nat
  /\ \A i \in Instances : /\ position[i] <= fetched[i] /\ fetched[i] <= Len(topic)
                          /\ pc[i] = "record" => Busy(i) /\ attempt[i] < MaxRetry
                          /\ attempt[i] > 0 => Busy(i)

-----------------------------------------------------------------------------
(* The instances that have looked e up in vain and are about to record it. *)
Writers(e) == {i \in Instances : pc[i] = "record" /\ Event(i) = e}

(* An event is notified at most once per instance of the service, however  *)
(* often it is published, redelivered or retried, even after a COMMIT that *)
(* took effect and failed: one instance never notifies twice.              *)
AtMostOncePerInstance ==
  \A e \in Events :
    notifications[e] + Cardinality(Writers(e)) <= Cardinality(Instances)

(* Notified, or given up. *)
Settled == {e \in Events : notifications[e] > 0} \cup dlq \cup dropped

(* repository.go: "a crash between the two never leaves us with a sent     *)
(* notification we'd resend", nor with one that is never sent: a stored    *)
(* offset covers only events that were notified or given up, although an   *)
(* event is skipped on the word of its mark, and also when a partition     *)
(* moves between two instances that are both working on it.                *)
NothingSkipped == \A k \in 1..committed : topic[k] \in Settled

(* Every published event is eventually notified or given up. *)
EveryEventSettled ==
  \A e \in Events : (\E k \in 1..Len(topic) : topic[k] = e) ~> e \in Settled

-----------------------------------------------------------------------------
(* The inductive invariant behind the safety properties: an event that is  *)
(* marked was notified, and no instance is past an event that was neither  *)
(* notified nor given up.                                                  *)
MarkedWhenNotified == \A e \in Events : e \in processed <=> notifications[e] > 0

PassedIsSettled ==
  \A i \in Instances : \A k \in 1..position[i] : topic[k] \in Settled

NotificationInvariant ==
  /\ TypeOK
  /\ AtMostOncePerInstance
  /\ MarkedWhenNotified
  /\ PassedIsSettled
  /\ NothingSkipped

-----------------------------------------------------------------------------
(* README, Idempotency: "every consumer checks processed_events before     *)
(* handling an event, preventing duplicate processing": an event is        *)
(* notified once.                                                          *)
NotifiedOnce == \A e \in Events : notifications[e] <= 1
=============================================================================
