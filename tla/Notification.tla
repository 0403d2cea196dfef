---------------------------- MODULE Notification ----------------------------
(***************************************************************************)
(* The consumers of notification-service: the only ones that look into     *)
(* processed_events before they act (repository.go).  The check and the    *)
(* transaction that records the notification are two calls, so the steps   *)
(* of two instances interleave between them.                               *)
(*                                                                         *)
(* Several instances may run in the consumer group; the topic's partition  *)
(* belongs to one of them at a time, and an instance that loses it goes on *)
(* with the records it has already fetched, because the client library     *)
(* does not hold up a rebalance while records are being handled.           *)
(*                                                                         *)
(* Abstracted: an event is its event_id, the key of processed_events; the  *)
(* two topics, payment.succeeded and user.registered, are handled alike    *)
(* and never share an event_id, so one of them is modelled.                *)
(***************************************************************************)
EXTENDS Integers, Sequences, FiniteSets

CONSTANTS
  Events,         \* event_ids
  Instances,      \* running instances of notification-service
  MaxRetry,       \* Consumer.maxRetry, 3 in the code
  MaxRecords,     \* bound: records in the topic, relay duplicates included
  MaxErrors,      \* bound: failed database or broker calls in a behaviour
  MaxRebalances   \* bound: crashes and changes of the partition's owner

ASSUME NotificationAssumption == /\ IsFiniteSet(Instances)
                                 /\ MaxRetry \in Nat \ {0}
                                 /\ MaxRecords \in Nat
                                 /\ MaxErrors \in Nat
                                 /\ MaxRebalances \in Nat

VARIABLES
  topic,          \* event_ids in Kafka
  owner,          \* the instance the partition is assigned to
  committed,      \* offset stored in Kafka
  position,       \* position[i]: records instance i has dealt with
  fetched,        \* fetched[i]: last record of the poll of i
  pc,             \* pc[i]: "check" or "record", the next call of its handler
  attempt,        \* attempt[i]: failed attempts at the current record
  processed,      \* processed_events
  notifications,  \* notifications[e]: rows recorded for event e
  dlq,            \* events sent to the DLQ topic
  dropped,        \* events whose send to the DLQ topic failed
  errors,         \* failed calls so far
  rebalances      \* crashes and changes of owner so far

kafkaVars == <<topic, owner, committed>>
loopVars  == <<position, fetched, pc, attempt>>
dbVars    == <<processed, notifications>>
deadVars  == <<dlq, dropped>>
vars == <<kafkaVars, loopVars, dbVars, deadVars, errors, rebalances>>

Init ==
  /\ topic = << >>
  /\ owner \in Instances
  /\ committed = 0
  /\ position = [i \in Instances |-> 0]
  /\ fetched = [i \in Instances |-> 0]
  /\ pc = [i \in Instances |-> "check"]
  /\ attempt = [i \in Instances |-> 0]
  /\ processed = {}
  /\ notifications = [e \in Events |-> 0]
  /\ dlq = {}
  /\ dropped = {}
  /\ errors = 0
  /\ rebalances = 0

CallFails == errors < MaxErrors /\ errors' = errors + 1

(* The relay of another service publishes an event, perhaps once more. *)
Produce(e) ==
  /\ Len(topic) < MaxRecords
  /\ topic' = Append(topic, e)
  /\ UNCHANGED <<owner, committed, loopVars, dbVars, deadVars, errors, rebalances>>

-----------------------------------------------------------------------------
(* The consumer loop of instance i.                                        *)

Busy(i) == position[i] < fetched[i]

Event(i) == topic[position[i] + 1]

Poll(i) ==
  /\ owner = i
  /\ ~Busy(i)
  /\ position[i] < Len(topic)
  /\ fetched' = [fetched EXCEPT ![i] = Len(topic)]
  /\ UNCHANGED <<kafkaVars, position, pc, attempt, dbVars, deadVars, errors, rebalances>>

(* The handler returned nil, or the record was dead-lettered. *)
MoveOn(i) ==
  /\ position' = [position EXCEPT ![i] = @ + 1]
  /\ pc' = [pc EXCEPT ![i] = "check"]
  /\ attempt' = [attempt EXCEPT ![i] = 0]

(* The handler returned an error: the next attempt starts with the check. *)
TryAgain(i) ==
  /\ attempt' = [attempt EXCEPT ![i] = @ + 1]
  /\ pc' = [pc EXCEPT ![i] = "check"]
  /\ UNCHANGED position

CanHandle(i, call) == Busy(i) /\ pc[i] = call /\ attempt[i] < MaxRetry

(* Plausible bug: the result of the query is not looked at. *)
IsProcessedIgnored(i) ==
  /\ CanHandle(i, "check")
  /\ pc' = [pc EXCEPT ![i] = "record"] /\ UNCHANGED <<position, attempt, errors>>
  /\ UNCHANGED <<kafkaVars, fetched, dbVars, deadVars, rebalances>>

(* The SELECT on processed_events: skip the event, or go on to record it. *)
IsProcessed(i) ==
  /\ CanHandle(i, "check")
  /\ \/ Event(i) \in processed /\ MoveOn(i) /\ UNCHANGED errors
     \/ /\ Event(i) \notin processed
        /\ pc' = [pc EXCEPT ![i] = "record"]
        /\ UNCHANGED <<position, attempt, errors>>
     \/ CallFails /\ TryAgain(i)
  /\ UNCHANGED <<kafkaVars, fetched, dbVars, deadVars, rebalances>>

(* Plausible bug: the mark is committed first, and the notification may    *)
(* fail after it.                                                          *)
MarkedFirst(e) ==
  /\ processed' = processed \cup {e}
  /\ notifications' \in {notifications, [notifications EXCEPT ![e] = @ + 1]}

(* The transaction: the notification row and the processed_events row,     *)
(* the latter ON CONFLICT DO NOTHING.                                      *)
Recorded(e) ==
  /\ notifications' = [notifications EXCEPT ![e] = @ + 1]
  /\ processed' = processed \cup {e}

(* The transaction commits; or it fails, and a failed COMMIT may have      *)
(* taken effect.                                                           *)
RecordNotification(i) ==
  /\ CanHandle(i, "record")
  /\ \/ Recorded(Event(i)) /\ MoveOn(i) /\ UNCHANGED errors
     \/ CallFails /\ TryAgain(i) /\ (Recorded(Event(i)) \/ UNCHANGED dbVars)
  /\ UNCHANGED <<kafkaVars, fetched, deadVars, rebalances>>

(* Plausible bug: an exhausted record is left to the next attempt. *)
DeadLetterNothing(i) ==
  /\ Busy(i)
  /\ attempt[i] = MaxRetry
  /\ MoveOn(i)
  /\ UNCHANGED <<kafkaVars, fetched, dbVars, deadVars, errors, rebalances>>

DeadLetter(i) ==
  /\ Busy(i)
  /\ attempt[i] = MaxRetry
  /\ MoveOn(i)
  /\ \/ dlq' = dlq \cup {Event(i)} /\ UNCHANGED <<dropped, errors>>
     \/ CallFails /\ dropped' = dropped \cup {Event(i)} /\ UNCHANGED dlq
  /\ UNCHANGED <<kafkaVars, fetched, dbVars, rebalances>>

-----------------------------------------------------------------------------
(* The consumer group.                                                     *)

(* Only the owner's commits are accepted; none goes back. *)
CommitOffset(i) ==
  /\ owner = i
  /\ committed < position[i]
  /\ committed' = position[i]
  /\ UNCHANGED <<topic, owner, loopVars, dbVars, deadVars, errors, rebalances>>

RebalanceBudget == rebalances < MaxRebalances /\ rebalances' = rebalances + 1

(* Instance i gets the partition and resumes from the stored offset; the   *)
(* former owner does not notice before its own next poll.  Left out: an    *)
(* instance that gets the partition back while it handles its old batch.   *)
Rebalance(i) ==
  /\ owner # i
  /\ ~Busy(i)
  /\ RebalanceBudget
  /\ owner' = i
  /\ position' = [position EXCEPT ![i] = committed]
  /\ fetched' = [fetched EXCEPT ![i] = committed]
  /\ UNCHANGED <<topic, committed, pc, attempt, dbVars, deadVars, errors>>

(* Instance i dies at any point and is started again. *)
Crash(i) ==
  /\ RebalanceBudget
  /\ position' = [position EXCEPT ![i] = committed]
  /\ fetched' = [fetched EXCEPT ![i] = committed]
  /\ pc' = [pc EXCEPT ![i] = "check"]
  /\ attempt' = [attempt EXCEPT ![i] = 0]
  /\ UNCHANGED <<kafkaVars, dbVars, deadVars, errors>>

Loop(i) == Poll(i) \/ IsProcessed(i) \/ RecordNotification(i) \/ DeadLetter(i)

Next ==
  \/ \E e \in Events : Produce(e)
  \/ \E i \in Instances : Loop(i) \/ CommitOffset(i) \/ Rebalance(i) \/ Crash(i)

Spec == Init /\ [][Next]_vars

(* The consumer goroutines run and their calls return. *)
Fairness == \A i \in Instances : WF_vars(Loop(i))

FairSpec == Spec /\ Fairness
=============================================================================
