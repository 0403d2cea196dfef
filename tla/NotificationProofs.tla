-------------------------- MODULE NotificationProofs --------------------------
(***************************************************************************)
(* Proofs of the safety of Notification for any number of instances,       *)
(* events, records, failures and rebalances.                               *)
(***************************************************************************)
EXTENDS NotificationProperties, FiniteSetTheorems, TLAPS

-----------------------------------------------------------------------------
(* Types.                                                                  *)

LEMMA TypeInit == Init => TypeOK
BY NotificationAssumption DEF Init, TypeOK, Busy

(* The record an instance works on is in the topic. *)
LEMMA EventInTopic ==
  ASSUME TypeOK, NEW i \in Instances, Busy(i)
  PROVE  position[i] + 1 \in 1..Len(topic) /\ Event(i) \in Events
BY SMTT(30) DEF TypeOK, Busy, Event

(* The part of TypeOK that speaks of the consumer loops. *)
LoopOK ==
  /\ committed \in Nat /\ committed <= position[owner]
  /\ position \in [Instances -> Nat]
  /\ fetched \in [Instances -> Nat]
  /\ pc \in [Instances -> {"check", "record"}]
  /\ attempt \in [Instances -> 0..MaxRetry]
  /\ \A i \in Instances : /\ position[i] <= fetched[i] /\ fetched[i] <= Len(topic)
                          /\ pc[i] = "record" => Busy(i) /\ attempt[i] < MaxRetry
                          /\ attempt[i] > 0 => Busy(i)

LEMMA MoveOnLoop ==
  ASSUME TypeOK, NEW i \in Instances, Busy(i), MoveOn(i),
         UNCHANGED <<topic, owner, committed, fetched>>
  PROVE  LoopOK'
<1>1. /\ position' = [position EXCEPT ![i] = position[i] + 1]
      /\ pc' = [pc EXCEPT ![i] = "check"]
      /\ attempt' = [attempt EXCEPT ![i] = 0]
  BY DEF MoveOn
<1>2. position' \in [Instances -> Nat] /\ position'[owner] >= position[owner]
  BY <1>1 DEF TypeOK
<1>3. pc' \in [Instances -> {"check", "record"}] /\ attempt' \in [Instances -> 0..MaxRetry]
  BY <1>1, NotificationAssumption DEF TypeOK
<1>4. committed' \in Nat /\ committed' <= position'[owner'] /\ fetched' \in [Instances -> Nat]
  BY <1>2 DEF TypeOK
<1>5. ASSUME NEW j \in Instances
      PROVE  /\ position'[j] <= fetched'[j] /\ fetched'[j] <= Len(topic')
             /\ pc'[j] = "record" => position'[j] < fetched'[j] /\ attempt'[j] < MaxRetry
             /\ attempt'[j] > 0 => position'[j] < fetched'[j]
  <2>1. CASE j = i
    BY <1>1, <2>1 DEF TypeOK, Busy
  <2>2. CASE j # i
    BY <1>1, <2>2 DEF TypeOK, Busy
  <2> QED
    BY <2>1, <2>2
<1> QED
  BY <1>2, <1>3, <1>4, <1>5 DEF LoopOK, Busy

LEMMA TryAgainLoop ==
  ASSUME TypeOK, NEW i \in Instances, Busy(i), attempt[i] < MaxRetry, TryAgain(i),
         UNCHANGED <<topic, owner, committed, fetched>>
  PROVE  LoopOK'
<1>1. /\ position' = position
      /\ pc' = [pc EXCEPT ![i] = "check"]
      /\ attempt' = [attempt EXCEPT ![i] = attempt[i] + 1]
  BY DEF TryAgain
<1>2. attempt' \in [Instances -> 0..MaxRetry]
  BY <1>1, NotificationAssumption DEF TypeOK
<1>3. /\ committed' \in Nat /\ committed' <= position'[owner']
      /\ position' \in [Instances -> Nat] /\ fetched' \in [Instances -> Nat]
      /\ pc' \in [Instances -> {"check", "record"}]
  BY <1>1 DEF TypeOK
<1>4. ASSUME NEW j \in Instances
      PROVE  /\ position'[j] <= fetched'[j] /\ fetched'[j] <= Len(topic')
             /\ pc'[j] = "record" => position'[j] < fetched'[j] /\ attempt'[j] < MaxRetry
             /\ attempt'[j] > 0 => position'[j] < fetched'[j]
  <2>1. CASE j = i
    BY <1>1, <2>1 DEF TypeOK, Busy
  <2>2. CASE j # i
    BY <1>1, <2>2 DEF TypeOK, Busy
  <2> QED
    BY <2>1, <2>2
<1> QED
  BY <1>2, <1>3, <1>4 DEF LoopOK, Busy

LEMMA TypeNext == TypeOK /\ [Next]_vars => TypeOK'
<1> SUFFICES ASSUME TypeOK, [Next]_vars PROVE TypeOK'
  OBVIOUS
<1> USE NotificationAssumption DEF kafkaVars, loopVars, dbVars, deadVars
<1>1. ASSUME NEW e \in Events, Produce(e) PROVE TypeOK'
  BY <1>1, SMTT(30) DEF Produce, TypeOK, Busy
<1>2. ASSUME NEW i \in Instances, Poll(i) PROVE TypeOK'
  <2>1. fetched' = [fetched EXCEPT ![i] = Len(topic)] /\ position[i] < Len(topic)
    BY <1>2 DEF Poll
  <2>2. ASSUME NEW j \in Instances
        PROVE  /\ position[j] <= fetched'[j] /\ fetched'[j] <= Len(topic)
               /\ pc[j] = "record" => position[j] < fetched'[j] /\ attempt[j] < MaxRetry
               /\ attempt[j] > 0 => position[j] < fetched'[j]
    <3>1. CASE j = i
      BY <2>1, <3>1 DEF TypeOK, Busy
    <3>2. CASE j # i
      BY <2>1, <3>2 DEF TypeOK, Busy
    <3> QED
      BY <3>1, <3>2
  <2>3. fetched' \in [Instances -> Nat]
    BY <2>1 DEF TypeOK
  <2>4. UNCHANGED <<kafkaVars, position, pc, attempt, dbVars, deadVars, errors, rebalances>>
    BY <1>2 DEF Poll
  <2> QED
    BY <2>2, <2>3, <2>4 DEF TypeOK, Busy
<1>3. ASSUME NEW i \in Instances, IsProcessed(i) PROVE TypeOK'
  <2>1. UNCHANGED <<kafkaVars, fetched, dbVars, deadVars, rebalances>>
    BY <1>3 DEF IsProcessed
  <2>2. errors' \in Nat
    BY <1>3 DEF IsProcessed, CallFails, TypeOK
  <2>3. Busy(i) /\ attempt[i] < MaxRetry
    BY <1>3 DEF IsProcessed, CanHandle
  <2>4. CASE MoveOn(i) \/ TryAgain(i)
    <3>1. LoopOK'
      BY <2>1, <2>3, <2>4, MoveOnLoop, TryAgainLoop
    <3> QED
      BY <2>1, <2>2, <3>1 DEF TypeOK, LoopOK
  <2>5. CASE pc' = [pc EXCEPT ![i] = "record"] /\ UNCHANGED <<position, attempt>>
    <3>1. pc' \in [Instances -> {"check", "record"}]
      BY <2>5 DEF TypeOK
    <3>2. \A j \in Instances : pc'[j] = "record" => Busy(j) /\ attempt[j] < MaxRetry
      BY <2>3, <2>5 DEF TypeOK
    <3> QED
      BY <2>1, <2>2, <2>5, <3>1, <3>2 DEF TypeOK, Busy
  <2> QED
    BY <1>3, <2>4, <2>5 DEF IsProcessed
<1>4. ASSUME NEW i \in Instances, RecordNotification(i) PROVE TypeOK'
  <2>1. UNCHANGED <<kafkaVars, fetched, deadVars, rebalances>>
    BY <1>4 DEF RecordNotification
  <2>2. errors' \in Nat
    BY <1>4 DEF RecordNotification, CallFails, TypeOK
  <2>3. Busy(i) /\ attempt[i] < MaxRetry
    BY <1>4 DEF RecordNotification, CanHandle
  <2>4. processed' \subseteq Events /\ notifications' \in [Events -> Nat]
    <3>1. Event(i) \in Events
      BY <2>3, EventInTopic
    <3>2. Recorded(Event(i)) \/ UNCHANGED dbVars
      BY <1>4 DEF RecordNotification
    <3>3. CASE Recorded(Event(i))
      BY <3>1, <3>3 DEF Recorded, TypeOK
    <3>4. CASE UNCHANGED dbVars
      BY <3>4 DEF TypeOK
    <3> QED
      BY <3>2, <3>3, <3>4
  <2>5. LoopOK'
    BY <1>4, <2>1, <2>3, MoveOnLoop, TryAgainLoop DEF RecordNotification
  <2> QED
    BY <2>1, <2>2, <2>4, <2>5 DEF TypeOK, LoopOK
<1>5. ASSUME NEW i \in Instances, DeadLetter(i) PROVE TypeOK'
  <2>1. UNCHANGED <<kafkaVars, fetched, dbVars, rebalances>>
    BY <1>5 DEF DeadLetter
  <2>2. errors' \in Nat /\ dlq' \subseteq Events /\ dropped' \subseteq Events
    <3>1. Event(i) \in Events
      BY <1>5, EventInTopic DEF DeadLetter
    <3>2. \/ dlq' = dlq \cup {Event(i)} /\ UNCHANGED <<dropped, errors>>
          \/ errors' = errors + 1 /\ dropped' = dropped \cup {Event(i)} /\ UNCHANGED dlq
      BY <1>5 DEF DeadLetter, CallFails
    <3> QED
      BY <3>1, <3>2, SMTT(30) DEF TypeOK
  <2>3. LoopOK'
    BY <1>5, <2>1, MoveOnLoop DEF DeadLetter
  <2> QED
    BY <2>1, <2>2, <2>3 DEF TypeOK, LoopOK
<1>6. ASSUME NEW i \in Instances, CommitOffset(i) PROVE TypeOK'
  BY <1>6, SMTT(30) DEF CommitOffset, TypeOK, Busy
<1>7. ASSUME NEW i \in Instances, Rebalance(i) PROVE TypeOK'
  BY <1>7 DEF Rebalance, RebalanceBudget, TypeOK, Busy
<1>8. ASSUME NEW i \in Instances, Crash(i) PROVE TypeOK'
  BY <1>8 DEF Crash, RebalanceBudget, TypeOK, Busy
<1>9. CASE UNCHANGED vars
  BY <1>9 DEF vars, TypeOK, Busy
<1> QED
  BY <1>1, <1>2, <1>3, <1>4, <1>5, <1>6, <1>7, <1>8, <1>9 DEF Next, Loop

-----------------------------------------------------------------------------
(* Settled events and passed records.                                      *)

(* What is settled stays so, and the topic only grows. *)
LEMMA Monotone ==
  ASSUME TypeOK, [Next]_vars
  PROVE  /\ Settled \subseteq Settled'
         /\ Len(topic) \in Nat /\ Len(topic') >= Len(topic)
         /\ \A k \in 1..Len(topic) : topic'[k] = topic[k]
<1> USE DEF kafkaVars, loopVars, dbVars, deadVars
<1>0. UNCHANGED notifications \/ \E i \in Instances : Busy(i) /\ Recorded(Event(i))
  BY DEF Next, Loop, Produce, Poll, IsProcessed, RecordNotification, CanHandle, DeadLetter,
         CommitOffset, Rebalance, Crash, vars
<1>a. ASSUME NEW e \in Events, notifications[e] > 0 PROVE notifications'[e] > 0
  <2>1. ASSUME NEW i \in Instances, Busy(i), Recorded(Event(i)) PROVE notifications'[e] > 0
    <3>1. notifications' = [notifications EXCEPT ![Event(i)] = notifications[Event(i)] + 1]
      BY <2>1 DEF Recorded
    <3> QED
      BY <1>a, <3>1 DEF TypeOK
  <2> QED
    BY <1>0, <1>a, <2>1
<1>b. dlq \subseteq dlq' /\ dropped \subseteq dropped'
  BY DEF Next, Loop, Produce, Poll, IsProcessed, RecordNotification, DeadLetter,
         CommitOffset, Rebalance, Crash, vars
<1>1. Settled \subseteq Settled'
  BY <1>a, <1>b DEF Settled
<1>2. ASSUME NEW e \in Events, Produce(e)
      PROVE  Len(topic') >= Len(topic) /\ \A k \in 1..Len(topic) : topic'[k] = topic[k]
  BY <1>2 DEF Produce, TypeOK
<1>3. Len(topic) \in Nat
  BY DEF TypeOK
<1>4. CASE UNCHANGED topic
  BY <1>1, <1>3, <1>4
<1>5. (\E e \in Events : Produce(e)) \/ UNCHANGED topic
  BY DEF Next, Loop, Poll, IsProcessed, RecordNotification, DeadLetter, CommitOffset,
         Rebalance, Crash, vars
<1> QED
  BY <1>1, <1>2, <1>3, <1>4, <1>5

(* An instance goes past a record only when its event is settled; other    *)
(* moves take it back to the stored offset.                                *)
LEMMA PositionStep ==
  ASSUME TypeOK, MarkedWhenNotified, [Next]_vars, NEW i \in Instances
  PROVE  \/ position'[i] = position[i]
         \/ position'[i] = committed
         \/ Busy(i) /\ position'[i] = position[i] + 1 /\ Event(i) \in Settled'
<1> USE DEF kafkaVars, loopVars, dbVars, deadVars
<1> DEFINE G == \/ position'[i] = position[i]
                \/ position'[i] = committed
                \/ Busy(i) /\ position'[i] = position[i] + 1 /\ Event(i) \in Settled'
<1>0. Settled \subseteq Settled'
  BY Monotone
<1>1. ASSUME NEW j \in Instances, IsProcessed(j) PROVE G
  <2>1. Event(j) \in processed => Event(j) \in Settled'
    <3>1. Busy(j)
      BY <1>1 DEF IsProcessed, CanHandle
    <3> QED
      BY <1>0, <3>1, EventInTopic DEF MarkedWhenNotified, Settled
  <2> QED
    BY <1>1, <2>1 DEF IsProcessed, CanHandle, MoveOn, TryAgain, TypeOK
<1>2. ASSUME NEW j \in Instances, RecordNotification(j) PROVE G
  <2>1. Busy(j)
    BY <1>2 DEF RecordNotification, CanHandle
  <2>2. ASSUME NEW e \in Events, Recorded(e) PROVE e \in Settled'
    <3>1. notifications[e] \in Nat /\ notifications'[e] = notifications[e] + 1
      BY <2>2 DEF Recorded, TypeOK
    <3>2. notifications'[e] > 0
      BY <3>1
    <3> QED
      BY <3>2 DEF Settled
  <2>3. Event(j) \in Events
    BY <2>1, EventInTopic
  <2>4. Recorded(Event(j)) => Event(j) \in Settled'
    BY <2>2, <2>3
  <2> QED
    BY <1>2, <2>1, <2>4 DEF RecordNotification, MoveOn, TryAgain, TypeOK
<1>3. ASSUME NEW j \in Instances, DeadLetter(j) PROVE G
  BY <1>3 DEF DeadLetter, MoveOn, Settled, TypeOK
<1>4. ASSUME NEW j \in Instances, Rebalance(j) \/ Crash(j) PROVE G
  BY <1>4 DEF Rebalance, Crash, TypeOK
<1>5. CASE UNCHANGED position
  BY <1>5
<1> QED
  BY <1>1, <1>2, <1>3, <1>4, <1>5
     DEF Next, Loop, Produce, Poll, CommitOffset, vars

LEMMA CommittedStep ==
  ASSUME TypeOK, [Next]_vars
  PROVE  committed' = committed \/ committed' = position[owner]
BY DEF Next, Loop, Produce, Poll, IsProcessed, RecordNotification, DeadLetter, CommitOffset,
       Rebalance, Crash, vars, kafkaVars, loopVars

LEMMA SettledNext ==
  ASSUME TypeOK, MarkedWhenNotified, PassedIsSettled, NothingSkipped, [Next]_vars
  PROVE  PassedIsSettled' /\ NothingSkipped'
<1>1. Settled \subseteq Settled' /\ \A k \in 1..Len(topic) : topic'[k] = topic[k]
  BY Monotone
<1>2. ASSUME NEW i \in Instances, NEW k \in 1..position'[i] PROVE topic'[k] \in Settled'
  <2>1. position[i] <= Len(topic) /\ committed <= Len(topic)
    BY DEF TypeOK
  <2>2. position[i] \in Nat /\ committed \in Nat
    BY DEF TypeOK
  <2>0. Len(topic) \in Nat
    BY Monotone
  <2>3. ASSUME NEW n \in 1..position[i] PROVE topic'[n] \in Settled'
    <3>1. topic[n] \in Settled
      BY DEF PassedIsSettled
    <3>2. n \in 1..Len(topic)
      BY <2>0, <2>1, <2>2
    <3> QED
      BY <1>1, <3>1, <3>2
  <2>4. ASSUME NEW n \in 1..committed PROVE topic'[n] \in Settled'
    <3>1. topic[n] \in Settled
      BY DEF NothingSkipped
    <3>2. n \in 1..Len(topic)
      BY <2>0, <2>1, <2>2
    <3> QED
      BY <1>1, <3>1, <3>2
  <2>5. CASE position'[i] = position[i] \/ position'[i] = committed
    BY <2>3, <2>4, <2>5
  <2>6. CASE Busy(i) /\ position'[i] = position[i] + 1 /\ Event(i) \in Settled'
    <3>1. position[i] + 1 \in 1..Len(topic)
      BY <2>6, EventInTopic
    <3>2. topic'[position[i] + 1] \in Settled'
      BY <1>1, <2>6, <3>1 DEF Event
    <3> QED
      BY <2>2, <2>3, <2>6, <3>2
  <2> QED
    BY <2>5, <2>6, PositionStep
<1>3. ASSUME NEW k \in 1..committed' PROVE topic'[k] \in Settled'
  <2>1. owner \in Instances /\ committed \in Nat /\ position[owner] \in Nat
        /\ committed <= Len(topic) /\ position[owner] <= Len(topic)
    BY DEF TypeOK
  <2> QED
    <3>1. ASSUME committed' = committed PROVE topic[k] \in Settled
      BY <1>3, <3>1 DEF NothingSkipped
    <3>2. ASSUME committed' = position[owner] PROVE topic[k] \in Settled
      BY <1>3, <2>1, <3>2 DEF PassedIsSettled
    <3>3. k \in 1..Len(topic)
      <4>1. Len(topic) \in Nat
        BY Monotone
      <4>2. committed' <= Len(topic) /\ committed' \in Nat
        BY <2>1, CommittedStep
      <4> QED
        BY <1>3, <4>1, <4>2
    <3>4. topic[k] \in Settled
      BY <3>1, <3>2, CommittedStep
    <3> QED
      BY <1>1, <3>3, <3>4
<1> QED
  BY <1>2, <1>3 DEF PassedIsSettled, NothingSkipped

-----------------------------------------------------------------------------
(* Marks and notifications.                                                *)

LEMMA MarkedNext ==
  ASSUME TypeOK, MarkedWhenNotified, [Next]_vars
  PROVE  MarkedWhenNotified'
<1> USE DEF kafkaVars, loopVars, dbVars, deadVars
<1>1. ASSUME NEW i \in Instances, Busy(i), Recorded(Event(i)) PROVE MarkedWhenNotified'
  BY <1>1, EventInTopic DEF Recorded, MarkedWhenNotified, TypeOK
<1>2. CASE UNCHANGED dbVars
  BY <1>2 DEF MarkedWhenNotified
<1> QED
  BY <1>1, <1>2
     DEF Next, Loop, Produce, Poll, IsProcessed, RecordNotification, CanHandle, DeadLetter,
         CommitOffset, Rebalance, Crash, vars

(* An instance becomes a writer of e only while e is not marked, and       *)
(* recording e makes it stop being one.                                    *)
LEMMA WritersStep ==
  ASSUME TypeOK, [Next]_vars, NEW e \in Events
  PROVE  \/ notifications'[e] = notifications[e] /\ Writers(e)' \subseteq Writers(e)
         \/ e \notin processed /\ notifications'[e] = notifications[e]
         \/ \E i \in Writers(e) : /\ notifications'[e] = notifications[e] + 1
                                  /\ Writers(e)' \subseteq Writers(e) \ {i}
<1> USE DEF kafkaVars, loopVars, dbVars, deadVars
<1> DEFINE G == \/ notifications'[e] = notifications[e] /\ Writers(e)' \subseteq Writers(e)
                \/ e \notin processed /\ notifications'[e] = notifications[e]
                \/ \E i \in Writers(e) : /\ notifications'[e] = notifications[e] + 1
                                         /\ Writers(e)' \subseteq Writers(e) \ {i}
<1>0. ASSUME NEW j \in Instances, Busy(j) PROVE topic'[position[j] + 1] = Event(j)
  BY <1>0, EventInTopic, Monotone DEF Event
<1>a. ASSUME NEW j \in Instances, pc[j] = "record" PROVE Busy(j)
  BY <1>a DEF TypeOK
<1>1. ASSUME NEW f \in Events, Produce(f) PROVE G
  BY <1>0, <1>a, <1>1 DEF Produce, Writers, Event
<1>2. ASSUME NEW i \in Instances, Poll(i) PROVE G
  BY <1>2 DEF Poll, Writers, Event
<1>3. ASSUME NEW i \in Instances, IsProcessed(i) PROVE G
  <2>1. CASE Event(i) \notin processed /\ Event(i) = e
    BY <1>3, <2>1 DEF IsProcessed
  <2>2. CASE Event(i) \in processed \/ Event(i) # e
    <3>1. notifications'[e] = notifications[e] /\ topic' = topic
      BY <1>3 DEF IsProcessed
    <3>2. ASSUME NEW j \in Instances, pc'[j] = "record", Event(j)' = e
          PROVE  pc[j] = "record" /\ Event(j) = e
      BY <1>3, <2>2, <3>1, <3>2 DEF IsProcessed, CanHandle, MoveOn, TryAgain, Event, TypeOK
    <3> QED
      BY <3>1, <3>2 DEF Writers
  <2> QED
    BY <2>1, <2>2
<1>4. ASSUME NEW i \in Instances, RecordNotification(i) PROVE G
  <2>1. pc[i] = "record" /\ Busy(i) /\ topic' = topic
    BY <1>4 DEF RecordNotification, CanHandle
  <2>2. pc' = [pc EXCEPT ![i] = "check"] /\ \A j \in Instances \ {i} : position'[j] = position[j]
    BY <1>4 DEF RecordNotification, MoveOn, TryAgain, TypeOK
  <2>3. Writers(e)' \subseteq Writers(e) \ {i}
    BY <2>1, <2>2 DEF Writers, Event, TypeOK
  <2>4. CASE UNCHANGED notifications
    BY <2>3, <2>4
  <2>5. CASE Recorded(Event(i))
    <3>1. CASE Event(i) = e
      BY <2>1, <2>3, <2>5, <3>1 DEF Recorded, Writers, TypeOK
    <3>2. CASE Event(i) # e
      BY <2>3, <2>5, <3>2 DEF Recorded, TypeOK
    <3> QED
      BY <3>1, <3>2
  <2> QED
    BY <1>4, <2>4, <2>5 DEF RecordNotification
<1>5. ASSUME NEW i \in Instances, DeadLetter(i) \/ Crash(i) PROVE G
  <2>1. UNCHANGED <<notifications, topic>>
    BY <1>5 DEF DeadLetter, Crash
  <2>2. pc' = [pc EXCEPT ![i] = "check"] /\ \A j \in Instances \ {i} : position'[j] = position[j]
    BY <1>5 DEF DeadLetter, MoveOn, Crash, TypeOK
  <2> QED
    BY <2>1, <2>2 DEF Writers, Event, TypeOK
<1>6. ASSUME NEW i \in Instances, CommitOffset(i) PROVE G
  BY <1>6 DEF CommitOffset, Writers, Event
<1>7. ASSUME NEW i \in Instances, Rebalance(i) PROVE G
  <2>1. UNCHANGED <<notifications, topic, pc>> /\ ~Busy(i)
    BY <1>7 DEF Rebalance
  <2>2. \A j \in Instances \ {i} : position'[j] = position[j]
    BY <1>7 DEF Rebalance, TypeOK
  <2>3. pc[i] # "record"
    BY <1>a, <2>1
  <2> QED
    BY <2>1, <2>2, <2>3 DEF Writers, Event
<1>8. CASE UNCHANGED vars
  BY <1>8 DEF vars, Writers, Event
<1> QED
  BY <1>1, <1>2, <1>3, <1>4, <1>5, <1>6, <1>7, <1>8 DEF Next, Loop

LEMMA AtMostOnceNext ==
  ASSUME TypeOK, MarkedWhenNotified, AtMostOncePerInstance, [Next]_vars
  PROVE  AtMostOncePerInstance'
<1> SUFFICES ASSUME NEW e \in Events
             PROVE  notifications'[e] + Cardinality(Writers(e)') <= Cardinality(Instances)
  BY DEF AtMostOncePerInstance
<1> DEFINE W == Writers(e)
           V == Writers(e)'
<1>1. W \subseteq Instances /\ V \subseteq Instances
  BY DEF Writers
<1>2. IsFiniteSet(W) /\ IsFiniteSet(V) /\ IsFiniteSet(Instances)
  BY <1>1, FS_Subset, NotificationAssumption
<1>3. Cardinality(W) \in Nat /\ Cardinality(V) \in Nat /\ Cardinality(Instances) \in Nat
  BY <1>2, FS_CardinalityType
<1>4. notifications[e] \in Nat /\ notifications[e] + Cardinality(W) <= Cardinality(Instances)
  BY DEF AtMostOncePerInstance, TypeOK
<1>5. V \subseteq W => Cardinality(V) <= Cardinality(W)
  BY <1>2, FS_Subset
<1>6. Cardinality(V) <= Cardinality(Instances)
  BY <1>1, <1>2, FS_Subset
<1>7. e \notin processed => notifications[e] = 0
  BY <1>4 DEF MarkedWhenNotified
<1>8. ASSUME NEW i \in W, V \subseteq W \ {i} PROVE Cardinality(V) + 1 <= Cardinality(W)
  <2>1. IsFiniteSet(W \ {i}) /\ Cardinality(W \ {i}) = Cardinality(W) - 1
    BY <1>2, <1>8, FS_RemoveElement
  <2>2. Cardinality(V) <= Cardinality(W \ {i})
    BY <1>8, <2>1, FS_Subset
  <2> QED
    BY <1>3, <2>1, <2>2
<1> HIDE DEF W, V
<1>9. \/ notifications'[e] = notifications[e] /\ V \subseteq W
      \/ e \notin processed /\ notifications'[e] = notifications[e]
      \/ \E i \in W : notifications'[e] = notifications[e] + 1 /\ V \subseteq W \ {i}
  BY WritersStep DEF W, V
<1>10. notifications'[e] + Cardinality(V) <= Cardinality(Instances)
  BY <1>3, <1>4, <1>5, <1>6, <1>7, <1>8, <1>9
<1> QED
  BY <1>10 DEF V

-----------------------------------------------------------------------------
(* The invariant and what follows from it.                                 *)

LEMMA InvariantInit == Init => NotificationInvariant
<1> SUFFICES ASSUME Init PROVE NotificationInvariant
  OBVIOUS
<1>1. TypeOK
  BY TypeInit
<1>2. \A e \in Events : Writers(e) = {}
  BY DEF Init, Writers
<1>3. Cardinality({}) = 0 /\ Cardinality(Instances) \in Nat
  BY FS_EmptySet, FS_CardinalityType, NotificationAssumption
<1>4. AtMostOncePerInstance
  <2> SUFFICES ASSUME NEW e \in Events
               PROVE  notifications[e] + Cardinality(Writers(e)) <= Cardinality(Instances)
    BY DEF AtMostOncePerInstance
  <2>1. notifications[e] = 0
    BY DEF Init
  <2>2. Cardinality(Writers(e)) = 0
    BY <1>2, <1>3
  <2> QED
    BY <1>3, <2>1, <2>2
<1>5. MarkedWhenNotified
  BY DEF Init, MarkedWhenNotified
<1>6. PassedIsSettled /\ NothingSkipped
  BY DEF Init, PassedIsSettled, NothingSkipped
<1> QED
  BY <1>1, <1>4, <1>5, <1>6 DEF NotificationInvariant

LEMMA InvariantNext == NotificationInvariant /\ [Next]_vars => NotificationInvariant'
BY TypeNext, AtMostOnceNext, MarkedNext, SettledNext DEF NotificationInvariant

THEOREM NotificationInvariance == Spec => []NotificationInvariant
BY InvariantInit, InvariantNext, PTL DEF Spec

(* Types and the order of the cursors. *)
THEOREM TypeCorrectness == Spec => []TypeOK
<1>1. NotificationInvariant => TypeOK
  BY DEF NotificationInvariant
<1> QED
  BY <1>1, NotificationInvariance, PTL

(* isProcessed and recordNotification: no instance notifies an event       *)
(* twice, so one instance alone notifies it at most once.                  *)
THEOREM DuplicatesAreBounded == Spec => []AtMostOncePerInstance
<1>1. NotificationInvariant => AtMostOncePerInstance
  BY DEF NotificationInvariant
<1> QED
  BY <1>1, NotificationInvariance, PTL

(* No stored offset covers an event that was neither notified nor given up. *)
THEOREM NoEventIsSkipped == Spec => []NothingSkipped
<1>1. NotificationInvariant => NothingSkipped
  BY DEF NotificationInvariant
<1> QED
  BY <1>1, NotificationInvariance, PTL

(* README, Idempotency, for a service that runs as one instance: no event  *)
(* is notified twice.                                                      *)
THEOREM OneInstanceNotifiesOnce ==
  ASSUME Cardinality(Instances) = 1
  PROVE  Spec => []NotifiedOnce
<1>1. NotificationInvariant => NotifiedOnce
  <2> SUFFICES ASSUME NotificationInvariant, NEW e \in Events PROVE notifications[e] <= 1
    BY DEF NotifiedOnce
  <2>1. Cardinality(Writers(e)) \in Nat
    BY FS_Subset, FS_CardinalityType, NotificationAssumption DEF Writers
  <2>2. notifications[e] \in Nat
        /\ notifications[e] + Cardinality(Writers(e)) <= 1
    BY DEF NotificationInvariant, AtMostOncePerInstance, TypeOK
  <2> QED
    BY <2>1, <2>2
<1> QED
  BY <1>1, NotificationInvariance, PTL
=============================================================================
