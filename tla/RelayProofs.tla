----------------------------- MODULE RelayProofs -----------------------------
(***************************************************************************)
(* Proofs of the safety of Relay for any rows, any number of instances,    *)
(* any batch limit and any number of failed calls and crashes, and of its  *)
(* refinement of OutboxDelivery by a single instance.                      *)
(***************************************************************************)
EXTENDS RelayProperties, FiniteSetTheorems, TLAPS

-----------------------------------------------------------------------------
(* Types.                                                                  *)

LEMMA TypeInit == Init => TypeOK
BY RelayAssumption DEF Init, TypeOK, Visible

(* A marked row is one of a result set, so it is in the table. *)
LEMMA TypeNext == TypeOK /\ BatchesAreVisible /\ [Next]_vars => TypeOK'
<1> SUFFICES ASSUME TypeOK, BatchesAreVisible, [Next]_vars PROVE TypeOK'
  OBVIOUS
<1> USE DEF table, relays
<1>1. ASSUME NEW r \in Rows, Begin(r) PROVE TypeOK'
  BY <1>1 DEF Begin, TypeOK, Visible
<1>2. ASSUME NEW r \in Rows, Commit(r) PROVE TypeOK'
  BY <1>2 DEF Commit, TypeOK, Visible
<1>3. ASSUME NEW r \in Rows, Rollback(r) PROVE TypeOK'
  BY <1>3 DEF Rollback, TypeOK, Visible
<1>4. ASSUME NEW i \in Relays, Select(i) PROVE TypeOK'
  BY <1>4 DEF Select, TypeOK, Visible
<1>5. ASSUME NEW i \in Relays, Crash(i) PROVE TypeOK'
  BY <1>5 DEF Crash, EndCycle, TypeOK, Visible
<1>6. ASSUME NEW i \in Relays, NEW r \in Rows, Publish(i, r) PROVE TypeOK'
  <2>1. errors' \in Nat /\ crashes' \in Nat
    BY <1>6 DEF Publish, CallFails, TypeOK
  <2>2. batch' \in [Relays -> SUBSET Rows] /\ stored' \in [Relays -> BOOLEAN]
    BY <1>6 DEF Publish, EndCycle, TypeOK
  <2>3. log' \in Seq(Rows)
    BY <1>6 DEF Publish, TypeOK
  <2> QED
    BY <1>6, <2>1, <2>2, <2>3 DEF Publish, TypeOK, Visible
<1>7. ASSUME NEW i \in Relays, NEW r \in Rows, PublishFails(i, r) PROVE TypeOK'
  BY <1>7 DEF PublishFails, CallFails, EndCycle, TypeOK, Visible
<1>8. ASSUME NEW i \in Relays, NEW r \in Rows, Mark(i, r) PROVE TypeOK'
  <2>1. r \in Visible /\ status' = [status EXCEPT ![r] = "published"]
    BY <1>8 DEF Mark, MarkPublished, Oldest, BatchesAreVisible
  <2>2. Visible' = Visible
    BY <2>1 DEF Visible, TypeOK
  <2>3. errors' \in Nat /\ crashes' \in Nat
    BY <1>8 DEF Mark, CallFails, TypeOK
  <2>4. batch' \in [Relays -> SUBSET Rows] /\ stored' \in [Relays -> BOOLEAN]
    <3>1. batch[i] \ {r} \in SUBSET Rows /\ {} \in SUBSET Rows
      BY DEF TypeOK
    <3>2. \/ batch' = [batch EXCEPT ![i] = batch[i] \ {r}]
          \/ batch' = [batch EXCEPT ![i] = {}]
      BY <1>8 DEF Mark, EndCycle
    <3>3. stored' = [stored EXCEPT ![i] = FALSE]
      BY <1>8 DEF Mark, EndCycle
    <3> QED
      BY <3>1, <3>2, <3>3 DEF TypeOK
  <2>5. \A q \in Rows : status'[q] = "none" <=> status[q] = "none"
    BY <2>1 DEF TypeOK, Visible
  <2>6. UNCHANGED <<createdAt, visibleAt, clock, log>>
    BY <1>8 DEF Mark
  <2>7. status' \in [Rows -> {"none", "open", "aborted", "pending", "published"}]
    BY <2>1 DEF TypeOK
  <2> QED
    BY <2>2, <2>3, <2>4, <2>5, <2>6, <2>7 DEF TypeOK
<1>9. ASSUME NEW i \in Relays, NEW r \in Rows, MarkFails(i, r) PROVE TypeOK'
  BY <1>9 DEF MarkFails, CallFails, EndCycle, TypeOK, Visible
<1>10. CASE UNCHANGED vars
  BY <1>10 DEF vars, TypeOK, Visible
<1> QED
  BY <1>1, <1>2, <1>3, <1>4, <1>5, <1>6, <1>7, <1>8, <1>9, <1>10 DEF Next

-----------------------------------------------------------------------------
(* What a step leaves as it was.                                           *)

(* Committed rows stay in the table and nothing leaves the log; a row that *)
(* becomes visible precedes no row that has begun.                         *)
LEMMA Monotone ==
  ASSUME TypeOK, BatchesAreVisible, [Next]_vars
  PROVE  /\ Visible \subseteq Visible'
         /\ Len(log) \in Nat /\ Len(log') \in Nat /\ Len(log) <= Len(log')
         /\ \A k \in 1..Len(log) : log'[k] = log[k]
         /\ \A r : InLog(r) => InLog(r)'
         /\ \A a \in Rows, b \in Visible : Precedes(a, b)' => Precedes(a, b)
<1> USE DEF table, relays
<1>1. Len(log) \in Nat /\ Len(log') \in Nat
  BY TypeNext DEF TypeOK
<1>2. Visible \subseteq Visible' /\ \A a \in Rows, b \in Visible : Precedes(a, b)' => Precedes(a, b)
  <2>1. ASSUME NEW r \in Rows, Begin(r)
        PROVE  /\ Visible \subseteq Visible'
               /\ \A a \in Rows, b \in Visible : Precedes(a, b)' => Precedes(a, b)
    BY <2>1 DEF Begin, Visible, Precedes, TypeOK
  <2>2. ASSUME NEW r \in Rows, Commit(r)
        PROVE  /\ Visible \subseteq Visible'
               /\ \A a \in Rows, b \in Visible : Precedes(a, b)' => Precedes(a, b)
    BY <2>2 DEF Commit, Visible, Precedes, TypeOK
  <2>3. ASSUME NEW r \in Rows, Rollback(r)
        PROVE  /\ Visible \subseteq Visible'
               /\ \A a \in Rows, b \in Visible : Precedes(a, b)' => Precedes(a, b)
    BY <2>3 DEF Rollback, Visible, Precedes, TypeOK
  <2>4. ASSUME NEW i \in Relays, NEW r \in Rows, Mark(i, r)
        PROVE  /\ Visible \subseteq Visible'
               /\ \A a \in Rows, b \in Visible : Precedes(a, b)' => Precedes(a, b)
    BY <2>4 DEF Mark, MarkPublished, Visible, Precedes, TypeOK
  <2>5. CASE UNCHANGED table
    BY <2>5 DEF Visible, Precedes
  <2> QED
    BY <2>1, <2>2, <2>3, <2>4, <2>5
       DEF Next, vars, Select, Crash, Publish, PublishFails, MarkFails
<1>3. /\ Len(log) <= Len(log')
      /\ \A k \in 1..Len(log) : log'[k] = log[k]
  <2>1. ASSUME NEW i \in Relays, NEW r \in Rows, Publish(i, r)
        PROVE  /\ Len(log) <= Len(log')
               /\ \A k \in 1..Len(log) : log'[k] = log[k]
    BY <2>1 DEF Publish, TypeOK
  <2>2. CASE UNCHANGED log
    BY <1>1, <2>2
  <2> QED
    BY <2>1, <2>2
       DEF Next, vars, Begin, Commit, Rollback, Select, Crash, PublishFails, Mark, MarkFails
<1> QED
  BY <1>1, <1>2, <1>3 DEF InLog

(* The result set and position of one relay change in one of these ways. *)
LEMMA BatchStep ==
  ASSUME TypeOK, [Next]_vars, NEW i \in Relays
  PROVE  \/ batch'[i] = batch[i] /\ stored'[i] = stored[i]
         \/ batch'[i] = {} /\ stored'[i] = FALSE
         \/ Selects(batch'[i]) /\ batch[i] = {} /\ stored'[i] = stored[i] /\ UNCHANGED table
         \/ \E r \in Rows : /\ Oldest(i, r) /\ stored'[i] = TRUE /\ batch'[i] = batch[i]
                            /\ log' = Append(log, r) /\ UNCHANGED table
         \/ \E r \in Rows : /\ Oldest(i, r) /\ stored[i] /\ stored'[i] = FALSE
                            /\ batch'[i] = batch[i] \ {r} /\ UNCHANGED createdAt
<1> USE DEF table, relays
<1>1. ASSUME NEW r \in Rows, Begin(r) \/ Commit(r) \/ Rollback(r)
      PROVE  batch'[i] = batch[i] /\ stored'[i] = stored[i]
  BY <1>1 DEF Begin, Commit, Rollback
<1>2. ASSUME NEW j \in Relays, Select(j)
      PROVE  \/ batch'[i] = batch[i] /\ stored'[i] = stored[i]
             \/ /\ Selects(batch'[i]) /\ batch[i] = {} /\ stored'[i] = stored[i]
                /\ UNCHANGED table
  BY <1>2 DEF Select, TypeOK
<1>3. ASSUME NEW j \in Relays, NEW r \in Rows, Crash(j) \/ PublishFails(j, r) \/ MarkFails(j, r)
      PROVE  \/ batch'[i] = batch[i] /\ stored'[i] = stored[i]
             \/ batch'[i] = {} /\ stored'[i] = FALSE
  BY <1>3 DEF Crash, PublishFails, MarkFails, EndCycle, TypeOK
<1>4. ASSUME NEW j \in Relays, Crash(j)
      PROVE  \/ batch'[i] = batch[i] /\ stored'[i] = stored[i]
             \/ batch'[i] = {} /\ stored'[i] = FALSE
  BY <1>4 DEF Crash, EndCycle, TypeOK
<1>5. ASSUME NEW j \in Relays, NEW r \in Rows, Publish(j, r)
      PROVE  \/ batch'[i] = batch[i] /\ stored'[i] = stored[i]
             \/ batch'[i] = {} /\ stored'[i] = FALSE
             \/ /\ Oldest(i, r) /\ stored'[i] = TRUE /\ batch'[i] = batch[i]
                /\ log' = Append(log, r) /\ UNCHANGED table
  BY <1>5 DEF Publish, EndCycle, TypeOK
<1>6. ASSUME NEW j \in Relays, NEW r \in Rows, Mark(j, r)
      PROVE  \/ batch'[i] = batch[i] /\ stored'[i] = stored[i]
             \/ batch'[i] = {} /\ stored'[i] = FALSE
             \/ /\ Oldest(i, r) /\ stored[i] /\ stored'[i] = FALSE
                /\ batch'[i] = batch[i] \ {r} /\ UNCHANGED createdAt
  BY <1>6 DEF Mark, EndCycle, TypeOK
<1>7. CASE UNCHANGED vars
  BY <1>7 DEF vars
<1> QED
  BY <1>1, <1>2, <1>3, <1>4, <1>5, <1>6, <1>7 DEF Next

-----------------------------------------------------------------------------
(* The parts of the invariant.                                             *)

(* A relay works on one row at a time. *)
LEMMA OldestIsUnique ==
  ASSUME TypeOK, BatchesAreVisible, NEW i \in Relays, NEW q \in Rows, NEW r \in Rows,
         Oldest(i, q), Oldest(i, r)
  PROVE  q = r
<1>1. q \in Visible /\ r \in Visible
  BY DEF Oldest, BatchesAreVisible
<1>2. createdAt[q] = createdAt[r] /\ createdAt[r] > 0
  BY <1>1 DEF Oldest, TypeOK, Visible
<1> QED
  BY <1>2 DEF TypeOK

LEMMA BatchesPreserved ==
  ASSUME TypeOK, BatchesAreVisible, [Next]_vars
  PROVE  BatchesAreVisible'
<1> SUFFICES ASSUME NEW i \in Relays PROVE batch'[i] \subseteq Visible'
  BY DEF BatchesAreVisible
<1>1. batch[i] \subseteq Visible /\ Pending \subseteq Visible /\ Visible \subseteq Visible'
  BY Monotone DEF BatchesAreVisible, Pending, Visible
<1> QED
  BY <1>1, BatchStep DEF Selects

LEMMA StoredPreserved ==
  ASSUME TypeOK, BatchesAreVisible, StoredIsInLog, [Next]_vars
  PROVE  StoredIsInLog'
<1> USE DEF table
<1> SUFFICES ASSUME NEW i \in Relays, stored'[i]
             PROVE  \E r \in Rows : Oldest(i, r)' /\ InLog(r)'
  BY DEF StoredIsInLog
<1>1. ASSUME NEW r \in Rows, Oldest(i, r), batch'[i] = batch[i],
             UNCHANGED createdAt
      PROVE  Oldest(i, r)'
  BY <1>1 DEF Oldest
<1>2. CASE \E r \in Rows : Oldest(i, r) /\ log' = Append(log, r) /\ batch'[i] = batch[i]
                         /\ UNCHANGED table
  <2>1. PICK r \in Rows : Oldest(i, r) /\ log' = Append(log, r) /\ batch'[i] = batch[i]
                         /\ UNCHANGED table
    BY <1>2
  <2>2. InLog(r)'
    <3>1. Len(log') \in 1..Len(log') /\ log'[Len(log')] = r
      BY <2>1 DEF TypeOK
    <3> QED
      BY <3>1 DEF InLog
  <2> QED
    BY <1>1, <2>1, <2>2
<1>3. CASE batch'[i] = batch[i] /\ stored'[i] = stored[i]
  <2>1. PICK r \in Rows : Oldest(i, r) /\ InLog(r)
    BY <1>3 DEF StoredIsInLog
  <2>2. \A b \in batch[i] : b \in Visible /\ createdAt'[b] = createdAt[b]
    <3>1. ASSUME NEW q \in Rows, Begin(q) PROVE \A b \in Visible : createdAt'[b] = createdAt[b]
      BY <3>1 DEF Begin, Visible, TypeOK
    <3>2. \A b \in Visible : createdAt'[b] = createdAt[b]
      BY <3>1 DEF Next, vars, Commit, Rollback, Select, Crash, Publish, PublishFails, Mark, MarkFails
    <3> QED
      BY <3>2 DEF BatchesAreVisible
  <2>3. Oldest(i, r)'
    BY <1>3, <2>1, <2>2 DEF Oldest
  <2> QED
    BY <2>1, <2>3, Monotone
<1>4. CASE Selects(batch'[i]) /\ batch[i] = {} /\ stored'[i] = stored[i]
  BY <1>4 DEF StoredIsInLog, Oldest
<1> QED
  BY <1>2, <1>3, <1>4, BatchStep

LEMMA PublishedPreserved ==
  ASSUME TypeOK, BatchesAreVisible, StoredIsInLog, PublishedIsInLog, [Next]_vars
  PROVE  PublishedIsInLog'
<1> USE DEF table, relays
<1>1. ASSUME NEW i \in Relays, NEW r \in Rows, Mark(i, r)
      PROVE  InLog(r) /\ status' = [status EXCEPT ![r] = "published"]
  <2>1. PICK q \in Rows : Oldest(i, q) /\ InLog(q)
    BY <1>1 DEF Mark, StoredIsInLog
  <2>2. q = r
    BY <1>1, <2>1, OldestIsUnique DEF Mark
  <2> QED
    BY <1>1, <2>1, <2>2 DEF Mark, MarkPublished
<1>2. ASSUME NEW q \in Rows, status'[q] = "published"
      PROVE  InLog(q)
  <2>1. ASSUME NEW r \in Rows, Begin(r) \/ Commit(r) \/ Rollback(r)
        PROVE  status[q] = "published"
    BY <1>2, <2>1 DEF Begin, Commit, Rollback, TypeOK
  <2>2. ASSUME NEW i \in Relays, NEW r \in Rows, Mark(i, r)
        PROVE  status[q] = "published" \/ InLog(q)
    BY <1>1, <1>2, <2>2 DEF TypeOK
  <2>3. ASSUME UNCHANGED status PROVE status[q] = "published"
    BY <1>2, <2>3
  <2>4. status[q] = "published" \/ InLog(q)
    BY <2>1, <2>2, <2>3, <1>2 DEF Next, vars, Select, Crash, Publish, PublishFails, MarkFails
  <2> QED
    BY <2>4 DEF PublishedIsInLog
<1> QED
  BY <1>2, Monotone DEF PublishedIsInLog

LEMMA CommittedPreserved ==
  ASSUME TypeOK, BatchesAreVisible, OnlyCommittedEvents, [Next]_vars
  PROVE  OnlyCommittedEvents'
<1> USE DEF table, relays
<1>1. ASSUME NEW i \in Relays, NEW r \in Rows, Publish(i, r)
      PROVE  OnlyCommittedEvents'
  <2>1. r \in Visible /\ log' = Append(log, r) /\ Visible' = Visible
    BY <1>1 DEF Publish, Oldest, BatchesAreVisible, Visible
  <2> QED
    BY <2>1 DEF OnlyCommittedEvents, TypeOK
<1>2. CASE UNCHANGED log
  BY <1>2, Monotone DEF OnlyCommittedEvents
<1> QED
  BY <1>1, <1>2 DEF Next, vars, Begin, Commit, Rollback, Select, Crash, PublishFails, Mark, MarkFails

LEMMA ClosedPreserved ==
  ASSUME TypeOK, BatchesAreVisible, StoredIsInLog, PublishedIsInLog, BatchesAreClosed, [Next]_vars
  PROVE  BatchesAreClosed'
<1> SUFFICES ASSUME NEW i \in Relays, NEW b \in batch'[i], NEW a \in Rows, Precedes(a, b)'
             PROVE  a \in batch'[i] \/ InLog(a)'
  BY DEF BatchesAreClosed
<1>1. \A r : InLog(r) => InLog(r)'
  BY Monotone
<1>2. CASE b \in batch[i] /\ batch'[i] = batch[i]
  BY <1>1, <1>2, Monotone DEF BatchesAreClosed, BatchesAreVisible
<1>3. CASE Selects(batch'[i]) /\ UNCHANGED table
  <2>1. Precedes(a, b) /\ b \in Rows /\ batch'[i] \subseteq Pending
    BY <1>3, TypeNext DEF Precedes, table, Selects, Pending
  <2>2. a \in Visible /\ createdAt[a] < createdAt[b]
    BY <2>1 DEF Precedes, TypeOK
  <2>3. a \in Pending => a \in batch'[i]
    BY <1>3, <2>1, <2>2 DEF Selects, TypeOK, Pending
  <2>4. a \notin Pending => InLog(a)
    BY <2>2 DEF Pending, Visible, PublishedIsInLog
  <2> QED
    BY <1>1, <2>3, <2>4
<1>4. CASE \E r \in Rows : Oldest(i, r) /\ stored[i] /\ batch'[i] = batch[i] \ {r}
  <2>1. PICK r \in Rows : Oldest(i, r) /\ stored[i] /\ batch'[i] = batch[i] \ {r}
    BY <1>4
  <2>2. InLog(r)
    <3>1. PICK q \in Rows : Oldest(i, q) /\ InLog(q)
      BY <2>1 DEF StoredIsInLog
    <3>2. q = r
      BY <2>1, <3>1, OldestIsUnique
    <3> QED
      BY <3>1, <3>2
  <2>3. a \in batch[i] \/ InLog(a)
    BY <2>1, Monotone DEF BatchesAreClosed, BatchesAreVisible
  <2> QED
    BY <1>1, <2>1, <2>2, <2>3
<1> QED
  BY <1>2, <1>3, <1>4, BatchStep

LEMMA CausalPreserved ==
  ASSUME TypeOK, BatchesAreVisible, BatchesAreClosed, OnlyCommittedEvents, CausalOrder,
         [Next]_vars
  PROVE  CausalOrder'
<1> USE DEF table, relays
<1>1. ASSUME NEW k \in 1..Len(log), NEW a \in Rows, Precedes(a, log[k])'
      PROVE  \E j \in 1..(k - 1) : log'[j] = a
  <2>1. log[k] \in Visible
    BY DEF OnlyCommittedEvents
  <2>2. PICK b : b = log[k]
    OBVIOUS
  <2>3. Len(log) \in Nat
    BY DEF TypeOK
  <2>4. Precedes(a, b)
    BY <1>1, <2>1, <2>2, Monotone DEF Precedes
  <2>5. PICK j \in 1..(k - 1) : log[j] = a
    BY <2>2, <2>4 DEF CausalOrder
  <2> QED
    BY <2>3, <2>5, Monotone
<1>2. CASE UNCHANGED log
  BY <1>1, <1>2, Monotone DEF CausalOrder, Precedes
<1>3. ASSUME NEW i \in Relays, NEW r \in Rows, Publish(i, r)
      PROVE  CausalOrder'
  <2>1. log' = Append(log, r) /\ UNCHANGED table /\ Oldest(i, r)
    BY <1>3 DEF Publish
  <2>2. /\ Len(log) \in Nat /\ Len(log') = Len(log) + 1 /\ log'[Len(log')] = r
        /\ \A k \in 1..Len(log) : log'[k] = log[k]
    BY <2>1 DEF TypeOK
  <2>3. ASSUME NEW a \in Rows, Precedes(a, r)
        PROVE  \E j \in 1..Len(log) : log'[j] = a
    <3>1. createdAt[a] < createdAt[r]
      BY <2>3 DEF Precedes, TypeOK
    <3>2. a \notin batch[i]
      BY <2>1, <3>1 DEF Oldest, TypeOK
    <3>3. InLog(a)
      BY <2>1, <2>3, <3>2 DEF BatchesAreClosed, Oldest
    <3> QED
      BY <2>2, <3>3 DEF InLog
  <2>4. ASSUME NEW k \in 1..Len(log'), NEW a \in Rows, NEW b, b = log'[k], Precedes(a, b)
        PROVE  \E j \in 1..(k - 1) : log'[j] = a
    <3>1. CASE k = Len(log')
      BY <2>2, <2>3, <2>4, <3>1
    <3>2. CASE k \in 1..Len(log)
      BY <2>2, <2>4, <3>2 DEF CausalOrder
    <3> QED
      BY <2>2, <3>1, <3>2
  <2> QED
    BY <2>1, <2>4 DEF CausalOrder, Precedes
<1> QED
  BY <1>2, <1>3 DEF Next, vars, Begin, Commit, Rollback, Select, Crash, PublishFails, Mark, MarkFails

-----------------------------------------------------------------------------
(* Theorems.                                                               *)

LEMMA RelayInit == Init => RelayInvariant
<1> SUFFICES ASSUME Init PROVE RelayInvariant
  OBVIOUS
<1>1. Len(log) = 0
  BY DEF Init
<1>2. TypeOK
  BY TypeInit
<1> QED
  BY <1>1, <1>2
     DEF Init, RelayInvariant, OnlyCommittedEvents, PublishedIsInLog, BatchesAreVisible,
         StoredIsInLog, BatchesAreClosed, CausalOrder

(* The result sets of all relays hold committed rows only and are closed   *)
(* under precedence up to what is in Kafka, and marked rows are in Kafka.  *)
THEOREM RelayInvariance == Spec => []RelayInvariant
<1>1. RelayInvariant /\ [Next]_vars => RelayInvariant'
  BY TypeNext, BatchesPreserved, StoredPreserved, PublishedPreserved, CommittedPreserved,
     ClosedPreserved, CausalPreserved DEF RelayInvariant
<1> QED
  BY RelayInit, <1>1, PTL DEF Spec

(* Rows, dates and result sets keep their types. *)
THEOREM TypeCorrectness == Spec => []TypeOK
<1>1. RelayInvariant => TypeOK
  BY DEF RelayInvariant
<1> QED
  BY RelayInvariance, <1>1, PTL

(* An event reaches Kafka only if its transaction committed, and is marked *)
(* only if it reached Kafka, for any number of instances and faults.       *)
THEOREM NothingLostNothingInvented == Spec => [](OnlyCommittedEvents /\ PublishedIsInLog)
<1>1. RelayInvariant => OnlyCommittedEvents /\ PublishedIsInLog
  BY DEF RelayInvariant
<1> QED
  BY RelayInvariance, <1>1, PTL

(* An event whose transaction began after the one of another event had     *)
(* committed never appears in Kafka before it, although rows become        *)
(* visible out of date order, batches are cut off, cycles are abandoned    *)
(* and several instances publish at once.                                  *)
THEOREM EventsFollowCausality == Spec => []CausalOrder
<1>1. RelayInvariant => CausalOrder
  BY DEF RelayInvariant
<1> QED
  BY RelayInvariance, <1>1, PTL

-----------------------------------------------------------------------------
(* One instance implements the abstract outbox.                            *)

(* The rows that the only relay has yet to finish are not marked. *)
Unmarked == \A i \in Relays : batch[i] \subseteq Pending

LEMMA UnmarkedPreserved ==
  ASSUME NEW x, Relays = {x}, RelayInvariant, Unmarked, [Next]_vars
  PROVE  Unmarked'
<1> USE DEF table, relays
<1> SUFFICES batch'[x] \subseteq Pending'
  BY DEF Unmarked
<1>1. batch[x] \subseteq Pending /\ TypeOK /\ BatchesAreVisible
  BY DEF Unmarked, RelayInvariant
<1>2. ASSUME NEW r \in Rows, Mark(x, r) PROVE batch'[x] \subseteq Pending'
  <2>1. status' = [status EXCEPT ![r] = "published"] /\ batch'[x] \subseteq batch[x] \ {r}
    BY <1>1, <1>2 DEF Mark, MarkPublished, EndCycle, TypeOK
  <2> QED
    BY <1>1, <2>1 DEF Pending, TypeOK
<1>3. ASSUME NEW r \in Rows, Begin(r) \/ Commit(r) \/ Rollback(r)
      PROVE  batch'[x] \subseteq Pending'
  BY <1>1, <1>3 DEF Begin, Commit, Rollback, Pending, TypeOK
<1>4. CASE UNCHANGED status
  <2>1. batch'[x] \subseteq batch[x] \/ batch'[x] \subseteq Pending
    BY <1>1, BatchStep DEF Selects
  <2> QED
    BY <1>1, <1>4, <2>1 DEF Pending
<1> QED
  BY <1>2, <1>3, <1>4 DEF Next, vars, Select, Crash, Publish, PublishFails, MarkFails

(* The outbox table with one relay delivers every committed event at least *)
(* once and nothing else, and never again once it is marked: each of its   *)
(* steps is a step of OutboxDelivery or is invisible to it.                *)
THEOREM OneInstanceImplementsDelivery ==
  ASSUME NEW x, Relays = {x}
  PROVE  Spec => ImplementsDelivery
<1> USE DEF table, relays
<1>1. Init => Delivery!Init
  BY DEF Init, Delivery!Init, Visible
<1>2. Init => Unmarked
  BY DEF Init, Unmarked
<1>3. RelayInvariant /\ Unmarked /\ [Next]_vars => [Delivery!Next]_(Delivery!dvars)
  <2> SUFFICES ASSUME RelayInvariant, Unmarked, [Next]_vars
               PROVE  [Delivery!Next]_(Delivery!dvars)
    OBVIOUS
  <2> DEFINE Settled == {r \in Rows : status[r] = "published"}
  <2>1. TypeOK /\ BatchesAreVisible
    BY DEF RelayInvariant
  <2>2. ASSUME NEW r \in Rows, Begin(r) \/ Rollback(r)
        PROVE  UNCHANGED <<Visible, Settled, log>>
    BY <2>1, <2>2 DEF Begin, Rollback, Visible, TypeOK
  <2>3. ASSUME NEW r \in Rows, Commit(r) PROVE Delivery!Accept(r)
    BY <2>1, <2>3 DEF Commit, Delivery!Accept, Visible, TypeOK
  <2>4. ASSUME NEW r \in Rows, Publish(x, r) PROVE Delivery!Deliver(r)
    <3>1. r \in Pending
      BY <2>4 DEF Publish, Oldest, Unmarked
    <3> QED
      BY <2>4, <3>1 DEF Publish, Delivery!Deliver, Visible, Pending
  <2>5. ASSUME NEW r \in Rows, Mark(x, r) PROVE Delivery!Settle(r)
    <3>1. r \in Visible /\ status' = [status EXCEPT ![r] = "published"] /\ log' = log
      BY <2>1, <2>5 DEF Mark, MarkPublished, Oldest, BatchesAreVisible
    <3>2. InLog(r)
      <4>1. PICK q \in Rows : Oldest(x, q) /\ InLog(q)
        BY <2>5 DEF Mark, RelayInvariant, StoredIsInLog
      <4> QED
        BY <2>1, <2>5, <4>1, OldestIsUnique DEF Mark
    <3> QED
      BY <2>1, <3>1, <3>2 DEF Delivery!Settle, Delivery!Delivered, InLog, Visible, TypeOK
  <2>6. CASE UNCHANGED <<status, log>>
    BY <2>6 DEF Delivery!dvars, Visible
  <2> QED
    BY <2>2, <2>3, <2>4, <2>5, <2>6
       DEF Next, vars, Select, Crash, PublishFails, MarkFails, Delivery!Next, Delivery!dvars
<1>4. RelayInvariant /\ Unmarked /\ [Next]_vars => Unmarked'
  BY UnmarkedPreserved
<1> QED
  BY <1>1, <1>2, <1>3, <1>4, RelayInvariance, PTL DEF Spec, ImplementsDelivery, Delivery!Spec

-----------------------------------------------------------------------------
(* One instance and its duplicates.                                        *)

Published == {r \in Rows : status[r] = "published"}

(* Every record in Kafka is accounted for by a marked row, by the row that *)
(* the relay x is about to mark, or by a fault.                            *)
Accounted(x) ==
  Len(log) <= Cardinality(Published) + (IF stored[x] THEN 1 ELSE 0) + errors + crashes

LEMMA AccountedPreserved ==
  ASSUME NEW x, Relays = {x}, IsFiniteSet(Rows), RelayInvariant, Unmarked, Accounted(x),
         [Next]_vars
  PROVE  Accounted(x)'
<1> USE DEF table, relays
<1>1. TypeOK /\ TypeOK'
  BY TypeNext DEF RelayInvariant
<1>2. IsFiniteSet(Published) /\ Published \subseteq Rows
  BY FS_Subset DEF Published
<1>3. Cardinality(Published) \in Nat /\ Len(log) \in Nat /\ errors \in Nat /\ crashes \in Nat
  BY <1>1, <1>2, FS_CardinalityType DEF TypeOK
<1>4. stored[x] \in BOOLEAN
  BY <1>1 DEF TypeOK
<1>5. ASSUME NEW r \in Rows, Begin(r) \/ Commit(r) \/ Rollback(r) PROVE Accounted(x)'
  <2>1. Published' = Published /\ UNCHANGED <<stored, log, errors, crashes>>
    BY <1>1, <1>5 DEF Begin, Commit, Rollback, Published, TypeOK
  <2> QED
    BY <2>1 DEF Accounted
<1>6. CASE Select(x)
  <2>1. Published' = Published /\ UNCHANGED <<stored, log, errors, crashes>>
    BY <1>6 DEF Select, Published
  <2> QED
    BY <2>1 DEF Accounted
<1>7. CASE Crash(x)
  <2>1. /\ Published' = Published /\ UNCHANGED <<log, errors>>
        /\ stored'[x] = FALSE /\ crashes' = crashes + 1
    BY <1>1, <1>7 DEF Crash, EndCycle, Published, TypeOK
  <2> QED
    BY <1>3, <1>4, <2>1 DEF Accounted
<1>8. ASSUME NEW r \in Rows, Publish(x, r) PROVE Accounted(x)'
  <2>1. Published' = Published /\ crashes' = crashes /\ ~stored[x]
    BY <1>8 DEF Publish, Published
  <2>2. Len(log') = Len(log) + 1
    BY <1>1, <1>8 DEF Publish, TypeOK
  <2>3. \/ stored'[x] = TRUE /\ errors' = errors
        \/ stored'[x] = FALSE /\ errors' = errors + 1
    BY <1>1, <1>8 DEF Publish, CallFails, EndCycle, TypeOK
  <2> QED
    BY <1>3, <2>1, <2>2, <2>3 DEF Accounted
<1>9. ASSUME NEW r \in Rows, PublishFails(x, r) PROVE Accounted(x)'
  <2>1. /\ Published' = Published /\ UNCHANGED <<log, crashes>> /\ ~stored[x]
        /\ stored'[x] = FALSE /\ (errors' = errors \/ errors' = errors + 1)
    BY <1>1, <1>9 DEF PublishFails, CallFails, EndCycle, Published, TypeOK
  <2> QED
    BY <1>3, <2>1 DEF Accounted
<1>10. ASSUME NEW r \in Rows, Mark(x, r) PROVE Accounted(x)'
  <2>1. /\ UNCHANGED <<log, crashes>> /\ stored[x] /\ stored'[x] = FALSE
        /\ errors' = errors \/ errors' = errors + 1
    BY <1>1, <1>10 DEF Mark, CallFails, EndCycle, TypeOK
  <2>2. status[r] = "pending"
    BY <1>10 DEF Mark, Oldest, Unmarked, Pending
  <2>3. Published' = Published \cup {r} /\ r \notin Published
    BY <1>1, <1>10, <2>2 DEF Mark, MarkPublished, Published, TypeOK
  <2>4. Cardinality(Published \cup {r}) = Cardinality(Published) + 1
    BY <1>2, <2>3, FS_AddElement
  <2> QED
    BY <1>3, <2>1, <2>3, <2>4 DEF Accounted
<1>11. ASSUME NEW r \in Rows, MarkFails(x, r) PROVE Accounted(x)'
  <2>1. /\ Published' = Published /\ UNCHANGED <<log, crashes>>
        /\ stored'[x] = FALSE /\ errors' = errors + 1
    BY <1>1, <1>11 DEF MarkFails, CallFails, EndCycle, Published, TypeOK
  <2> QED
    BY <1>3, <1>4, <2>1 DEF Accounted
<1>12. CASE UNCHANGED vars
  BY <1>12 DEF vars, Accounted, Published
<1> QED
  BY <1>5, <1>6, <1>7, <1>8, <1>9, <1>10, <1>11, <1>12 DEF Next

LEMMA AccountedMeansExplained ==
  ASSUME NEW x, Relays = {x}, IsFiniteSet(Rows), RelayInvariant, Unmarked, Accounted(x)
  PROVE  DuplicatesNeedFaults
<1> DEFINE Known == {r \in Rows : InLog(r)}
<1>1. TypeOK /\ Published \subseteq Known
  BY DEF RelayInvariant, PublishedIsInLog, Published
<1>2. IsFiniteSet(Known) /\ IsFiniteSet(Published)
  BY FS_Subset DEF Published
<1>3. Cardinality(Known) \in Nat /\ Cardinality(Published) \in Nat
  BY <1>2, FS_CardinalityType
<1>4. Len(log) \in Nat /\ errors \in Nat /\ crashes \in Nat /\ stored[x] \in BOOLEAN
  BY <1>1 DEF TypeOK
<1>5. Cardinality(Published) <= Cardinality(Known)
  BY <1>1, <1>2, FS_Subset
<1>6. CASE stored[x]
  <2>1. PICK r \in Rows : Oldest(x, r) /\ InLog(r)
    BY <1>6 DEF RelayInvariant, StoredIsInLog
  <2>2. r \notin Published
    BY <2>1 DEF Oldest, Unmarked, Pending, Published
  <2>3. IsFiniteSet(Published \cup {r})
        /\ Cardinality(Published \cup {r}) = Cardinality(Published) + 1
    BY <1>2, <2>2, FS_AddElement
  <2>4. Cardinality(Published \cup {r}) <= Cardinality(Known)
    BY <1>1, <1>2, <2>1, FS_Subset
  <2> HIDE DEF Known
  <2>5. Len(log) <= Cardinality(Known) + errors + crashes
    BY <1>3, <1>4, <1>6, <2>3, <2>4 DEF Accounted
  <2> QED
    BY <2>5 DEF DuplicatesNeedFaults, Known
<1>7. CASE ~stored[x]
  <2> HIDE DEF Known
  <2>1. Len(log) <= Cardinality(Known) + errors + crashes
    BY <1>3, <1>4, <1>5, <1>7 DEF Accounted
  <2> QED
    BY <2>1 DEF DuplicatesNeedFaults, Known
<1> QED
  BY <1>4, <1>6, <1>7

(* relay.go: with one instance, an event is in Kafka more than once only   *)
(* if calls failed or the instance crashed, and not more often than that.  *)
THEOREM DuplicatesAreExplained ==
  ASSUME NEW x, Relays = {x}, IsFiniteSet(Rows)
  PROVE  Spec => []DuplicatesNeedFaults
<1>1. Init => Unmarked /\ Accounted(x)
  <2> SUFFICES ASSUME Init PROVE Unmarked /\ Accounted(x)
    OBVIOUS
  <2>1. Published = {} /\ Len(log) = 0 /\ errors = 0 /\ crashes = 0 /\ ~stored[x]
    BY DEF Init, Published
  <2>2. Cardinality(Published) = 0
    BY <2>1, FS_EmptySet
  <2> QED
    BY <2>1, <2>2 DEF Accounted, Init, Unmarked
<1>2. RelayInvariant /\ Unmarked /\ Accounted(x) /\ [Next]_vars => Unmarked' /\ Accounted(x)'
  BY UnmarkedPreserved, AccountedPreserved, Zenon
<1>3. RelayInvariant /\ Unmarked /\ Accounted(x) => DuplicatesNeedFaults
  BY AccountedMeansExplained, Zenon
<1> QED
  BY <1>1, <1>2, <1>3, RelayInvariance, PTL DEF Spec
=============================================================================
