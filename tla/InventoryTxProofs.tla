-------------------------- MODULE InventoryTxProofs --------------------------
(***************************************************************************)
(* Proofs of the safety of InventoryTx for any orders, items, quantities   *)
(* and stock.                                                              *)
(***************************************************************************)
EXTENDS InventoryTxProperties, TLAPS

(* The two consumers are each other's rivals. *)
LEMMA TwoConsumers ==
  /\ Reserver # Releaser
  /\ \A c \in Consumers : /\ Rival(c) \in Consumers
                          /\ Rival(c) # c
                          /\ Consumers = {c, Rival(c)}
                          /\ None # c
BY InventoryAssumption DEF Rival, Consumers, Reserver, Releaser

(* Items are rows with quantities, and Total adds them up one by one. *)
LEMMA ItemFacts ==
  ASSUME NEW o \in Orders, NEW n \in Nat, n < Len(Items[o])
  PROVE  /\ Len(Items[o]) \in Nat
         /\ Items[o][n + 1][1] \in Products
         /\ Items[o][n + 1][2] \in Int
         /\ Total[o][n] \in [Products -> Int]
         /\ Total[o][n + 1] \in [Products -> Int]
         /\ \A p \in Products :
              Total[o][n + 1][p] = Total[o][n][p]
                + (IF Items[o][n + 1][1] = p THEN Items[o][n + 1][2] ELSE 0)
<1>1. /\ Items[o] \in Seq(Products \X Int)
      /\ Len(Items[o]) \in Nat
  BY InventoryAssumption DEF ItemAssumption
<1>2. n + 1 \in 1..Len(Items[o]) /\ n \in 0..Len(Items[o]) /\ n + 1 \in 0..Len(Items[o])
  BY <1>1
<1>3. Items[o][n + 1] \in Products \X Int
  BY <1>1, <1>2
<1>4. \A p \in Products :
        Total[o][n + 1][p] = Total[o][(n + 1) - 1][p]
          + (IF Items[o][n + 1][1] = p THEN Items[o][n + 1][2] ELSE 0)
  BY <1>2, InventoryAssumption DEF ItemAssumption
<1>5. Total[o] \in [0..Len(Items[o]) -> [Products -> Int]]
  BY InventoryAssumption DEF ItemAssumption
<1>6. (n + 1) - 1 = n
  OBVIOUS
<1>7. /\ Items[o][n + 1][1] \in Products
      /\ Items[o][n + 1][2] \in Int
  BY <1>3
<1>8. Total[o][n] \in [Products -> Int] /\ Total[o][n + 1] \in [Products -> Int]
  BY <1>2, <1>5
<1> QED
  BY <1>1, <1>4, <1>6, <1>7, <1>8

(* A sum that no item contributes to is zero, and all sums are numbers. *)
LEMMA TotalFacts ==
  ASSUME NEW o \in Orders
  PROVE  /\ Len(Items[o]) \in Nat
         /\ \A n \in Nat : n <= Len(Items[o]) => Total[o][n] \in [Products -> Int]
         /\ \A p \in Products : Total[o][0][p] = 0
<1>1. Items[o] \in Seq(Products \X Int)
  BY InventoryAssumption DEF ItemAssumption
<1>2. Len(Items[o]) \in Nat
  BY <1>1
<1> QED
  BY <1>2, InventoryAssumption, SMTT(60) DEF ItemAssumption

(* One more item names one more product. *)
LEMMA NamedStep ==
  ASSUME NEW o \in Orders, NEW n \in Nat, NEW p
  PROVE  /\ Named(o, n + 1, p) <=> Named(o, n, p) \/ Items[o][n + 1][1] = p
         /\ ~Named(o, 0, p)
<1>1. 1..(n + 1) = (1..n) \cup {n + 1}
  OBVIOUS
<1> QED
  BY <1>1 DEF Named

(* Steps that leave the committed rows alone do not oversell. *)
LEMMA OversoldUnchanged ==
  ASSUME OversoldOnlyByNegativeQuantity, available' = available, outbox' = outbox
  PROVE  OversoldOnlyByNegativeQuantity'
<1>1. \A p \in Products : NegativelyReleased(p) => NegativelyReleased(p)'
  BY DEF NegativelyReleased, Emitted
<1> QED
  BY <1>1 DEF OversoldOnlyByNegativeQuantity

-----------------------------------------------------------------------------
LEMMA InvariantInit == Init => InventoryInvariant
<1> SUFFICES ASSUME Init PROVE InventoryInvariant
  OBVIOUS
<1>1. TypeOK
  BY InventoryAssumption DEF Init, TypeOK
<1>2. /\ LocksFollowUpdates /\ WritesFollowItems /\ ReleasedWereReserved /\ StillSufficient
      /\ SpentMeansRolledBack
  BY InventoryAssumption, TwoConsumers
     DEF Init, LocksFollowUpdates, WritesFollowItems, ReleasedWereReserved,
         StillSufficient, SpentMeansRolledBack, Consumers
<1>3. OversoldOnlyByNegativeQuantity
  BY InventoryAssumption DEF Init, OversoldOnlyByNegativeQuantity
<1> QED
  BY <1>1, <1>2, <1>3 DEF InventoryInvariant

(* Take starts a record without having touched a row. *)
LEMMA TakeInvariant ==
  ASSUME InventoryInvariant, NEW c \in Consumers, NEW o \in Orders, Take(c, o)
  PROVE  InventoryInvariant'
<1> USE DEF InventoryInvariant
<1>1. done[c] = 0
  BY DEF TypeOK, Take
<1>2. order' = [order EXCEPT ![c] = o] /\ order \in [Consumers -> Orders \cup {None}]
  BY DEF Take, TypeOK
<1>3. UNCHANGED <<available, reserved, outbox, lock, done, attempt, errors>>
  BY DEF Take, dbVars
<1>4. TypeOK'
  BY <1>1, <1>2, <1>3, TotalFacts, InventoryAssumption, SMTT(60) DEF TypeOK, Take
<1>5. LocksFollowUpdates'
  BY <1>1, <1>2, <1>3, InventoryAssumption DEF LocksFollowUpdates, Named, Take
<1>6. WritesFollowItems'
  BY <1>1, <1>2, <1>3, TotalFacts DEF WritesFollowItems
<1>7. ReleasedWereReserved'
  BY <1>2, <1>3 DEF ReleasedWereReserved, Emitted, Take
<1>8. StillSufficient'
  <2>1. CASE c = Reserver
    <3>1. \A p \in Products : lock[p] # Reserver
      BY <2>1 DEF LocksFollowUpdates, Take, Consumers
    <3> QED
      BY <3>1, <1>3 DEF StillSufficient
  <2>2. CASE c # Reserver
    BY <2>2, <1>2, <1>3 DEF StillSufficient, Visible, Consumers
  <2> QED
    BY <2>1, <2>2
<1>9. OversoldOnlyByNegativeQuantity'
  BY <1>3, OversoldUnchanged
<1>10. SpentMeansRolledBack'
  BY <1>3 DEF SpentMeansRolledBack
<1> QED
  BY <1>4, <1>5, <1>6, <1>7, <1>8, <1>9, <1>10

(* Update locks its row and adds its quantity to what is written. *)
LEMMA UpdateInvariant ==
  ASSUME InventoryInvariant, NEW c \in Consumers, Update(c)
  PROVE  InventoryInvariant'
<1> USE DEF InventoryInvariant
<1> DEFINE o == order[c]
           n == done[c]
           r == NextRow(c)
<1>1. /\ o \in Orders
      /\ n \in Nat
      /\ n < Len(Items[o])
      /\ Len(Items[o]) \in Nat
      /\ r = Items[o][n + 1][1]
  BY TotalFacts, InventoryAssumption DEF TypeOK, Update, Updating, Trying, NextRow
<1>2. r \in Products
  BY <1>1, ItemFacts
<1>3. /\ lock' = [lock EXCEPT ![r] = c]
      /\ done' = [done EXCEPT ![c] = n + 1]
      /\ UNCHANGED <<available, reserved, outbox, order, attempt, records, errors>>
      /\ lock[r] # Rival(c)
  BY DEF Update, dbVars
<1>4. TypeOK'
  <2>1. lock' \in [Products -> Consumers \cup {None}] /\ done' \in [Consumers -> Nat]
    BY <1>1, <1>2, <1>3 DEF TypeOK
  <2>2. \A d \in Consumers : done'[d] <= (IF order'[d] = None THEN 0 ELSE Len(Items[order'[d]]))
    BY <1>1, <1>3, InventoryAssumption DEF TypeOK
  <2> QED
    BY <1>3, <2>1, <2>2 DEF TypeOK
<1>5. LocksFollowUpdates'
  <2> SUFFICES ASSUME NEW p \in Products, NEW d \in Consumers
               PROVE  lock'[p] = d <=> order[d] # None /\ Named(order[d], done'[d], p)
    BY <1>3 DEF LocksFollowUpdates, Named
  <2>1. lock[p] = d <=> order[d] # None /\ Named(order[d], done[d], p)
    BY DEF LocksFollowUpdates
  <2>2. CASE d = c
    <3>1. done'[d] = n + 1
      BY <1>3, <2>2 DEF TypeOK
    <3>2. Named(o, n + 1, p) <=> Named(o, n, p) \/ r = p
      BY <1>1, NamedStep
    <3> QED
      BY <1>1, <1>2, <1>3, <2>1, <2>2, <3>1, <3>2, InventoryAssumption DEF TypeOK
  <2>3. CASE d # c
    <3>1. done'[d] = done[d] /\ d = Rival(c)
      BY <1>3, <2>3, TwoConsumers DEF TypeOK
    <3> QED
      BY <1>2, <1>3, <2>1, <2>3, <3>1 DEF TypeOK
  <2> QED
    BY <2>2, <2>3
<1>6. \A p \in Products : Total[o][n + 1][p] = Total[o][n][p]
                            + (IF r = p THEN NextQuantity(c) ELSE 0)
  BY <1>1, ItemFacts, SMTT(60) DEF NextQuantity
<1>7. NextQuantity(c) \in Int /\ NextQuantity(c) = Items[o][n + 1][2]
  BY <1>1, ItemFacts DEF NextQuantity
<1>8. Total[o][n] \in [Products -> Int]
  BY <1>1, ItemFacts
<1>9. WritesFollowItems'
  <2> SUFFICES ASSUME NEW d \in Consumers, NEW p \in Products, order[d] # None
               PROVE  /\ lock'[p] # d => Total[order[d]][done'[d]][p] = 0
                      /\ Total[order[d]][done'[d]][p] < 0 =>
                           \E i \in 1..done'[d] : /\ Items[order[d]][i][1] = p
                                                  /\ Items[order[d]][i][2] < 0
    BY <1>3 DEF WritesFollowItems
  <2>1. /\ lock[p] # d => Total[order[d]][done[d]][p] = 0
        /\ Total[order[d]][done[d]][p] < 0 =>
             \E i \in 1..done[d] : /\ Items[order[d]][i][1] = p
                                   /\ Items[order[d]][i][2] < 0
    BY DEF WritesFollowItems
  <2>2. CASE d # c
    <3>1. done'[d] = done[d] /\ d = Rival(c)
      BY <1>3, <2>2, TwoConsumers DEF TypeOK
    <3>2. lock'[p] # d => lock[p] # d
      BY <1>2, <1>3, <3>1, <2>2 DEF TypeOK
    <3> QED
      BY <2>1, <3>1, <3>2
  <2>3. CASE d = c /\ p # r
    <3>1. done'[d] = n + 1 /\ lock'[p] = lock[p]
      BY <1>2, <1>3, <2>3 DEF TypeOK
    <3>2. Total[o][n + 1][p] = Total[o][n][p]
      BY <1>6, <1>8, <2>3
    <3>3. 1..n \subseteq 1..(n + 1)
      BY <1>1
    <3> QED
      BY <2>1, <2>3, <3>1, <3>2, <3>3
  <2>4. CASE d = c /\ p = r
    <3>1. done'[d] = n + 1 /\ lock'[p] = c
      BY <1>2, <1>3, <2>4 DEF TypeOK
    <3>2. ASSUME Total[o][n + 1][p] < 0
          PROVE  \E i \in 1..(n + 1) : Items[o][i][1] = p /\ Items[o][i][2] < 0
      <4>1. Total[o][n][p] < 0 \/ NextQuantity(c) < 0
        BY <1>6, <1>7, <1>8, <2>4, <3>2
      <4>2. CASE Total[o][n][p] < 0
        <5>1. 1..n \subseteq 1..(n + 1)
          BY <1>1
        <5> QED
          BY <4>2, <2>1, <2>4, <5>1
      <4>3. CASE NextQuantity(c) < 0
        <5>1. n + 1 \in 1..(n + 1)
          BY <1>1
        <5> QED
          BY <4>3, <5>1, <1>1, <1>7, <2>4
      <4> QED
        BY <4>1, <4>2, <4>3
    <3> QED
      BY <2>4, <3>1, <3>2
  <2> QED
    BY <2>2, <2>3, <2>4
<1>10. ReleasedWereReserved'
  BY <1>3 DEF ReleasedWereReserved, Emitted
<1>11. StillSufficient'
  <2>1. CASE c = Releaser
    <3>1. done'[Reserver] = done[Reserver]
      BY <2>1, <1>3, TwoConsumers DEF TypeOK, Consumers
    <3>2. \A p \in Products : lock'[p] = Reserver => lock[p] = Reserver
      BY <1>2, <1>3, <2>1, TwoConsumers DEF TypeOK
    <3> QED
      BY <1>3, <3>1, <3>2 DEF StillSufficient, Visible
  <2>2. CASE c = Reserver
    <3> SUFFICES ASSUME NEW p \in Products, lock'[p] = Reserver
                 PROVE  available[p] - Total[o][n + 1][p] >= 0
      BY <1>1, <1>3, <2>2 DEF StillSufficient, Visible, TypeOK
    <3>1. available[p] \in Int
      BY DEF TypeOK
    <3>2. CASE p = r
      <4>1. available[p] - Total[o][n][p] >= NextQuantity(c)
        BY <2>2, <3>2 DEF Update, Matches, Visible
      <4> QED
        BY <1>6, <1>7, <1>8, <3>1, <3>2, <4>1
    <3>3. CASE p # r
      <4>1. lock[p] = Reserver
        BY <1>3, <3>3 DEF TypeOK
      <4>2. available[p] - Total[o][n][p] >= 0
        BY <4>1, <1>1, <2>2, InventoryAssumption DEF StillSufficient, Visible
      <4> QED
        BY <1>6, <1>8, <3>1, <3>3, <4>2
    <3> QED
      BY <3>2, <3>3
  <2> QED
    BY <2>1, <2>2 DEF Consumers
<1>12. OversoldOnlyByNegativeQuantity'
  BY <1>3, OversoldUnchanged
<1>13. SpentMeansRolledBack'
  <2>1. attempt[c] # MaxRetry
    BY InventoryAssumption DEF Update, Updating, Trying
  <2> QED
    BY <1>3, <2>1 DEF SpentMeansRolledBack, TypeOK
<1> QED
  BY <1>4, <1>5, <1>9, <1>10, <1>11, <1>12, <1>13

-----------------------------------------------------------------------------
(* The end of a transaction, in any of its forms: rolled back or committed *)
(* or both as far as the caller knows.                                     *)
Ends(c) ==
  /\ order[c] # None
  /\ Unlock(c)
  /\ done' = [done EXCEPT ![c] = 0]
  /\ order' = order \/ order' = [order EXCEPT ![c] = None]
  /\ attempt' \in [Consumers -> 0..MaxRetry]
  /\ \A d \in Consumers : d # c => attempt'[d] = attempt[d]
  /\ records' = records
  /\ errors' \in Nat
  /\ UNCHANGED dbVars \/ (done[c] = Len(Items[order[c]]) /\ Written(c))

(* What Written asks of a row, and that it asks nothing of a row that the  *)
(* transaction has not locked.                                             *)
LEMMA WrittenFacts ==
  ASSUME InventoryInvariant, NEW c \in Consumers, order[c] # None,
         done[c] = Len(Items[order[c]])
  PROVE  LET asked == Total[order[c]][Len(Items[order[c]])]
         IN  /\ order[c] \in Orders
             /\ asked \in [Products -> Int]
             /\ \A p \in Products : lock[p] # c => asked[p] = 0
             /\ c = Reserver => \A p \in Products :
                                 lock[p] = c => available[p] - asked[p] >= 0
<1>1. order[c] \in Orders
  BY DEF InventoryInvariant, TypeOK
<1> QED
  BY <1>1, TotalFacts DEF InventoryInvariant, WritesFollowItems, StillSufficient, Visible

LEMMA EndsInvariant ==
  ASSUME InventoryInvariant, NEW c \in Consumers, Ends(c)
  PROVE  InventoryInvariant'
<1> USE DEF InventoryInvariant
<1> DEFINE o == order[c]
           asked == Total[o][Len(Items[o])]
<1>1. order[c] \in Orders /\ Len(Items[o]) \in Nat
  BY TotalFacts DEF TypeOK, Ends
<1>2. /\ \A p \in Products : lock'[p] = IF lock[p] = c THEN None ELSE lock[p]
      /\ lock' \in [Products -> Consumers \cup {None}]
  BY DEF Ends, Unlock, TypeOK
<1>3. /\ done'[c] = 0
      /\ \A d \in Consumers : d # c => done'[d] = done[d]
      /\ done' \in [Consumers -> Nat]
  BY DEF Ends, TypeOK
<1>4. /\ order'[c] = order[c] \/ order'[c] = None
      /\ \A d \in Consumers : d # c => order'[d] = order[d]
      /\ order' \in [Consumers -> Orders \cup {None}]
  BY DEF Ends, TypeOK
<1>6. /\ available' \in [Products -> Int]
      /\ reserved' \in [Products -> Int]
      /\ outbox' \in Seq({"inventory.reserved", "inventory.unreserved"} \X Orders)
      /\ \A e \in {"inventory.reserved", "inventory.unreserved"}, x \in Orders :
           Emitted(e, x) => Emitted(e, x)'
  <2>1. CASE UNCHANGED dbVars
    BY <2>1 DEF dbVars, TypeOK, Emitted
  <2>2. CASE done[c] = Len(Items[order[c]]) /\ Written(c)
    <3>1. asked \in [Products -> Int]
      BY <2>2, WrittenFacts DEF Ends
    <3>2. PICK e \in {"inventory.reserved", "inventory.unreserved"} :
              outbox' = Append(outbox, <<e, o>>)
      <4>1. CASE c = Reserver
        <5>1. outbox' = Append(outbox, <<"inventory.reserved", o>>)
          BY <2>2, <4>1 DEF Written
        <5> QED
          BY <5>1
      <4>2. CASE c # Reserver
        <5>1. outbox' = Append(outbox, <<"inventory.unreserved", o>>)
          BY <2>2, <4>2 DEF Written
        <5> QED
          BY <5>1
      <4> QED
        BY <4>1, <4>2
    <3>3. /\ outbox \in Seq({"inventory.reserved", "inventory.unreserved"} \X Orders)
          /\ <<e, o>> \in {"inventory.reserved", "inventory.unreserved"} \X Orders
      BY <1>1 DEF TypeOK
    <3>4. /\ outbox' \in Seq({"inventory.reserved", "inventory.unreserved"} \X Orders)
          /\ Len(outbox') = Len(outbox) + 1
          /\ \A i \in 1..Len(outbox) : outbox'[i] = outbox[i]
      BY <3>2, <3>3
    <3>5. 1..Len(outbox) \subseteq 1..Len(outbox')
      BY <3>3, <3>4
    <3>6. available' \in [Products -> Int] /\ reserved' \in [Products -> Int]
      <4>1. \A p \in Products : /\ available[p] + asked[p] \in Int
                                 /\ available[p] - asked[p] \in Int
                                 /\ reserved[p] + asked[p] \in Int
                                 /\ reserved[p] - asked[p] \in Int
        <5> HIDE DEF asked
        <5> TAKE p \in Products
        <5>1. asked[p] \in Int
          BY <3>1
        <5>2. available[p] \in Int /\ reserved[p] \in Int
          BY DEF TypeOK
        <5> QED
          BY <5>1, <5>2
      <4>2. CASE c = Reserver
        BY <2>2, <4>1, <4>2 DEF Written
      <4>3. CASE c # Reserver
        BY <2>2, <4>1, <4>3 DEF Written
      <4> QED
        BY <4>2, <4>3
    <3> QED
      BY <3>4, <3>5, <3>6 DEF Emitted
  <2> QED
    BY <2>1, <2>2 DEF Ends
<1>7. TypeOK'
  <2>1. \A d \in Consumers :
          done'[d] <= (IF order'[d] = None THEN 0 ELSE Len(Items[order'[d]]))
    <3> SUFFICES ASSUME NEW d \in Consumers
                 PROVE  done'[d] <= (IF order'[d] = None THEN 0 ELSE Len(Items[order'[d]]))
      OBVIOUS
    <3>1. CASE d = c
      BY <3>1, <1>1, <1>3, <1>4
    <3>2. CASE d # c
      BY <3>2, <1>3, <1>4 DEF TypeOK
    <3> QED
      BY <3>1, <3>2
  <2> QED
    BY <2>1, <1>2, <1>3, <1>4, <1>6 DEF TypeOK, Ends
<1>8. LocksFollowUpdates'
  <2> SUFFICES ASSUME NEW p \in Products, NEW d \in Consumers
               PROVE  lock'[p] = d <=> order'[d] # None /\ Named(order'[d], done'[d], p)
    BY DEF LocksFollowUpdates, Named
  <2>1. CASE d = c
    <3>1. lock'[p] # d
      BY <2>1, <1>2, TwoConsumers
    <3>2. ~Named(order'[d], 0, p)
      BY DEF Named
    <3> QED
      BY <2>1, <3>1, <3>2, <1>3
  <2>2. CASE d # c
    <3>1. lock'[p] = d <=> lock[p] = d
      BY <2>2, <1>2, TwoConsumers
    <3>2. order'[d] = order[d] /\ done'[d] = done[d]
      BY <2>2, <1>3, <1>4
    <3> QED
      BY <3>1, <3>2 DEF LocksFollowUpdates
  <2> QED
    BY <2>1, <2>2
<1>9. WritesFollowItems'
  <2> SUFFICES ASSUME NEW d \in Consumers, NEW p \in Products, order'[d] # None
               PROVE  /\ lock'[p] # d => Total[order'[d]][done'[d]][p] = 0
                      /\ Total[order'[d]][done'[d]][p] < 0 =>
                           \E i \in 1..done'[d] : /\ Items[order'[d]][i][1] = p
                                                  /\ Items[order'[d]][i][2] < 0
    BY DEF WritesFollowItems
  <2>1. CASE d = c
    <3>1. order'[d] = o /\ done'[d] = 0
      BY <2>1, <1>3, <1>4
    <3> QED
      BY <3>1, <1>1, TotalFacts
  <2>2. CASE d # c
    <3>1. order'[d] = order[d] /\ done'[d] = done[d]
      BY <2>2, <1>3, <1>4
    <3>2. lock'[p] # d => lock[p] # d
      BY <2>2, <1>2
    <3> QED
      BY <3>1, <3>2 DEF WritesFollowItems
  <2> QED
    BY <2>1, <2>2
<1>10. ReleasedWereReserved'
  <2>1. order'[Releaser] # None => order'[Releaser] = order[Releaser]
    BY <1>4 DEF Consumers
  <2>2. order'[Releaser] # None => order[Releaser] \in Orders
    BY <2>1 DEF TypeOK, Consumers
  <2> QED
    BY <2>1, <2>2, <1>6 DEF ReleasedWereReserved, Emitted
<1>11. StillSufficient'
  <2> SUFFICES ASSUME order'[Reserver] # None, NEW p \in Products, lock'[p] = Reserver
               PROVE  Visible(p)' >= 0
    BY DEF StillSufficient
  <2>1. lock[p] = Reserver /\ c = Releaser
    BY <1>2, TwoConsumers DEF Consumers
  <2>2. order'[Reserver] = order[Reserver] /\ done'[Reserver] = done[Reserver]
    BY <2>1, <1>3, <1>4, TwoConsumers DEF Consumers
  <2>3. Visible(p) >= 0
    BY <2>1, <2>2 DEF StillSufficient
  <2>4. available'[p] = available[p]
    <3>1. CASE UNCHANGED dbVars
      BY <3>1 DEF dbVars
    <3>2. CASE done[c] = Len(Items[order[c]]) /\ Written(c)
      <4>1. asked[p] = 0
        BY <3>2, <2>1, WrittenFacts, TwoConsumers DEF Ends
      <4>2. available[p] \in Int
        BY DEF TypeOK
      <4> QED
        BY <3>2, <4>1, <4>2, <2>1, TwoConsumers DEF Written
    <3> QED
      BY <3>1, <3>2 DEF Ends
  <2> QED
    BY <2>2, <2>3, <2>4 DEF Visible
<1>12. OversoldOnlyByNegativeQuantity'
  <2>1. CASE UNCHANGED dbVars
    BY <2>1, OversoldUnchanged DEF dbVars
  <2>2. CASE done[c] = Len(Items[order[c]]) /\ Written(c)
    <3> SUFFICES ASSUME NEW p \in Products, available'[p] < 0
                 PROVE  NegativelyReleased(p)'
      BY DEF OversoldOnlyByNegativeQuantity
    <3>1. /\ available[p] \in Int
          /\ asked[p] \in Int
      BY <2>2, WrittenFacts DEF TypeOK, Ends
    <3>2. CASE available[p] < 0
      <4>1. NegativelyReleased(p)
        BY <3>2 DEF OversoldOnlyByNegativeQuantity
      <4> QED
        BY <4>1, <1>6 DEF NegativelyReleased
    <3>3. CASE available[p] >= 0 /\ c = Reserver
      <4>1. available'[p] = available[p] - asked[p]
        BY <2>2, <3>3 DEF Written
      <4> QED
        BY <2>2, <3>1, <3>3, <4>1, WrittenFacts DEF Ends
    <3>4. CASE available[p] >= 0 /\ c = Releaser
      <4>1. /\ available'[p] = available[p] + asked[p]
            /\ outbox' = Append(outbox, <<"inventory.unreserved", o>>)
        BY <2>2, <3>4, TwoConsumers DEF Written
      <4>2. asked[p] < 0
        BY <3>1, <3>4, <4>1
      <4>3. \E i \in 1..Len(Items[o]) : Items[o][i][1] = p /\ Items[o][i][2] < 0
        BY <2>2, <4>2 DEF WritesFollowItems, Ends
      <4> PICK x \in Orders : x = o
        BY <1>1
      <4>4. Emitted("inventory.unreserved", x)'
        <5>1. outbox \in Seq({"inventory.reserved", "inventory.unreserved"} \X Orders)
          BY DEF TypeOK
        <5>2. Len(outbox) + 1 \in 1..Len(outbox')
              /\ outbox'[Len(outbox) + 1] = <<"inventory.unreserved", x>>
          BY <4>1, <5>1
        <5> QED
          BY <5>2 DEF Emitted
      <4> QED
        BY <1>1, <4>3, <4>4 DEF NegativelyReleased
    <3> QED
      BY <3>1, <3>2, <3>3, <3>4 DEF Consumers
  <2> QED
    BY <2>1, <2>2 DEF Ends
<1>13. SpentMeansRolledBack'
  BY <1>3 DEF Ends, SpentMeansRolledBack
<1> QED
  BY <1>7, <1>8, <1>9, <1>10, <1>11, <1>12, <1>13

-----------------------------------------------------------------------------
(* Every step that ends a transaction is one of those above.               *)
LEMMA StepsThatEnd ==
  ASSUME InventoryInvariant, NEW c \in Consumers,
         \/ Insufficient(c)
         \/ DeadlockVictim(c)
         \/ StatementFails(c)
         \/ Commit(c)
         \/ DeadLetter(c)
  PROVE  Ends(c)
<1> USE DEF InventoryInvariant, TypeOK
<1>1. CASE Insufficient(c) \/ DeadlockVictim(c)
  <2>1. Trying(c) /\ FailAttempt(c) /\ UNCHANGED <<dbVars, errors>>
    BY <1>1 DEF Insufficient, DeadlockVictim, Blocked, Updating
  <2>2. attempt' \in [Consumers -> 0..MaxRetry]
    BY <2>1, InventoryAssumption DEF FailAttempt, Trying
  <2> QED
    BY <2>1, <2>2 DEF Ends, FailAttempt, Trying, dbVars
<1>2. CASE StatementFails(c)
  <2>1. /\ Trying(c)
        /\ FailAttempt(c)
        /\ errors' \in Nat
        /\ UNCHANGED dbVars \/ (ReadyToCommit(c) /\ Written(c))
    BY <1>2 DEF StatementFails, CallFails
  <2>2. attempt' \in [Consumers -> 0..MaxRetry]
    BY <2>1, InventoryAssumption DEF FailAttempt, Trying
  <2> QED
    BY <2>1, <2>2 DEF Ends, FailAttempt, Trying, ReadyToCommit
<1>3. CASE Commit(c)
  <2>1. attempt' \in [Consumers -> 0..MaxRetry]
    BY <1>3, InventoryAssumption DEF Commit, Finish
  <2> QED
    BY <1>3, <2>1 DEF Ends, Commit, Finish, ReadyToCommit, Trying
<1>4. CASE DeadLetter(c)
  <2>1. attempt' \in [Consumers -> 0..MaxRetry]
    BY <1>4, InventoryAssumption DEF DeadLetter, Finish
  <2>2. done[c] = 0
    BY <1>4, InventoryAssumption DEF DeadLetter, SpentMeansRolledBack
  <2>3. \A p \in Products : lock[p] # c
    <3> TAKE p \in Products
    <3>1. ~Named(order[c], 0, p)
      BY DEF Named
    <3> QED
      BY <2>2, <3>1 DEF LocksFollowUpdates
  <2>4. Unlock(c)
    <3>1. lock' = lock
      BY <1>4 DEF DeadLetter
    <3> QED
      BY <2>3, <3>1 DEF Unlock
  <2> QED
    BY <1>4, <2>1, <2>4 DEF Ends, DeadLetter, Finish
<1> QED
  BY <1>1, <1>2, <1>3, <1>4

LEMMA InvariantNext == InventoryInvariant /\ [Next]_vars => InventoryInvariant'
<1> SUFFICES ASSUME InventoryInvariant, [Next]_vars PROVE InventoryInvariant'
  OBVIOUS
<1>1. ASSUME NEW c \in Consumers, NEW o \in Orders, Take(c, o) PROVE InventoryInvariant'
  BY <1>1, TakeInvariant
<1>2. ASSUME NEW c \in Consumers, Update(c) PROVE InventoryInvariant'
  BY <1>2, UpdateInvariant
<1>3. ASSUME NEW c \in Consumers, ~Update(c), Step(c) \/ StatementFails(c)
      PROVE  InventoryInvariant'
  BY <1>3, StepsThatEnd, EndsInvariant DEF Step
<1>4. CASE UNCHANGED vars
  <2> USE <1>4 DEF vars, dbVars, InventoryInvariant
  <2>1. TypeOK'
    BY DEF TypeOK
  <2>2. LocksFollowUpdates'
    BY DEF LocksFollowUpdates, Named
  <2>3. WritesFollowItems'
    BY DEF WritesFollowItems
  <2>4. ReleasedWereReserved' /\ SpentMeansRolledBack'
    BY DEF ReleasedWereReserved, Emitted, SpentMeansRolledBack
  <2>5. StillSufficient'
    BY DEF StillSufficient, Visible
  <2>6. OversoldOnlyByNegativeQuantity'
    BY OversoldUnchanged
  <2> QED
    BY <2>1, <2>2, <2>3, <2>4, <2>5, <2>6
<1> QED
  BY <1>1, <1>2, <1>3, <1>4 DEF Next, Step

(* ReserveInventory and UnreserveInventory: what open transactions have    *)
(* locked, seen and written.                                               *)
THEOREM InventoryInvariance == Spec => []InventoryInvariant
BY InvariantInit, InvariantNext, PTL DEF Spec

(* ReserveInventory and UnreserveInventory: types.                         *)
THEOREM TypeCorrectness == Spec => []TypeOK
<1>1. InventoryInvariant => TypeOK
  BY DEF InventoryInvariant
<1> QED
  BY <1>1, InventoryInvariance, PTL

(* ReserveInventory: the stock goes below zero only through an order with  *)
(* a negative quantity that is given back, for any orders and any stock.   *)
THEOREM StockIsOversoldOnlyByNegativeQuantity == Spec => []OversoldOnlyByNegativeQuantity
<1>1. InventoryInvariant => OversoldOnlyByNegativeQuantity
  BY DEF InventoryInvariant
<1> QED
  BY <1>1, InventoryInvariance, PTL

-----------------------------------------------------------------------------
(* A blocked consumer waits for a row that its own transaction has not     *)
(* updated and that its rival's has.                                       *)
LEMMA BlockedFacts ==
  ASSUME InventoryInvariant, NEW c \in Consumers, Blocked(c)
  PROVE  /\ NextRow(c) \in Products
         /\ order[c] \in Orders
         /\ done[c] \in Nat
         /\ done[c] < Len(Items[order[c]])
         /\ Len(Items[order[c]]) \in Nat
         /\ Named(order[c], Len(Items[order[c]]), NextRow(c))
         /\ ~Named(order[c], done[c], NextRow(c))
         /\ Named(order[Rival(c)], done[Rival(c)], NextRow(c))
<1>1. /\ order[c] \in Orders
      /\ done[c] \in Nat
      /\ done[c] < Len(Items[order[c]])
      /\ Len(Items[order[c]]) \in Nat
  BY TotalFacts DEF InventoryInvariant, TypeOK, Blocked, Updating, Trying
<1>2. NextRow(c) \in Products
  BY <1>1, ItemFacts DEF NextRow
<1>3. lock[NextRow(c)] = Rival(c) /\ lock[NextRow(c)] # c
  BY TwoConsumers DEF Blocked
<1>4. done[c] + 1 \in 1..Len(Items[order[c]])
  BY <1>1
<1>5. Named(order[c], Len(Items[order[c]]), NextRow(c))
  BY <1>4 DEF Named, NextRow
<1>6. order[c] # None
  BY <1>1, InventoryAssumption
<1>7. LocksFollowUpdates
  BY DEF InventoryInvariant
<1>8. ~Named(order[c], done[c], NextRow(c))
  BY <1>2, <1>3, <1>6, <1>7 DEF LocksFollowUpdates
<1>9. Rival(c) \in Consumers
  BY TwoConsumers
<1>10. Named(order[Rival(c)], done[Rival(c)], NextRow(c))
  BY <1>2, <1>3, <1>7, <1>9 DEF LocksFollowUpdates
<1> QED
  BY <1>1, <1>2, <1>5, <1>8, <1>10

(* What c has locked while it is blocked comes before the row it waits     *)
(* for.                                                                    *)
LEMMA HeldBeforeWanted ==
  ASSUME InventoryInvariant, NEW c \in Consumers, Blocked(c),
         NEW p \in Products, Named(order[c], done[c], p)
  PROVE  Before(order[c], p, NextRow(c))
<1>1. PICK i \in 1..done[c] : Items[order[c]][i][1] = p
  BY DEF Named
<1>2. i \in 1..Len(Items[order[c]]) /\ 1..i \subseteq 1..done[c]
  BY <1>1, BlockedFacts
<1>3. ~Named(order[c], i, NextRow(c))
  BY <1>2, BlockedFacts DEF Named
<1> QED
  BY <1>1, <1>2, <1>3, BlockedFacts DEF Before

(* ReserveInventory and UnreserveInventory: a deadlock takes two orders    *)
(* that list two products in opposite ways, for any orders and items.      *)
THEOREM DeadlocksNeedOppositeOrders == Spec => []DeadlockNeedsOppositeOrders
<1>1. InventoryInvariant => DeadlockNeedsOppositeOrders
  <2> SUFFICES ASSUME InventoryInvariant, Deadlocked
               PROVE  \E p, q \in Products : /\ Before(order[Reserver], p, q)
                                             /\ Before(order[Releaser], q, p)
    BY DEF DeadlockNeedsOppositeOrders
  <2>1. /\ Reserver \in Consumers /\ Blocked(Reserver) /\ Rival(Reserver) = Releaser
        /\ Releaser \in Consumers /\ Blocked(Releaser) /\ Rival(Releaser) = Reserver
    BY TwoConsumers DEF Deadlocked, Consumers, Rival
  <2>2. Before(order[Reserver], NextRow(Releaser), NextRow(Reserver))
    BY <2>1, BlockedFacts, HeldBeforeWanted
  <2>3. Before(order[Releaser], NextRow(Reserver), NextRow(Releaser))
    BY <2>1, BlockedFacts, HeldBeforeWanted
  <2> QED
    BY <2>1, <2>2, <2>3, BlockedFacts
<1> QED
  BY <1>1, InventoryInvariance, PTL

(* Items sorted by product, the remedy: no deadlock ever.                  *)
THEOREM SortedItemsNeverDeadlock ==
  ASSUME \A a, b \in Orders, p, q \in Products : ~(Before(a, p, q) /\ Before(b, q, p))
  PROVE  Spec => []~Deadlocked
<1>1. TypeOK /\ DeadlockNeedsOppositeOrders => ~Deadlocked
  <2> SUFFICES ASSUME TypeOK, Deadlocked, DeadlockNeedsOppositeOrders PROVE FALSE
    OBVIOUS
  <2>1. order[Reserver] \in Orders /\ order[Releaser] \in Orders
    BY TwoConsumers DEF TypeOK, Deadlocked, Blocked, Updating, Trying, Consumers
  <2> QED
    BY <2>1 DEF DeadlockNeedsOppositeOrders
<1> QED
  BY <1>1, TypeCorrectness, DeadlocksNeedOppositeOrders, PTL

-----------------------------------------------------------------------------
(* What a transaction writes is a step of AtomicStock.                     *)
LEMMA WrittenIsAtomic ==
  ASSUME InventoryInvariant, NEW c \in Consumers, ReadyToCommit(c), Written(c)
  PROVE  Atomic!Next
<1>1. order[c] # None /\ done[c] = Len(Items[order[c]])
  BY DEF ReadyToCommit, Trying
<1>2. PICK o \in Orders : o = order[c]
  BY <1>1, WrittenFacts
<1> DEFINE asked == Total[o][Len(Items[o])]
<1>3. /\ asked \in [Products -> Int]
      /\ \A p \in Products : lock[p] # c => asked[p] = 0
      /\ c = Reserver => \A p \in Products : lock[p] = c => available[p] - asked[p] >= 0
  BY <1>1, <1>2, WrittenFacts
<1>4. available \in [Products -> Int]
  BY DEF InventoryInvariant, TypeOK
<1>5. CASE c = Reserver
  <2>1. \A p \in Products : asked[p] # 0 => asked[p] <= available[p]
    BY <1>3, <1>4, <1>5
  <2>2. Atomic!Reserve(o)
    BY <1>2, <1>5, <2>1 DEF Written, Atomic!Reserve
  <2> QED
    BY <2>2 DEF Atomic!Next
<1>6. CASE c = Releaser
  <2>1. Emitted("inventory.reserved", o)
    BY <1>1, <1>2, <1>6 DEF InventoryInvariant, ReleasedWereReserved
  <2>2. Atomic!Release(o)
    BY <1>2, <1>6, <2>1, TwoConsumers
       DEF Written, Atomic!Release, Atomic!Emitted, Emitted
  <2> QED
    BY <2>2 DEF Atomic!Next
<1> QED
  BY <1>5, <1>6 DEF Consumers

(* ReserveInventory and UnreserveInventory are atomic although their       *)
(* UPDATEs interleave: InventoryTx implements AtomicStock.                 *)
THEOREM TransactionsAreAtomic == Spec => ImplementsAtomicStock
<1>1. Init => Atomic!Init
  BY DEF Init, Atomic!Init
<1>2. InventoryInvariant /\ [Next]_vars => [Atomic!Next]_(Atomic!stockVars)
  <2> SUFFICES ASSUME InventoryInvariant, [Next]_vars,
                      ~(UNCHANGED Atomic!stockVars)
               PROVE  Atomic!Next
    OBVIOUS
  <2>1. \E c \in Consumers : ReadyToCommit(c) /\ Written(c)
    BY DEF Next, Step, Take, Update, Insufficient, DeadlockVictim, DeadLetter, Commit,
           StatementFails, vars, dbVars, Atomic!stockVars
  <2> QED
    BY <2>1, WrittenIsAtomic
<1> QED
  BY <1>1, <1>2, InventoryInvariance, PTL DEF Spec, ImplementsAtomicStock, Atomic!Spec
=============================================================================
