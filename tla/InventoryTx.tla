----------------------------- MODULE InventoryTx -----------------------------
(***************************************************************************)
(* ReserveInventory and UnreserveInventory of inventory-service, statement *)
(* by statement.  The two consumers of the service are goroutines of one   *)
(* process: each handles one record at a time, and the transactions of     *)
(* both update the same rows of inventory_items in the order in which the  *)
(* items of their order happen to be listed.                               *)
(*                                                                         *)
(* PostgreSQL (READ COMMITTED, the default of pgx): an UPDATE locks its    *)
(* row until the transaction ends; it decides by the committed row, plus   *)
(* the transaction's own writes, whether the row satisfies the WHERE; it   *)
(* waits for the lock only if so, and decides again afterwards; when       *)
(* transactions wait for each other one of their statements fails.         *)
(*                                                                         *)
(* Abstracted: BEGIN is part of the first statement, the INSERTs into      *)
(* processed_events and outbox part of the COMMIT, because they take no    *)
(* lock that the other consumer asks for; a record is its order.           *)
(***************************************************************************)
EXTENDS Integers, Sequences

CONSTANTS
  Products,    \* keys of inventory_items
  Orders,
  Items,       \* Items[o]: the items of o, <<product, quantity>>, as listed
  Total,       \* Total[o][n][p]: what the first n items of o ask of p
  Stock,       \* Stock[p]: seeded quantity of p
  MaxRetry,    \* Consumer.maxRetry, 3 in the code
  MaxRecords,  \* bound: records each consumer is given, redeliveries included
  MaxErrors,   \* bound: failed database calls in a behaviour
  None         \* no transaction, no order

(* The consumer groups of cmd/api/main.go. *)
Reserver == "inventory-service"
Releaser == "inventory-service-payment"
Consumers == {Reserver, Releaser}

Rival(c) == IF c = Reserver THEN Releaser ELSE Reserver

ItemAssumption ==
  \A o \in Orders :
    /\ Items[o] \in Seq(Products \X Int)
    /\ Total[o] \in [0..Len(Items[o]) -> [Products -> Int]]
    /\ \A p \in Products : Total[o][0][p] = 0
    /\ \A n \in 1..Len(Items[o]), p \in Products :
         Total[o][n][p] = Total[o][n - 1][p]
                          + (IF Items[o][n][1] = p THEN Items[o][n][2] ELSE 0)

ASSUME InventoryAssumption == /\ ItemAssumption
                              /\ Stock \in [Products -> Nat]
                              /\ None \notin Orders \cup Consumers
                              /\ MaxRetry \in Nat \ {0}
                              /\ MaxRecords \in Nat
                              /\ MaxErrors \in Nat

VARIABLES
  available,  \* inventory_items.available, as committed
  reserved,   \* inventory_items.reserved, as committed
  outbox,     \* committed rows of the outbox, <<event, order>>
  lock,       \* lock[p]: the consumer whose transaction holds the row of p
  order,      \* order[c]: the record c is handling, or None
  done,       \* done[c]: UPDATEs its transaction has executed
  attempt,    \* attempt[c]: failed attempts at the record
  records,    \* records[c]: records c has been given so far
  errors      \* failed database calls so far

dbVars == <<available, reserved, outbox>>
vars == <<dbVars, lock, order, done, attempt, records, errors>>

Init ==
  /\ available = Stock
  /\ reserved = [p \in Products |-> 0]
  /\ outbox = << >>
  /\ lock = [p \in Products |-> None]
  /\ order = [c \in Consumers |-> None]
  /\ done = [c \in Consumers |-> 0]
  /\ attempt = [c \in Consumers |-> 0]
  /\ records = [c \in Consumers |-> 0]
  /\ errors = 0

-----------------------------------------------------------------------------
Emitted(e, o) == \E i \in 1..Len(outbox) : outbox[i] = <<e, o>>

(* A record of order.created may name any order, again after a redelivery; *)
(* one of payment.failed only an order that payment-service has heard of.  *)
Take(c, o) ==
  /\ order[c] = None
  /\ records[c] < MaxRecords
  /\ c = Releaser => Emitted("inventory.reserved", o)
  /\ order' = [order EXCEPT ![c] = o]
  /\ records' = [records EXCEPT ![c] = @ + 1]
  /\ UNCHANGED <<dbVars, lock, done, attempt, errors>>

Trying(c) == order[c] # None /\ attempt[c] < MaxRetry

(* A bug: the two transactions walk through the items in opposite ways. *)
NextRowBackwards(c) ==
  IF c = Reserver THEN Items[order[c]][done[c] + 1][1]
  ELSE Items[order[c]][Len(Items[order[c]]) - done[c]][1]

(* The row and the quantity of the next UPDATE of c. *)
Updating(c) == Trying(c) /\ done[c] < Len(Items[order[c]])
NextRow(c) == Items[order[c]][done[c] + 1][1]
NextQuantity(c) == Items[order[c]][done[c] + 1][2]

(* What the transaction of the reserver sees in the column available. *)
Visible(p) == available[p] - Total[order[Reserver]][done[Reserver]][p]

(* A bug: the UPDATE lacks the condition on available. *)
MatchesAnything(c) == c \in Consumers

(* The WHERE of the UPDATE; that of the release names no quantity. *)
Matches(c) == c = Reserver => Visible(NextRow(c)) >= NextQuantity(c)

Blocked(c) == Updating(c) /\ Matches(c) /\ lock[NextRow(c)] = Rival(c)

(* The end of a transaction: its locks are given up. *)
Unlock(c) == lock' = [p \in Products |-> IF lock[p] = c THEN None ELSE lock[p]]

(* A bug: the error path returns without a Rollback. *)
FailWithoutRollback(c) ==
  /\ done' = [done EXCEPT ![c] = 0]
  /\ attempt' = [attempt EXCEPT ![c] = @ + 1]
  /\ UNCHANGED <<lock, order, records>>

(* Rollback, and an error for the retry loop. *)
FailAttempt(c) ==
  /\ Unlock(c)
  /\ done' = [done EXCEPT ![c] = 0]
  /\ attempt' = [attempt EXCEPT ![c] = @ + 1]
  /\ UNCHANGED <<order, records>>

(* On to the next record. *)
Finish(c) ==
  /\ order' = [order EXCEPT ![c] = None]
  /\ done' = [done EXCEPT ![c] = 0]
  /\ attempt' = [attempt EXCEPT ![c] = 0]
  /\ UNCHANGED records

-----------------------------------------------------------------------------
Update(c) ==
  /\ Updating(c)
  /\ Matches(c)
  /\ lock[NextRow(c)] # Rival(c)
  /\ lock' = [lock EXCEPT ![NextRow(c)] = c]
  /\ done' = [done EXCEPT ![c] = @ + 1]
  /\ UNCHANGED <<dbVars, order, attempt, records, errors>>

(* RowsAffected is 0: insufficient inventory. *)
Insufficient(c) ==
  /\ Updating(c)
  /\ ~Matches(c)
  /\ FailAttempt(c)
  /\ UNCHANGED <<dbVars, errors>>

(* PostgreSQL finds the cycle and fails the statement of c. *)
DeadlockVictim(c) ==
  /\ Blocked(c)
  /\ Blocked(Rival(c))
  /\ FailAttempt(c)
  /\ UNCHANGED <<dbVars, errors>>

(* The rows of the transaction become visible at once. *)
Written(c) ==
  LET o == order[c]
      asked == Total[o][Len(Items[o])]
  IN  IF c = Reserver
      THEN /\ available' = [p \in Products |-> available[p] - asked[p]]
           /\ reserved' = [p \in Products |-> reserved[p] + asked[p]]
           /\ outbox' = Append(outbox, <<"inventory.reserved", o>>)
      ELSE /\ available' = [p \in Products |-> available[p] + asked[p]]
           /\ reserved' = [p \in Products |-> reserved[p] - asked[p]]
           /\ outbox' = Append(outbox, <<"inventory.unreserved", o>>)

ReadyToCommit(c) == Trying(c) /\ done[c] = Len(Items[order[c]])

Commit(c) ==
  /\ ReadyToCommit(c)
  /\ Written(c)
  /\ Unlock(c)
  /\ Finish(c)
  /\ UNCHANGED errors

CallFails == errors < MaxErrors /\ errors' = errors + 1

(* Any statement may fail; a COMMIT that fails may have taken effect. *)
StatementFails(c) ==
  /\ Trying(c)
  /\ CallFails
  /\ FailAttempt(c)
  /\ UNCHANGED dbVars \/ (ReadyToCommit(c) /\ Written(c))

(* The attempts are spent: the record goes to the DLQ topic. *)
DeadLetter(c) ==
  /\ order[c] # None
  /\ attempt[c] = MaxRetry
  /\ Finish(c)
  /\ UNCHANGED <<dbVars, lock, errors>>

-----------------------------------------------------------------------------
Step(c) == Update(c) \/ Insufficient(c) \/ DeadlockVictim(c) \/ Commit(c) \/ DeadLetter(c)

Next == \E c \in Consumers :
          \/ \E o \in Orders : Take(c, o)
          \/ Step(c)
          \/ StatementFails(c)

Spec == Init /\ [][Next]_vars

(* The goroutines run and the database answers, deadlocks included; no     *)
(* record has to arrive.                                                   *)
Fairness == \A c \in Consumers : WF_vars(Step(c))

FairSpec == Spec /\ Fairness
=============================================================================
