------------------------ MODULE InventoryTxProperties ------------------------
(***************************************************************************)
(* What the transactions of inventory-service guarantee although their     *)
(* statements interleave.                                                  *)
(***************************************************************************)
EXTENDS InventoryTx

(* Rows, locks and the progress of each consumer are of their types. *)
TypeOK ==
  /\ available \in [Products -> Int]
  /\ reserved \in [Products -> Int]
  /\ outbox \in Seq({"inventory.reserved", "inventory.unreserved"} \X Orders)
  /\ lock \in [Products -> Consumers \cup {None}]
  /\ order \in [Consumers -> Orders \cup {None}]
  /\ done \in [Consumers -> Nat]
  /\ \A c \in Consumers : done[c] <= (IF order[c] = None THEN 0 ELSE Len(Items[order[c]]))
  /\ attempt \in [Consumers -> 0..MaxRetry]
  /\ records \in [Consumers -> Nat]
  /\ errors \in Nat

(* The first n items of order o name product p. *)
Named(o, n, p) == \E i \in 1..n : Items[o][i][1] = p

(* ReserveInventory, UnreserveInventory: a row is locked by the            *)
(* transaction that has updated it, by no other, and for no longer than    *)
(* that transaction lasts.                                                 *)
LocksFollowUpdates ==
  \A p \in Products, c \in Consumers :
    lock[p] = c <=> order[c] # None /\ Named(order[c], done[c], p)

(* The condition on available holds when the reservation commits, not only *)
(* when its UPDATE is executed, whatever the other consumer commits in     *)
(* between.                                                                *)
StillSufficient ==
  order[Reserver] # None =>
    \A p \in Products : lock[p] = Reserver => Visible(p) >= 0

(* A release that names a negative quantity of product p, which dto.go     *)
(* does not refuse, takes from the column that it should give back to.     *)
NegativelyReleased(p) ==
  \E o \in Orders : /\ \E i \in 1..Len(Items[o]) : Items[o][i][1] = p /\ Items[o][i][2] < 0
                    /\ Emitted("inventory.unreserved", o)

(* inventory_items: available goes below zero in one case only, an order   *)
(* with a negative quantity that was given back.  No interleaving of the   *)
(* two consumers, no deadlock and no repeated record does it.              *)
OversoldOnlyByNegativeQuantity ==
  \A p \in Products : available[p] < 0 => NegativelyReleased(p)

(* Order o updates p before it first updates q. *)
Before(o, p, q) ==
  \E i \in 1..Len(Items[o]) : /\ Items[o][i][1] = p
                              /\ ~Named(o, i, q)
                              /\ Named(o, Len(Items[o]), q)

Deadlocked == Blocked(Reserver) /\ Blocked(Releaser)

(* ReserveInventory and UnreserveInventory deadlock only over two orders   *)
(* that list two products in opposite order; the same order taken by both, *)
(* or a product that is listed twice, never does it.                       *)
DeadlockNeedsOppositeOrders ==
  Deadlocked =>
    \E p, q \in Products : /\ Before(order[Reserver], p, q)
                           /\ Before(order[Releaser], q, p)

(* The transactions take effect as if each were one step, which is how     *)
(* OrderSaga models them.                                                  *)
Atomic == INSTANCE AtomicStock
            WITH Quantity <- [o \in Orders |-> Total[o][Len(Items[o])]]
ImplementsAtomicStock == Atomic!Spec

(* Every record is settled, by a COMMIT or as a dead letter: a lock is     *)
(* waited for in vain only until PostgreSQL breaks the deadlock.           *)
EveryRecordSettled == \A c \in Consumers : order[c] # None ~> order[c] = None

-----------------------------------------------------------------------------
(* What an open transaction has written so far: nothing to a row that it   *)
(* has not locked, and a negative sum only because of a negative quantity. *)
WritesFollowItems ==
  \A c \in Consumers, p \in Products :
    order[c] # None =>
      LET written == Total[order[c]][done[c]][p]
      IN  /\ lock[p] # c => written = 0
          /\ written < 0 => \E i \in 1..done[c] : /\ Items[order[c]][i][1] = p
                                                /\ Items[order[c]][i][2] < 0

(* An order that is given back has been reserved. *)
ReleasedWereReserved ==
  order[Releaser] # None => Emitted("inventory.reserved", order[Releaser])

(* A record whose attempts are spent has no open transaction. *)
SpentMeansRolledBack ==
  \A c \in Consumers : attempt[c] = MaxRetry => done[c] = 0

(* The inductive invariant: what open transactions have locked, seen and   *)
(* written.                                                                *)
InventoryInvariant ==
  /\ TypeOK
  /\ LocksFollowUpdates
  /\ WritesFollowItems
  /\ ReleasedWereReserved
  /\ SpentMeansRolledBack
  /\ StillSufficient
  /\ OversoldOnlyByNegativeQuantity
=============================================================================
