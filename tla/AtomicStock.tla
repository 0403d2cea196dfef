----------------------------- MODULE AtomicStock -----------------------------
(***************************************************************************)
(* What inventory-service promises to OrderSaga: an order is reserved in   *)
(* full or not at all, given back in full, and the outbox records every    *)
(* such step in the order in which they took effect.                       *)
(***************************************************************************)
EXTENDS Integers, Sequences

CONSTANTS
  Products,
  Orders,
  Quantity,  \* Quantity[o][p]: what order o asks of product p altogether
  Stock      \* Stock[p]: seeded quantity of p

VARIABLES available, reserved, outbox

stockVars == <<available, reserved, outbox>>

Init ==
  /\ available = Stock
  /\ reserved = [p \in Products |-> 0]
  /\ outbox = << >>

Emitted(e, o) == \E i \in 1..Len(outbox) : outbox[i] = <<e, o>>

Reserve(o) ==
  /\ \A p \in Products : Quantity[o][p] # 0 => Quantity[o][p] <= available[p]
  /\ available' = [p \in Products |-> available[p] - Quantity[o][p]]
  /\ reserved' = [p \in Products |-> reserved[p] + Quantity[o][p]]
  /\ outbox' = Append(outbox, <<"inventory.reserved", o>>)

Release(o) ==
  /\ Emitted("inventory.reserved", o)
  /\ available' = [p \in Products |-> available[p] + Quantity[o][p]]
  /\ reserved' = [p \in Products |-> reserved[p] - Quantity[o][p]]
  /\ outbox' = Append(outbox, <<"inventory.unreserved", o>>)

Next == \E o \in Orders : Reserve(o) \/ Release(o)

Spec == Init /\ [][Next]_stockVars
=============================================================================
