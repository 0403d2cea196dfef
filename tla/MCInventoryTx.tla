---------------------------- MODULE MCInventoryTx ----------------------------
(* Values of the constants for the TLC run of InventoryTx.                 *)
EXTENDS InventoryTxProperties

(* Two orders list two products in opposite ways, one of them naming a     *)
(* product twice; a third asks for a negative quantity.                    *)
ThreeOrders == {"forth", "back", "negative"}

MixedItems ==
  [o \in ThreeOrders |->
     CASE o = "forth"    -> << <<"p", 1>>, <<"q", 1>>, <<"p", 1>> >>
       [] o = "back"     -> << <<"q", 1>>, <<"p", 1>> >>
       [] o = "negative" -> << <<"q", -1>> >>]

Sums(items) ==
  LET sum[n \in 0..Len(items)] ==
        IF n = 0 THEN [p \in Products |-> 0]
        ELSE [sum[n - 1] EXCEPT ![items[n][1]] = @ + items[n][2]]
  IN  sum

MixedTotal == [o \in ThreeOrders |-> Sums(MixedItems[o])]

(* Enough for "forth" or for "back" with something left of p, not for both. *)
Short == [p \in Products |-> IF p = "p" THEN 3 ELSE 1]
=============================================================================
