----------------------------- MODULE GroupCursor -----------------------------
(***************************************************************************)
(* How a consumer group moves through a topic, seen from the outside: it   *)
(* deals with one record after the other, stores offsets it has passed,    *)
(* and after a failure falls back to the offset it stored last.  This is   *)
(* the consumer that OrderSaga is built on.                                *)
(***************************************************************************)
EXTENDS Naturals

VARIABLES
  position,  \* records dealt with
  offset     \* records that are never delivered again

cursor == <<position, offset>>

Init == position = 0 /\ offset = 0

Advance == position' = position + 1 /\ UNCHANGED offset

Store == /\ offset' \in (offset + 1)..position
         /\ UNCHANGED position

FallBack == position' = offset /\ UNCHANGED offset

Next == Advance \/ Store \/ FallBack

Spec == Init /\ [][Next]_cursor
=============================================================================
