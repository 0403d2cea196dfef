------------------------------ MODULE MCRelay -------------------------------
(* Symmetry sets for the TLC runs of Relay. *)
EXTENDS RelayProperties, TLC

(* Rows are interchangeable where none of them is poisoned. *)
RelaySymmetry == Permutations(Rows) \cup Permutations(Relays)
=============================================================================
