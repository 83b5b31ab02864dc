---------------------------- MODULE MCInventory ----------------------------
(* Small instances of Inventory for TLC. *)
EXTENDS Inventory, TLC

Symmetry == Permutations(Request) \cup Permutations(Reservation)
=============================================================================
