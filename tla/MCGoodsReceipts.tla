-------------------------- MODULE MCGoodsReceipts --------------------------
(* Small instances of GoodsReceipts for TLC. *)
EXTENDS GoodsReceipts, TLC

CONSTANT MaxOrdered  \* quantity ordered of every line

OrderedAlike == [l \in Line |-> MaxOrdered]

Symmetry == Permutations(Request) \cup Permutations(Receipt)
=============================================================================
