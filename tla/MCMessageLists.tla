--------------------------- MODULE MCMessageLists ---------------------------
(* A small instance of MessageLists.tla for TLC.                           *)
EXTENDS MessageLists, TLC

Symmetry == Permutations(Nodes)
=============================================================================
