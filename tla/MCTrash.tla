------------------------------ MODULE MCTrash -------------------------------
(* Finite instances of Trash. *)
EXTENDS Trash, TLC
Symmetry == Permutations(Request) \cup Permutations(Item \ Special)
=============================================================================
