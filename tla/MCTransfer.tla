----------------------------- MODULE MCTransfer ------------------------------
(* Finite instances of Transfer: c is on a volume of its own. *)
EXTENDS Transfer, TLC
CONSTANTS a, b, c
MCVolume == [n \in Name |-> IF n = c THEN 2 ELSE 1]
Symmetry == Permutations(Mover) \cup Permutations(Original) \cup Permutations(Name \ ({c} \cup Deletable))
=============================================================================
