--------------------------- MODULE MCCloudTransfer ---------------------------
(* Finite instances of CloudTransfer: name m is in use in both folders. *)
EXTENDS CloudTransfer, TLC
CONSTANTS A, B, m, n, o1, o2, o3
MCStart == o1 :> <<A, m>> @@ o2 :> <<B, m>> @@ o3 :> <<A, n>>
Symmetry == Permutations(Worker)
=============================================================================
