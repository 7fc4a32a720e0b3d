------------------------------ MODULE MCPublish ------------------------------
(* Finite instances of Publish. *)
EXTENDS PublishRefinement, TLC

Symmetry == Permutations(Worker) \cup Permutations(Name)
=============================================================================
