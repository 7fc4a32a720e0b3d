--------------------------- MODULE MCGrantChannel ----------------------------
(* Finite instances of GrantChannel. *)
EXTENDS GrantChannel
=============================================================================
