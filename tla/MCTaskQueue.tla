----------------------------- MODULE MCTaskQueue -----------------------------
(* Finite instances of TaskQueue: a batch of two files into a folder that may *)
(* hold the first name, and a deletion queued behind it.                      *)
EXTENDS TaskQueue
CONSTANTS a, b, x, y
MCItems == <<<<a, b>>, <<a>>>>
MCKinds == <<{"upload", "copy"}, {"delete"}>>
MCBefore == {[n \in Name |-> IF n \in taken THEN x ELSE NoFile] : taken \in {{}, {a}}}
=============================================================================
