-------------------------- MODULE PublishRefinement --------------------------
(***************************************************************************)
(* The publish protocol implements AtomicReplace: a replacement takes      *)
(* effect at its exchange when the file that comes back is the expected    *)
(* one.  An exchange that brought back another file has no effect in the   *)
(* abstraction: until its rollback, the name still means what it displaced.*)
(***************************************************************************)
EXTENDS Publish

\* w has exchanged and holds a file it must not have displaced.
Displacing(w) ==
  \/ /\ pc[w] \in {"rechecking", "restoring"}
  \/ /\ pc[w] = "verifying"
     /\ Revision(stage[w]) # Expected(w)

\* The file a reader will find at n once every rollback under way is done.
Settled(n) ==
  IF \E w \in Worker : Displacing(w) /\ dir[n] = w
  THEN stage[CHOOSE w \in Worker : Displacing(w) /\ dir[n] = w]
  ELSE dir[n]

Asked(w) == IF pc[w] = "idle" THEN [name |-> NoFile, expects |-> NoFile]
            ELSE [name |-> task[w].name, expects |-> Expected(w)[1]]

Verdict(w) ==
  CASE pc[w] = "syncing" -> "won"
    [] pc[w] = "verifying" /\ ~Displacing(w) -> "won"
    [] pc[w] \in {"cleaning", "done"} /\ Published(w) -> "won"
    [] pc[w] \in {"cleaning", "done"} /\ ~Published(w) -> "lost"
    [] OTHER -> "open"

Register == INSTANCE AtomicReplace WITH
  current <- [n \in Name |-> Settled(n)],
  asked   <- [w \in Worker |-> Asked(w)],
  verdict <- [w \in Worker |-> Verdict(w)]

\* With at most two requests for a name, no other program writing and nobody
\* killed, publishing behaves as an atomic compare-and-replace per name.
Atomic == Register!Spec
=============================================================================
