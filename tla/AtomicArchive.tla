---------------------------- MODULE AtomicArchive ----------------------------
(***************************************************************************)
(* What editing an archive promises ("A transfer within one archive        *)
(* publishes all its member changes together", README.md): the archive is  *)
(* a folder tree that changes by whole batches of operations, each applied *)
(* to the tree as it is at that moment.  A request that replies "ok" has   *)
(* had its batches applied, one that fails never has, and one that cannot  *)
(* tell says so, after which its batch may still be applied, once.         *)
(***************************************************************************)
EXTENDS Naturals, Sequences, SequencesExt

CONSTANTS
  Worker,    \* requests
  Folder     \* what a tree holds at a path that is a folder

VARIABLES
  trees,     \* the trees so far, the last one is the archive now
  batch,     \* batch[w]: operations asked for and not replied to yet
  taken,     \* taken[w]: the batch has been applied
  answer     \* answer[w]: the reply

vars == <<trees, batch, taken, answer>>

Below(t, p) == {q \in DOMAIN t : IsPrefix(p, q)}
Set(t, p, x) == [q \in DOMAIN t \cup {p} |-> IF q = p THEN x ELSE t[q]]

\* The effect of one operation on a tree.
Do(t, o) ==
  CASE o.op = "put"    -> Set(t, o.path, o.data)
    [] o.op = "mkdir"  -> Set(t, o.path, Folder)
    [] o.op = "delete" -> [q \in DOMAIN t \ Below(t, o.path) |-> t[q]]
    [] o.op = "all"    -> o.data

\* What a batch makes of a tree: the operations take effect one after the other.
Course(t, ops) ==
  LET tree[i \in 0..Len(ops)] == IF i = 0 THEN t ELSE Do(tree[i - 1], ops[i])
  IN  tree
DoAll(t, ops) == Course(t, ops)[Len(ops)]

Init ==
  /\ Len(trees) = 1
  /\ batch = [w \in Worker |-> <<>>]
  /\ taken = [w \in Worker |-> FALSE]
  /\ answer = [w \in Worker |-> "none"]

Ask(w) ==
  /\ ~taken[w] /\ answer[w] = "none"
  /\ batch'[w] # <<>> /\ batch' = [batch EXCEPT ![w] = Append(@, Last(batch'[w]))]
  /\ UNCHANGED <<trees, taken, answer>>

Take(w) ==
  /\ ~taken[w] /\ answer[w] \in {"none", "unconfirmed"}
  /\ trees' = Append(trees, DoAll(Last(trees), batch[w]))
  /\ taken' = [taken EXCEPT ![w] = TRUE]
  /\ answer' \in {answer, [answer EXCEPT ![w] = "unconfirmed"]}
  /\ UNCHANGED batch

\* The batch is over: it was applied, or it changes nothing.
Settle(w) ==
  /\ answer[w] = "none"
  /\ taken[w] \/ \E i \in DOMAIN trees : DoAll(trees[i], batch[w]) = trees[i]
  /\ batch' = [batch EXCEPT ![w] = <<>>]
  /\ taken' = [taken EXCEPT ![w] = FALSE]
  /\ answer' \in {answer, [answer EXCEPT ![w] = "ok"]}
  /\ UNCHANGED trees

Answer(w) ==
  /\ answer[w] = "none"
  /\ \/ batch[w] = <<>> /\ answer' = [answer EXCEPT ![w] = "ok"] /\ UNCHANGED batch
     \/ /\ ~taken[w] /\ answer' = [answer EXCEPT ![w] = "failed"]
        /\ batch' \in {batch, [batch EXCEPT ![w] = <<>>]}
     \/ answer' = [answer EXCEPT ![w] = "unconfirmed"] /\ UNCHANGED batch
  /\ UNCHANGED <<trees, taken>>

\* Somebody else replaces the archive.
OthersWrite ==
  /\ Len(trees') = Len(trees) + 1 /\ trees' = Append(trees, Last(trees'))
  /\ UNCHANGED <<batch, taken, answer>>

Next == OthersWrite \/ \E w \in Worker : Ask(w) \/ Take(w) \/ Settle(w) \/ Answer(w)

Spec == Init /\ [][Next]_vars
=============================================================================
