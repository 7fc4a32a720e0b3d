------------------------------- MODULE TreeMove ------------------------------
(***************************************************************************)
(* Copies and moves of a folder into one that exists (Engine.transfer and  *)
(* merge, equalTree and removeTree in internal/localfs/transfer.go): the   *)
(* entries are transferred one after the other by the conflict policy,     *)
(* folders that exist on both sides are merged in the same way, and a      *)
(* subtree that cannot be renamed is copied, published, compared and       *)
(* removed entry by entry.  Others create, replace and delete files.       *)
(*                                                                         *)
(* A tree is a function from paths, relative to the folder, to Dir or to a *)
(* text, which stands for a revision and a content.  Reading a whole tree  *)
(* is one step, as Transfer explains; publishing is one step, which        *)
(* Publish shows in full.  Every step may fail or find the request         *)
(* cancelled, which ends it.                                               *)
(***************************************************************************)
EXTENDS Naturals, SequencesExt

CONSTANTS
  Label,        \* names of files and folders
  Dir, Nothing, \* a folder; no file that may be replaced
  Starts,       \* pairs of trees a run may start with
  Fresh,        \* texts that others may bring
  MaxVisits     \* bound on the steps of others

VARIABLES
  source, dest,      \* the two trees
  asked,             \* [move, policy, near]; near: the kernel can rename between them
  doing,             \* where the request is
  merging,           \* folders that are merged, innermost last: [folder, names]
  entry,             \* the entry that is transferred, and what it may replace
  copy,              \* its staged copy
  emptying,          \* folders that are removed, innermost last: [folder, names]
  ending,            \* outcome
  visits,            \* steps of others (the bound)
  original, known,   \* history: texts of the source at first, all texts there ever were
  given, late, apart \* history: texts that were given up knowingly; that came too late
                     \* to be compared; that the policy or others keep from being moved

treeVars == <<source, dest, asked, doing, merging, entry, copy, emptying, ending, visits,
              original, known, given, late, apart>>
histories == <<original, known, given, late, apart>>

Below(t, p) == {q \in DOMAIN t : IsPrefix(p, q)}
Sub(t, p) ==
  [r \in {SubSeq(q, Len(p) + 1, Len(q)) : q \in Below(t, p)} |-> t[p \o r]]
Cut(t, p) == [q \in DOMAIN t \ Below(t, p) |-> t[q]]
Graft(t, p, s) ==
  [q \in DOMAIN t \cup {p \o r : r \in DOMAIN s} |->
     IF IsPrefix(p, q) THEN s[SubSeq(q, Len(p) + 1, Len(q))] ELSE t[q]]
File(x)     == [q \in {<<>>} |-> x]
Names(t, p) == {q \in DOMAIN t : q # <<>> /\ Front(q) = p}
Texts(t)    == {t[q] : q \in DOMAIN t} \ {Dir}
\* What stat tells of an entry: whether names came or went, or the file changed.
Look(t, p) == [is |-> t[p], names |-> Names(t, p)]

\* Whatever is above an entry is a folder.
IsTree(t) ==
  \A q \in DOMAIN t :
    /\ q \in Seq(Label)
    /\ \A n \in 0..(Len(q) - 1) : SubSeq(q, 1, n) \in DOMAIN t /\ t[SubSeq(q, 1, n)] = Dir

ASSUME TreeAssumption ==
  /\ \A s \in Starts, i \in {1, 2} : IsTree(s[i]) /\ <<>> \in DOMAIN s[i] /\ s[i][<<>>] = Dir
  /\ Dir \notin Fresh
  /\ MaxVisits \in Nat

NoEntry == [from |-> <<>>, to |-> <<>>, replaces |-> Nothing, looked |-> [is |-> Dir, names |-> {}]]

TreeInit ==
  /\ \E s \in Starts : source = s[1] /\ dest = s[2]
  /\ asked \in [move : BOOLEAN, policy : {"ask", "skip", "rename", "replace"}, near : BOOLEAN]
  /\ doing = "inspecting" /\ entry = NoEntry
  /\ merging = <<>> /\ emptying = <<>> /\ copy = <<>>
  /\ ending = "none" /\ visits = 0
  /\ original = Texts(source) /\ known = Texts(source) \cup Texts(dest)
  /\ given = {} /\ late = {} /\ apart = {}

-----------------------------------------------------------------------------
(* transfer: one entry. *)

Fail == doing' = "done" /\ ending' = "failed"
\* A sync fails after the step has had its effect.
Either(next) == (doing' = next /\ UNCHANGED ending) \/ Fail

Inspect ==
  LET p == entry.from IN
  /\ doing = "inspecting"
  /\ \/ Fail /\ UNCHANGED <<merging, entry, apart>>
     \/ /\ p \in DOMAIN source \cap DOMAIN dest /\ source[p] = Dir /\ dest[p] = Dir
        /\ merging' = Append(merging, [folder |-> p, names |-> Names(source, p)])
        /\ doing' = "picking" /\ UNCHANGED <<entry, apart, ending>>
     \/ /\ p \in DOMAIN source /\ p \notin DOMAIN dest
        /\ entry' = [entry EXCEPT !.looked = Look(source, p)]
        /\ doing' = (IF asked.move THEN "renaming" ELSE "copying")
        /\ UNCHANGED <<merging, apart, ending>>
     \/ /\ p \in DOMAIN source \cap DOMAIN dest /\ ~(source[p] = Dir /\ dest[p] = Dir)
        /\ \/ /\ asked.policy = "skip"
              /\ apart' = apart \cup Texts(Sub(source, p))
              /\ doing' = "picking" /\ UNCHANGED entry
           \/ /\ asked.policy = "rename"
              /\ \E n \in Label :
                   /\ Append(Front(p), n) \notin DOMAIN dest
                   /\ entry' = [entry EXCEPT !.to = Append(Front(p), n), !.looked = Look(source, p)]
              /\ doing' = (IF asked.move THEN "renaming" ELSE "copying")
              /\ UNCHANGED apart
           \/ /\ asked.policy = "replace" /\ source[p] # Dir /\ dest[p] # Dir
              /\ entry' = [entry EXCEPT !.replaces = dest[p], !.looked = Look(source, p)]
              /\ doing' = "copying" /\ UNCHANGED apart
        /\ UNCHANGED <<merging, ending>>
  /\ UNCHANGED <<source, dest, asked, copy, emptying, visits, original, known, given, late>>

\* One rename where the kernel can do it, of whatever is there by then.
Rename ==
  /\ doing = "renaming"
  /\ \/ Fail /\ UNCHANGED <<source, dest>>
     \/ ~asked.near /\ doing' = "copying" /\ UNCHANGED <<source, dest, ending>>
     \/ /\ asked.near /\ entry.from \in DOMAIN source /\ entry.to \notin DOMAIN dest
        /\ source' = Cut(source, entry.from)
        /\ dest' = Graft(dest, entry.to, Sub(source, entry.from))
        /\ Either("picking")
  /\ UNCHANGED <<asked, merging, entry, copy, emptying, visits, histories>>

\* copy between two snapshots that agree with each other and with the inspection.
CopyTree ==
  /\ doing = "copying"
  /\ \/ Fail /\ UNCHANGED copy
     \/ /\ entry.from \in DOMAIN source /\ Look(source, entry.from) = entry.looked
        /\ copy' = Sub(source, entry.from)
        /\ doing' = "publishing" /\ UNCHANGED ending
  /\ UNCHANGED <<source, dest, asked, merging, entry, emptying, visits, histories>>

\* publish: onto a free name, or in the place of the very file that may be replaced.
PublishTree ==
  /\ doing = "publishing"
  /\ \/ Fail /\ UNCHANGED <<dest, given>>
     \/ /\ IF entry.replaces = Nothing THEN entry.to \notin DOMAIN dest
           ELSE entry.to \in DOMAIN dest /\ dest[entry.to] = entry.replaces
        /\ dest' = Graft(dest, entry.to, copy)
        /\ given' = given \cup ({entry.replaces} \ {Nothing})
        /\ Either(IF asked.move THEN "comparing" ELSE "picking")
  /\ UNCHANGED <<source, asked, merging, entry, copy, emptying, visits, original, known, late, apart>>

\* Mutant: a source that changed counts as moved.
GoOn == doing' = "picking" /\ UNCHANGED ending
\* "source changed; both copies preserved"
Differs == Fail

\* A fresh snapshot of the source,
CompareTree ==
  /\ doing = "comparing"
  /\ \/ Fail
     \/ Sub(source, entry.from) = copy /\ doing' = "equating" /\ UNCHANGED ending
     \/ Sub(source, entry.from) # copy /\ Differs
  /\ UNCHANGED <<source, dest, asked, merging, entry, copy, emptying, visits, histories>>

\* Mutant: trees are not compared again.
AnyTrees(a, b) == TRUE
\* equalTree: the same names, kinds and contents.
EqualTrees(a, b) == a = b

\* then its comparison with what is public.
Equate ==
  /\ doing = "equating"
  /\ LET same == EqualTrees(Sub(source, entry.from), Sub(dest, entry.to)) IN
     \/ Fail
     \/ same /\ doing' = "removing" /\ UNCHANGED ending
     \/ ~same /\ Differs
  /\ UNCHANGED <<source, dest, asked, merging, entry, copy, emptying, visits, histories>>

-----------------------------------------------------------------------------
(* removeTree. *)

Top == Last(emptying)
\* The paths it may take next: the subtree itself, or a name of the innermost folder.
Due == IF emptying = <<>> THEN {entry.from} ELSE Top.names
\* The open folders with p taken from the names of the innermost one.
Rest(p) == IF emptying = <<>> THEN <<>> ELSE Append(Front(emptying), [Top EXCEPT !.names = @ \ {p}])

Removed == IF emptying' = <<>> THEN Either("picking") ELSE UNCHANGED <<doing, ending>>

\* A file is unlinked, whatever it is by now; a folder is listed first.
RemoveEntry ==
  /\ doing = "removing"
  /\ \E p \in Due \cap DOMAIN source :
       \/ /\ source[p] # Dir
          /\ source' = Cut(source, p) /\ emptying' = Rest(p) /\ Removed
       \/ /\ source[p] = Dir
          /\ emptying' = Append(Rest(p), [folder |-> p, names |-> Names(source, p)])
          /\ UNCHANGED <<source, doing, ending>>
  /\ UNCHANGED <<dest, asked, merging, entry, copy, visits, histories>>

\* A folder is removed when it is empty, which it need not be.
RemoveFolder ==
  /\ doing = "removing" /\ emptying # <<>> /\ Top.names = {} /\ Names(source, Top.folder) = {}
  /\ source' = Cut(source, Top.folder) /\ emptying' = Front(emptying) /\ Removed
  /\ UNCHANGED <<dest, asked, merging, entry, copy, visits, histories>>

RemovalFails ==
  /\ doing = "removing" /\ Fail
  /\ UNCHANGED <<source, dest, asked, merging, entry, copy, emptying, visits, histories>>

-----------------------------------------------------------------------------
(* merge: the entries of two folders, and its end. *)

Pick ==
  /\ doing = "picking"
  /\ \E p \in Last(merging).names :
       /\ entry' = [NoEntry EXCEPT !.from = p, !.to = p]
       /\ merging' = Append(Front(merging), [Last(merging) EXCEPT !.names = @ \ {p}])
  /\ doing' = "inspecting" /\ copy' = <<>>
  /\ UNCHANGED <<source, dest, asked, emptying, ending, visits, histories>>

\* What was skipped, or came since, keeps the source folder.
EndMerge ==
  LET p == Last(merging).folder IN
  /\ doing = "picking" /\ Last(merging).names = {}
  /\ \/ Fail /\ UNCHANGED <<source, merging>>
     \/ /\ source' = IF asked.move /\ Names(source, p) = {} THEN Cut(source, p) ELSE source
        /\ merging' = Front(merging)
        /\ \/ Fail
           \/ merging' # <<>> /\ UNCHANGED <<doing, ending>>
           \/ merging' = <<>> /\ doing' = "done" /\ ending' = "ok"
  /\ UNCHANGED <<dest, asked, entry, copy, emptying, visits, histories>>

-----------------------------------------------------------------------------

\* A file that arrives here is removed without a look: the subtree has been compared,
\* and its folder is not listed yet, or lists this name.
Exposed(p) ==
  /\ doing = "removing" /\ IsPrefix(entry.from, p)
  /\ \/ \A i \in DOMAIN emptying : emptying[i].folder # Front(p)
     \/ \E i \in DOMAIN emptying : p \in emptying[i].names

Places(t) == {Append(q, n) : q \in DOMAIN t, n \in Label}

MayPut(t, p) ==
  /\ p # <<>> /\ Front(p) \in DOMAIN t /\ t[Front(p)] = Dir
  /\ p \in DOMAIN t => t[p] # Dir

\* x comes to p, or what is at p is deleted.
Touched(t, p, x) == IF x = Nothing THEN Cut(t, p) ELSE Graft(t, p, File(x))

\* Others give up what was the last of its kind, or what a removal relies on.
Touch(here, p, x) ==
  LET t == IF here THEN source ELSE dest
      came == {x} \ {Nothing}
      lost == IF p \in DOMAIN t THEN {t[p]} ELSE {}
  IN
  /\ p \in Places(t) /\ MayPut(t, p) /\ (x = Nothing => p \in DOMAIN t)
  /\ source' = (IF here THEN Touched(source, p, x) ELSE source)
  /\ dest' = (IF here THEN dest ELSE Touched(dest, p, x))
  /\ known' = known \cup came
  /\ late' = IF here /\ Exposed(p) THEN late \cup came ELSE late
  /\ apart' = apart \cup lost \cup (IF here THEN came ELSE {})
  /\ given' = given \cup {y \in lost : doing = "removing" \/ y \notin Texts(source') \cup Texts(dest')}

\* Others create, replace or delete a file.
Visit ==
  /\ doing # "done" /\ visits < MaxVisits /\ visits' = visits + 1
  /\ \E here \in BOOLEAN, x \in (Fresh \ known) \cup {Nothing}, p \in Places(source) \cup Places(dest) :
       Touch(here, p, x)
  /\ UNCHANGED <<asked, doing, merging, entry, copy, emptying, ending, original>>

TreeNext ==
  \/ Inspect \/ Rename \/ CopyTree \/ PublishTree \/ CompareTree \/ Equate
  \/ RemoveEntry \/ RemoveFolder \/ RemovalFails \/ Pick \/ EndMerge \/ Visit

TreeSpec == TreeInit /\ [][TreeNext]_treeVars

-----------------------------------------------------------------------------

\* Wherever a copy, a merge or a removal stops, each text is still in one of the trees,
\* unless the policy or others gave it up or it came into a folder of the subtree after
\* the comparison and before that folder was listed; after that, it keeps the folder.
TreeSurvives == known \subseteq Texts(source) \cup Texts(dest) \cup given \cup late

\* A request that reports success has brought over every text of the source that was
\* not skipped or touched by others, and a move has left nothing else behind.
MergeIsComplete ==
  ending = "ok" =>
    /\ original \ apart \subseteq Texts(dest)
    /\ asked.move => Texts(source) \subseteq apart
=============================================================================
