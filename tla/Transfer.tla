------------------------------ MODULE Transfer -------------------------------
(***************************************************************************)
(* Copies and moves of one entry (Engine.transfer in internal/localfs/     *)
(* transfer.go), next to the uploads of Publish with which they share the  *)
(* staging folder and the publish protocol.  Names stand for paths in any  *)
(* folder; a rename between volumes fails with EXDEV, and a move then      *)
(* copies, publishes, compares and only then removes its source.           *)
(*                                                                         *)
(* snapshot() and same() compare change times too, so contents read while  *)
(* the source changes are always noticed: a copy holds what the inspected  *)
(* revision held, or it fails.                                             *)
(***************************************************************************)
EXTENDS Publish

CONSTANTS
  Mover,   \* the requests that copy or move; the others upload and edit
  Volume   \* Volume[n]: the filesystem name n is on

ASSUME TransferAssumption ==
  Mover \subseteq Worker /\ DOMAIN Volume = Name

VARIABLES
  source,  \* source[w]: the name w copies or moves
  policy,  \* policy[w]: the conflict policy
  before,  \* before[w]: the source revision w inspected
  copied,  \* copied[w]: the contents the file staged by w was copied from
  removed  \* history: removed[w], the revision w removed as its source

transferVars == <<source, policy, before, copied, removed>>
tvars == <<vars, transferVars>>

Policy == {"ask", "skip", "rename", "replace"}

\* What a file contains: a copy not written to since has its source's contents.
Contents(f) == IF f \in Worker /\ stamp[f] = 0 /\ copied[f] # NoRevision
               THEN copied[f] ELSE Revision(f)

Src(w) == dir[source[w]]
\* The source still is the entry that was inspected: snapshot() and same().
Unchanged(w) == Revision(Src(w)) = before[w]
IsMove(w) == task[w].kind = "move"

TInit ==
  /\ Init
  /\ source = [w \in Worker |-> CHOOSE n \in Name : TRUE]
  /\ policy = [w \in Worker |-> "ask"]
  /\ before = [w \in Worker |-> NoRevision]
  /\ copied = [w \in Worker |-> NoRevision]
  /\ removed = [w \in Worker |-> NoRevision]

RequestTransfer(w) ==
  /\ w \in Mover
  /\ Goto(w, "idle", "inspecting")
  /\ \E k \in {"copy", "move"}, s, n \in Name, p \in Policy :
       \E e \in {NoRevision, Revision(dir[n])} :
         /\ s # n
         /\ source' = [source EXCEPT ![w] = s]
         /\ policy' = [policy EXCEPT ![w] = p]
         /\ task' = [task EXCEPT ![w] = [kind |-> k, name |-> n, expected |-> e]]
  /\ UNCHANGED <<fsVars, holder, stage, opened, cancelled, outcome, before, copied,
                 removed>>

\* e.check, then src.stat.
InspectSource(w) ==
  /\ \/ w \in cancelled /\ Return(w, "inspecting", "cancelled")
     \/ w \notin cancelled /\ Src(w) = NoFile /\ Return(w, "inspecting", "failed")
     \/ /\ w \notin cancelled /\ Src(w) # NoFile
        /\ Goto(w, "inspecting", "resolving") /\ UNCHANGED outcome
  /\ before' = [before EXCEPT ![w] = Revision(Src(w))]
  /\ UNCHANGED <<fsVars, task, holder, stage, opened, cancelled, source, policy, copied,
                 removed>>

\* The user may replace f: by policy, or by naming exactly this revision.
Agreed(w, f) ==
  /\ policy[w] = "replace" \/ Expected(w) # NoRevision
  /\ Expected(w) # NoRevision => Expected(w) = Revision(f)

\* dst.stat and the conflict policy: skip, find a free name, or settle on the
\* revision that may be replaced.
ResolveDestination(w) ==
  LET f       == dir[task[w].name]
      aim(n, e) == /\ task' = [task EXCEPT ![w].name = n, ![w].expected = e]
                   /\ Goto(w, "resolving", IF IsMove(w) /\ e = NoRevision
                                           THEN "renaming" ELSE "staging")
                   /\ UNCHANGED outcome
      give(r) == Return(w, "resolving", r) /\ UNCHANGED task
  IN
  /\ \/ /\ f = NoFile /\ Expected(w) = NoRevision
        /\ aim(task[w].name, NoRevision)
     \/ /\ f = NoFile /\ Expected(w) # NoRevision
        /\ give("changed")
     \/ /\ f # NoFile /\ f = before[w][1]   \* moved there in the meantime
        /\ give("failed")
     \/ /\ f \notin {NoFile, before[w][1]} /\ policy[w] = "skip"
        /\ give("skipped")
     \/ /\ f \notin {NoFile, before[w][1]} /\ policy[w] = "rename"
        /\ \E n \in Name : /\ dir[n] = NoFile
                           /\ Volume[n] = Volume[task[w].name]
                           /\ aim(n, NoRevision)
     \/ /\ f \notin {NoFile, before[w][1]} /\ policy[w] \in {"ask", "replace"}
        /\ IF Agreed(w, f) THEN aim(task[w].name, Revision(f))
           ELSE give(IF Expected(w) = NoRevision THEN "exists" ELSE "changed")
  /\ UNCHANGED <<fsVars, holder, stage, opened, cancelled, transferVars>>

\* A move to a free name is one rename where the kernel can do it.
RenameSource(w) ==
  LET n == task[w].name IN
  /\ \/ /\ Volume[n] # Volume[source[w]]
        /\ Goto(w, "renaming", "staging")
        /\ UNCHANGED <<dir, outcome>>
     \/ /\ Volume[n] = Volume[source[w]]
        /\ Src(w) = NoFile \/ dir[n] # NoFile
        /\ Return(w, "renaming", "failed")
        /\ UNCHANGED dir
     \/ /\ Volume[n] = Volume[source[w]]
        /\ Src(w) # NoFile /\ dir[n] = NoFile
        /\ dir' = [dir EXCEPT ![n] = Src(w), ![source[w]] = NoFile]
        /\ \E r \in {"ok", "unsynced"} : Return(w, "renaming", r)
  /\ UNCHANGED <<stamp, complete, deleted, task, holder, stage, opened, cancelled,
                 transferVars>>

\* Copy between two snapshots of the source that must agree with the inspection.
CopySource(w) ==
  /\ w \in Mover
  /\ \/ /\ Unchanged(w)
        /\ Goto(w, "writing", "checking")
        /\ complete' = complete \cup {w}
        /\ copied' = [copied EXCEPT ![w] = Contents(Src(w))]
        /\ UNCHANGED outcome
     \/ /\ \/ ~Unchanged(w) /\ Return(w, "writing", "changed")
           \/ w \in cancelled /\ Return(w, "writing", "cancelled")
           \/ WriteFailed(w)
        /\ UNCHANGED <<complete, copied>>
  /\ UNCHANGED <<dir, stamp, deleted, task, holder, stage, opened, cancelled,
                 source, policy, before, removed>>

\* Parent sync and the "published" journal entry.  From here on an error keeps
\* the staging folder with its journal.
SyncTransfer(w) ==
  /\ w \in Mover
  /\ \/ Return(w, "syncing", "kept")
     \/ ~IsMove(w) /\ Return(w, "syncing", "ok")
     \/ IsMove(w) /\ Goto(w, "syncing", "comparing") /\ UNCHANGED outcome
  /\ UNCHANGED <<fsVars, task, holder, stage, opened, cancelled, transferVars>>

\* equalTree: both entries exist and hash to the same contents.
SameContents(w) ==
  LET copy == dir[task[w].name] IN
  Src(w) # NoFile /\ copy # NoFile /\ Contents(Src(w)) = Contents(copy)

\* A fresh snapshot of the source, then the comparison with the destination.
CompareSource(w) ==
  /\ IF Unchanged(w)
     THEN Goto(w, "comparing", "equating") /\ UNCHANGED outcome
     ELSE Return(w, "comparing", "kept")
  /\ UNCHANGED <<fsVars, task, holder, stage, opened, cancelled, transferVars>>

EquateTrees(w) ==
  /\ IF SameContents(w)
     THEN Goto(w, "equating", "removing") /\ UNCHANGED outcome
     ELSE Return(w, "equating", "kept")
  /\ UNCHANGED <<fsVars, task, holder, stage, opened, cancelled, transferVars>>

\* Mutant: a source that is gone already counts as removed.
SourceGoneAccepted(w) == Return(w, "removing", "ok")
SourceGone(w) == Return(w, "removing", "kept")

\* removeTree of the source by name, under the context (the control descriptor
\* is not asked any more); then the parent sync.
RemoveSource(w) ==
  /\ \/ /\ w \in cancelled
        /\ Return(w, "removing", "kept")
        /\ UNCHANGED <<dir, removed>>
     \/ /\ Src(w) = NoFile
        /\ SourceGone(w)
        /\ UNCHANGED <<dir, removed>>
     \/ /\ Src(w) # NoFile
        /\ dir' = [dir EXCEPT ![source[w]] = NoFile]
        /\ removed' = [removed EXCEPT ![w] = Revision(Src(w))]
        /\ \E r \in {"ok", "kept"} : Return(w, "removing", r)
  /\ UNCHANGED <<stamp, complete, deleted, task, holder, stage, opened, cancelled,
                 source, policy, before, copied>>

\* The steps of Publish, taken by either kind of request.
PublishStep(w) ==
  /\ \/ w \notin Mover /\ (Request(w) \/ WriteStaging(w) \/ SyncParent(w))
     \/ OpenOriginal(w) \/ LockOriginal(w) \/ CreateStaging(w) \/ FinalCheck(w)
     \/ PublishNew(w) \/ Compare(w) \/ Exchange(w) \/ Verify(w) \/ Recheck(w)
     \/ Restore(w) \/ Finish(w) \/ Cancel(w) \/ Kill(w)
  /\ UNCHANGED transferVars

TransferStep(w) ==
  \/ RequestTransfer(w) \/ InspectSource(w) \/ ResolveDestination(w)
  \/ RenameSource(w) \/ CopySource(w) \/ SyncTransfer(w) \/ CompareSource(w)
  \/ EquateTrees(w) \/ RemoveSource(w)

TNext ==
  \/ \E w \in Worker : PublishStep(w) \/ TransferStep(w)
  \/ (\E n \in Name : Delete(n)) /\ UNCHANGED transferVars
  \/ (\E f \in File : Touch(f)) /\ UNCHANGED transferVars

TSpec == TInit /\ [][TNext]_tvars

-----------------------------------------------------------------------------

\* What a move removes as its source is the very revision it copied and compared.
\* This may fail: removeTree looks at nothing again.
OnlyComparedRemoved ==
  \A w \in Mover : removed[w] \in {NoRevision, before[w]}

\* Unless that happens, contents that were there are still somewhere, or the file that held
\* them was deleted or knowingly replaced: no cancellation, kill, failed step or
\* racing request makes a move remove the last copy (nobody writes in place).
ContentsSurvive ==
  OnlyComparedRemoved =>
    \A o \in Original : \E f \in Original \cup complete :
      Contents(f) = <<o, 0>> /\ Accounted(f)

\* Two moves of one file from one name never both report success: the second
\* finds its source gone and keeps both copies.
MovedOnce ==
  \A v, w \in Mover :
    /\ v # w /\ IsMove(v) /\ IsMove(w) /\ outcome[v] = "ok" /\ outcome[w] = "ok"
    => ~(source[v] = source[w] /\ before[v] = before[w])

\* After a move or copy reports trouble past its publication, the journal and
\* the data it displaced are still in its staging folder.
TroubleKeepsAll ==
  \A w \in Mover : pc[w] = "done" /\ outcome[w] = "kept" =>
    /\ w \in holder
    /\ Expected(w) # NoRevision => stage[w] = Expected(w)[1]
=============================================================================
