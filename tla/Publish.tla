------------------------------- MODULE Publish -------------------------------
(***************************************************************************)
(* How internal/localfs puts a complete new file at a public name: Upload  *)
(* (content.go), ReplaceArchive (archive.go) and the publish protocol they *)
(* share with Transfer (transfer.go).  Every request runs in a worker      *)
(* process of its own; file.delete and other programs that write in place  *)
(* run next to them.                                                       *)
(*                                                                         *)
(* A file is an inode.  A worker creates at most one, so the file a worker *)
(* stages is named after it.  A file is in at most one place: a public     *)
(* name, or the "content" entry of one worker's private staging folder.    *)
(* The revision string hashes device, inode, mode, size and mtime: here it *)
(* is the inode and the number of in-place writes the inode has seen.      *)
(***************************************************************************)
EXTENDS Naturals

CONSTANTS
  Name,        \* public names of one directory
  Worker,      \* requests, and the files they stage
  Original,    \* files that exist before any request
  NoFile,      \* "no such entry"
  MaxTouches,  \* bound: in-place writes by other programs, per file
  Crashes,     \* TRUE: a worker may be killed with SIGKILL
  Deletable    \* bound: the names that file.delete may be asked to remove

ASSUME PublishAssumption ==
  /\ Name # {}
  /\ Worker \cap Original = {}
  /\ NoFile \notin Worker \cup Original
  /\ MaxTouches \in Nat
  /\ Crashes \in BOOLEAN
  /\ Deletable \subseteq Name

VARIABLES
  dir,       \* dir[n]: the file at name n
  stamp,     \* stamp[f]: in-place writes file f has seen
  complete,  \* files fully written and synced
  deleted,   \* files removed by file.delete
  pc,        \* where each worker stands
  task,      \* the request of each worker
  holder,    \* workers whose staging folder exists
  stage,     \* stage[w]: the file at "content" in the folder of w
  opened,    \* opened[w]: the file an edit has open, flocked after "locking"
  cancelled, \* workers whose context is cancelled
  outcome    \* the result each worker replies with

fsVars     == <<dir, stamp, complete, deleted>>
workerVars == <<pc, task, holder, stage, opened, cancelled, outcome>>
vars       == <<fsVars, workerVars>>

File  == Original \cup Worker
Entry == File \cup {NoFile}
Kind  == {"upload", "edit", "copy", "move"}

Revision(f) == <<f, stamp[f]>>
NoRevision  == <<NoFile, 0>>   \* the empty "expected" string
Task == [kind : Kind, name : Name, expected : Entry \X (0 .. MaxTouches)]

\* The places of a worker, in the order of the code.
Staging    == {"opening", "locking", "staging", "writing", "checking"}
Publishing == {"publishing", "exchanging", "verifying", "rechecking",
               "restoring"}
Transferring == {"inspecting", "resolving", "renaming", "comparing",
                 "equating", "removing"}
Active     == Staging \cup Publishing \cup Transferring
              \cup {"syncing", "cleaning"}
Place      == Active \cup {"idle", "done", "killed"}
Outcome    == {"none", "ok", "busy", "failed", "cancelled", "changed",
               "exists", "rolledback", "uncertain", "unsynced", "skipped",
               "kept"}

Expected(w) == task[w].expected
\* Mutant: nothing is ever preserved.
KeptNever(w) == FALSE
\* Mutant: ReplaceArchive does not ask to preserve when the sync of the folder failed.
KeptUncertain(w) == outcome[w] \in {"uncertain", "kept"}
\* What is in the staging folder is left there.
Kept(w) == \/ outcome[w] \in {"uncertain", "kept"}
           \/ outcome[w] = "unsynced" /\ task[w].kind = "edit"
\* What stage.stat() gave: nobody else writes a file before it is published.
Staged(w) == <<w, 0>>
\* A file in some directory entry has a link, nlink = 1.
Linked(f) == (\E n \in Name : dir[n] = f) \/ (\E w \in Worker : stage[w] = f)

Goto(w, from, to) == pc[w] = from /\ pc' = [pc EXCEPT ![w] = to]

\* Reply r; the deferred removeTree of the staging folder runs on the way out.
Return(w, from, r) ==
  /\ Goto(w, from, "cleaning")
  /\ outcome' = [outcome EXCEPT ![w] = r]

Init ==
  /\ dir \in [Name -> Original \cup {NoFile}]
  /\ \A m, n \in Name : dir[m] = dir[n] /\ m # n => dir[m] = NoFile
  /\ \A f \in Original : \E n \in Name : dir[n] = f
  /\ stamp = [f \in Entry |-> 0]
  /\ complete = Original
  /\ deleted = {}
  /\ pc = [w \in Worker |-> "idle"]
  /\ task = [w \in Worker |-> [kind |-> "upload", name |-> CHOOSE n \in Name : TRUE,
                               expected |-> NoRevision]]
  /\ holder = {}
  /\ stage = [w \in Worker |-> NoFile]
  /\ opened = [w \in Worker |-> NoFile]
  /\ cancelled = {}
  /\ outcome = [w \in Worker |-> "none"]

\* The user looks at the folder and asks for an upload to a free name, for one
\* that replaces the revision seen, or for an edit of the revision seen.
Request(w) ==
  /\ \E k \in {"upload", "edit"}, n \in Name :
       \E e \in {NoRevision, Revision(dir[n])} :
         /\ k = "edit" => e # NoRevision
         /\ task' = [task EXCEPT ![w] = [kind |-> k, name |-> n, expected |-> e]]
         /\ Goto(w, "idle", IF k = "edit" THEN "opening" ELSE "staging")
  /\ UNCHANGED <<fsVars, holder, stage, opened, cancelled, outcome>>

\* ReplaceArchive opens the file before it locks it: the name may move on.
OpenOriginal(w) ==
  LET f == dir[task[w].name] IN
  /\ \/ f # NoFile /\ Goto(w, "opening", "locking") /\ UNCHANGED outcome
     \/ f = NoFile /\ Return(w, "opening", "failed")
  /\ opened' = [opened EXCEPT ![w] = f]
  /\ UNCHANGED <<fsVars, task, holder, stage, cancelled>>

HasLock(w) == opened[w] # NoFile
              /\ pc[w] \in Active \ {"opening", "locking"}

\* Flock without waiting, then compare the open file with the revision to replace.
LockOriginal(w) ==
  LET f    == opened[w]
      busy == \E v \in Worker \ {w} : opened[v] = f /\ HasLock(v)
      good == Revision(f) = Expected(w) /\ Linked(f)
  IN
  /\ \/ busy /\ Return(w, "locking", "busy")
     \/ ~busy /\ ~good /\ Return(w, "locking", "changed")
     \/ ~busy /\ good /\ Goto(w, "locking", "staging") /\ UNCHANGED outcome
  /\ opened' = IF busy THEN [opened EXCEPT ![w] = NoFile] ELSE opened
  /\ UNCHANGED <<fsVars, task, holder, stage, cancelled>>

\* Make the private folder and create "content" in it.  When the folder cannot
\* be made, or cannot be opened once made, nothing is there to clean it up yet.
CreateStaging(w) ==
  /\ \/ /\ Goto(w, "staging", "writing")
        /\ holder' = holder \cup {w}
        /\ stage' = [stage EXCEPT ![w] = w]
        /\ UNCHANGED outcome
     \/ /\ Goto(w, "staging", "done")
        /\ holder' \in {holder, holder \cup {w}}
        /\ outcome' = [outcome EXCEPT ![w] = "failed"]
        /\ UNCHANGED stage
  /\ UNCHANGED <<fsVars, task, opened, cancelled>>

\* Mutant: a short or failed body goes on as if it were complete.
WriteFailedIgnored(w) == Goto(w, "writing", "checking") /\ UNCHANGED outcome
WriteFailed(w) == Return(w, "writing", "failed")

\* All chunks arrive, the size is exact, the file is synced; or one of these
\* fails.  Upload polls for a cancellation before every chunk, an edit does not.
WriteStaging(w) ==
  /\ \/ /\ Goto(w, "writing", "checking")
        /\ complete' = complete \cup {w}
        /\ UNCHANGED outcome
     \/ WriteFailed(w) /\ UNCHANGED complete
     \/ /\ w \in cancelled /\ task[w].kind = "upload"
        /\ Return(w, "writing", "cancelled")
        /\ UNCHANGED complete
  /\ UNCHANGED <<dir, stamp, deleted, task, holder, stage, opened, cancelled>>

\* The last check before anything public changes.
FinalCheck(w) ==
  /\ IF w \in cancelled
     THEN Return(w, "checking", "cancelled")
     ELSE Goto(w, "checking", "publishing") /\ UNCHANGED outcome
  /\ UNCHANGED <<fsVars, task, holder, stage, opened, cancelled>>

\* publish(), nothing expected: rename without replacing.  Otherwise on to the
\* comparison of the destination with the revision to replace.
PublishNew(w) ==
  LET n == task[w].name IN
  /\ Expected(w) = NoRevision
  /\ \/ /\ dir[n] = NoFile
        /\ Goto(w, "publishing", "syncing")
        /\ dir' = [dir EXCEPT ![n] = stage[w]]
        /\ stage' = [stage EXCEPT ![w] = NoFile]
        /\ UNCHANGED outcome
     \/ /\ dir[n] # NoFile
        /\ Return(w, "publishing", "exists")
        /\ UNCHANGED <<dir, stage>>
  /\ UNCHANGED <<stamp, complete, deleted, task, holder, opened, cancelled>>

Compare(w) ==
  /\ Expected(w) # NoRevision
  /\ IF Revision(dir[task[w].name]) = Expected(w)
     THEN Goto(w, "publishing", "exchanging") /\ UNCHANGED outcome
     ELSE Return(w, "publishing", "changed")
  /\ UNCHANGED <<fsVars, task, holder, stage, opened, cancelled>>

\* Mutant: a plain rename, which drops the displaced file.
SwapOver(w) ==
  /\ dir' = [dir EXCEPT ![task[w].name] = stage[w]]
  /\ stage' = [stage EXCEPT ![w] = NoFile]
\* rename(RENAME_EXCHANGE): the two entries swap, both must exist.
Swap(w) ==
  LET n == task[w].name IN
  /\ dir' = [dir EXCEPT ![n] = stage[w]]
  /\ stage' = [stage EXCEPT ![w] = dir[n]]

Exchange(w) ==
  /\ \/ /\ dir[task[w].name] # NoFile
        /\ Goto(w, "exchanging", "verifying")
        /\ Swap(w)
        /\ UNCHANGED outcome
     \/ /\ dir[task[w].name] = NoFile
        /\ Return(w, "exchanging", "failed")
        /\ UNCHANGED <<dir, stage>>
  /\ UNCHANGED <<stamp, complete, deleted, task, holder, opened, cancelled>>

\* Mutant: the comparison before the exchange is taken to be enough.
RightOneAssumed(w) == TRUE
RightOne(w) == Revision(stage[w]) = Expected(w)

\* Is the file that came back the one the user agreed to replace?
Verify(w) ==
  /\ Goto(w, "verifying", IF RightOne(w) THEN "syncing" ELSE "rechecking")
  /\ UNCHANGED <<fsVars, task, holder, stage, opened, cancelled, outcome>>

\* Mutant: wait for the destination to hold its own file again.
RecheckWaits(w) ==
  /\ Revision(dir[task[w].name]) = Staged(w)
  /\ Goto(w, "rechecking", "restoring")
  /\ UNCHANGED <<fsVars, task, holder, stage, opened, cancelled, outcome>>
\* No: undo, if the destination still holds what was just put there.
Recheck(w) ==
  /\ IF Revision(dir[task[w].name]) = Staged(w)
     THEN Goto(w, "rechecking", "restoring") /\ UNCHANGED outcome
     ELSE Return(w, "rechecking", "uncertain")
  /\ UNCHANGED <<fsVars, task, holder, stage, opened, cancelled>>

\* Mutant: the rollback is reported but not made.
RestoreNothing(w) ==
  /\ Return(w, "restoring", "rolledback")
  /\ UNCHANGED <<fsVars, task, holder, stage, opened, cancelled>>
Restore(w) ==
  /\ \/ /\ dir[task[w].name] # NoFile
        /\ Return(w, "restoring", "rolledback")
        /\ Swap(w)
     \/ /\ dir[task[w].name] = NoFile
        /\ Return(w, "restoring", "uncertain")
        /\ UNCHANGED <<dir, stage>>
  /\ UNCHANGED <<stamp, complete, deleted, task, holder, opened, cancelled>>

\* Sync of the parent directory, which may fail after the file went public.
SyncParent(w) ==
  /\ \E r \in {"ok", "unsynced"} : Return(w, "syncing", r)
  /\ UNCHANGED <<fsVars, task, holder, stage, opened, cancelled>>

\* The process ends: its staging folder goes unless it must be kept, and its
\* lock is released with its descriptors.
Finish(w) ==
  /\ Goto(w, "cleaning", "done")
  /\ IF Kept(w)
     THEN UNCHANGED <<holder, stage>>
     ELSE /\ holder' = holder \ {w}
          /\ stage' = [stage EXCEPT ![w] = NoFile]
  /\ UNCHANGED <<fsVars, task, opened, cancelled, outcome>>

\* SIGTERM, or the control descriptor closed.
Cancel(w) ==
  /\ pc[w] \in Active /\ w \notin cancelled
  /\ cancelled' = cancelled \cup {w}
  /\ UNCHANGED <<fsVars, pc, task, holder, stage, opened, outcome>>

\* SIGKILL: the folder stays, the lock goes.
Kill(w) ==
  /\ Crashes
  /\ pc[w] \in Active
  /\ pc' = [pc EXCEPT ![w] = "killed"]
  /\ UNCHANGED <<fsVars, task, holder, stage, opened, cancelled, outcome>>

\* file.delete of a file: unlink by name.
Delete(n) ==
  /\ n \in Deletable
  /\ dir[n] # NoFile
  /\ dir' = [dir EXCEPT ![n] = NoFile]
  /\ deleted' = deleted \cup {dir[n]}
  /\ UNCHANGED <<stamp, complete, workerVars>>

\* Another program writes in place, through the name or a descriptor it has
\* held since the file was public.
Touch(f) ==
  /\ stamp[f] < MaxTouches
  /\ \/ \E n \in Name : dir[n] = f
     \/ \E w \in Worker : stage[w] = f /\ f # w
  /\ stamp' = [stamp EXCEPT ![f] = @ + 1]
  /\ UNCHANGED <<dir, complete, deleted, workerVars>>

Step(w) ==
  \/ OpenOriginal(w) \/ LockOriginal(w) \/ CreateStaging(w) \/ WriteStaging(w)
  \/ FinalCheck(w) \/ PublishNew(w) \/ Compare(w) \/ Exchange(w) \/ Verify(w)
  \/ Recheck(w) \/ Restore(w) \/ SyncParent(w) \/ Finish(w)

Next ==
  \/ \E w \in Worker : Request(w) \/ Step(w) \/ Cancel(w) \/ Kill(w)
  \/ \E n \in Name : Delete(n)
  \/ \E f \in File : Touch(f)

Spec == Init /\ [][Next]_vars

\* A live process is scheduled and its system calls return.
FairSpec == Spec /\ \A w \in Worker : WF_vars(Step(w))

-----------------------------------------------------------------------------

TypeOK ==
  /\ dir \in [Name -> Entry]
  /\ stamp \in [Entry -> 0 .. MaxTouches]
  /\ complete \subseteq File
  /\ deleted \subseteq File
  /\ pc \in [Worker -> Place]
  /\ task \in [Worker -> Task]
  /\ holder \subseteq Worker
  /\ stage \in [Worker -> Entry]
  /\ opened \in [Worker -> Entry]
  /\ cancelled \subseteq Worker
  /\ outcome \in [Worker -> Outcome]

\* The worker has replied that its file went public.
Published(w) == outcome[w] \in {"ok", "unsynced"}

\* Only a complete, synced upload is ever visible at a public name (publish is
\* reached only after the exact size was read and the file was synced).
OnlyCompletePublic ==
  \A n \in Name : dir[n] # NoFile => dir[n] \in complete

\* Of the requests that agreed to replace the same revision of a name at most
\* one succeeds, and of those that asked for a new file at a name also one,
\* as long as nobody deletes files (publish: compare, exchange, verify).
OneWinner ==
  \A v, w \in Worker :
    /\ v # w /\ Published(v) /\ Published(w)
    /\ task[v].name = task[w].name /\ Expected(v) = Expected(w)
    => Expected(v) = NoRevision /\ deleted # {}

\* The file is still in some directory, or a user asked for it to go.
Accounted(f) ==
  \/ Linked(f)
  \/ f \in deleted
  \/ \E w \in Worker : Published(w) /\ Expected(w)[1] = f

\* A file that was there, or was reported as uploaded, disappears only through
\* a deletion or a replacement of exactly that file (publish and its rollback).
NothingLost ==
  \A f \in Original \cup {w \in Worker : Published(w)} : Accounted(f)

\* With any number of requests, crashes and programs that write in place, a
\* file can be lost only after some request has rolled its exchange back.
LossNeedsRollback ==
  (\A w \in Worker : outcome[w] # "rolledback") => NothingLost

\* A request that reports a plain failure, a cancellation or a rollback has
\* left nothing of its own outside its staging folder.
FailureHarmless ==
  \A w \in Worker :
    outcome[w] \in {"busy", "failed", "cancelled", "changed", "exists", "rolledback"}
    => /\ \A n \in Name : dir[n] # w
       /\ \A v \in Worker \ {w} : stage[v] # w

\* A finished request leaves a staged file behind only to retain previous data.  It
\* retains what it displaced whenever it reports an unverified replacement, and an edit
\* the file it replaced when the sync of the folder failed: an upload does not.
OnlyPreviousRetained ==
  \A w \in Worker : pc[w] = "done" =>
    /\ stage[w] # NoFile => Kept(w) /\ stage[w] # w
    /\ outcome[w] = "uncertain" => stage[w] # NoFile
    /\ outcome[w] = "unsynced" /\ task[w].kind = "edit" => stage[w] = Expected(w)[1]

\* Every request that nobody kills comes to an end: no step waits for another
\* worker, and a rollback is tried once.
Terminates ==
  \A w \in Worker : pc[w] \in Active ~> pc[w] \in {"done", "killed"}

-----------------------------------------------------------------------------
(* The strengthening that makes the invariants above inductive. *)

\* Workers whose file does not exist yet (here or in Transfer); no file is created twice.
Unborn == {w \in Worker : pc[w] \in {"idle", "opening", "locking", "staging", "inspecting",
                                      "resolving", "renaming"}}

OnlyBorn ==
  /\ \A n \in Name : dir[n] \notin Unborn
  /\ \A w \in Worker : stage[w] \notin Unborn
  /\ \A w \in Worker : Expected(w)[1] \notin Unborn
  /\ \A w \in Unborn : stage[w] = NoFile

\* A file is an entry of at most one directory.
OnePlace ==
  /\ \A m, n \in Name : dir[m] = dir[n] /\ m # n => dir[m] = NoFile
  /\ \A v, w \in Worker : stage[v] = stage[w] /\ v # w => stage[v] = NoFile
  /\ \A n \in Name, w \in Worker : dir[n] = stage[w] => dir[n] = NoFile

\* The request of w took effect (of a transfer, in Transfer, too).
Won(w) == \/ pc[w] \in {"syncing", "comparing", "equating", "removing"}
          \/ outcome[w] \in {"ok", "unsynced", "kept"}

\* What a worker has in its staging folder at each place of the protocol.
OwnStage(w) ==
  /\ pc[w] \in {"writing", "checking", "publishing", "exchanging"} => stage[w] = w
  /\ pc[w] \in Publishing \cup {"checking", "syncing", "comparing", "equating", "removing"}
       => w \in complete
  /\ stage[w] \notin {w, NoFile} => stage[w] \in complete
  /\ pc[w] \in {"verifying", "rechecking", "restoring"} => stage[w] \notin {w, NoFile}
  /\ pc[w] \notin {"cleaning", "done", "killed"} => outcome[w] = "none"
  /\ pc[w] = "cleaning" => outcome[w] # "none"
  /\ outcome[w] = "uncertain" => stage[w] \notin {w, NoFile}
  /\ Won(w) => stage[w] # w
  /\ Won(w) /\ Expected(w) = NoRevision => stage[w] = NoFile
  /\ outcome[w] \in {"busy", "failed", "cancelled", "changed", "exists", "skipped"}
       => stage[w] \in {w, NoFile}
  /\ pc[w] = "renaming" => Expected(w) = NoRevision

Nowhere(f) == ~Linked(f)

\* What a successful replacement displaced is in its staging folder, or gone.
Displaced(w) ==
  Won(w) /\ Expected(w) # NoRevision =>
    \/ stage[w] = Expected(w)[1]
    \/ pc[w] = "done" /\ Nowhere(Expected(w)[1])

\* A revision with the "no file" inode is the empty revision.
EmptyRevision ==
  /\ stamp[NoFile] = 0
  /\ \A w \in Worker : Expected(w)[1] = NoFile => Expected(w) = NoRevision

\* What uploads, edits and transfers all keep.
Base ==
  /\ OnlyBorn /\ OnePlace /\ OnlyCompletePublic /\ EmptyRevision
  /\ \A w \in Worker : OwnStage(w) /\ Displaced(w)

\* A name given to a new file stays in use until something is deleted.
Occupied(w) ==
  Won(w) /\ Expected(w) = NoRevision /\ deleted = {} => dir[task[w].name] # NoFile

Rivals ==
  \A v, w \in Worker :
    v # w /\ Won(v) /\ Won(w) /\ Expected(v) = Expected(w) =>
      /\ Expected(v) = NoRevision
      /\ task[v].name = task[w].name => deleted # {}

\* What NothingLost counts, from the moment a file is public.
Out(w) == pc[w] \in {"verifying", "rechecking", "restoring"} \/ Won(w)
Conserved ==
  (\A w \in Worker : outcome[w] # "rolledback") =>
    /\ \A f \in Original : Accounted(f)
    /\ \A w \in Worker : Out(w) => Accounted(w)

\* Holds in every reachable state and is kept by every step.
IInv ==
  /\ Base /\ Rivals /\ OnlyPreviousRetained /\ Conserved
  /\ \A w \in Worker : Occupied(w)

=============================================================================
