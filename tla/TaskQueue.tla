------------------------------ MODULE TaskQueue ------------------------------
(***************************************************************************)
(* The background queue of the browser (frontend/uploads.ts): batches of   *)
(* uploads, copies and moves, or deletions, run one item after the other,  *)
(* asking the user about names that are taken, against a server whose      *)
(* answers may be lost and a folder that others change.                    *)
(*                                                                         *)
(* One step is what runs between two awaits.  A file is its own revision,  *)
(* the one that item i of task t makes is <<t, i>>; a path is its name in  *)
(* the one destination folder, on local storage.  The server does each     *)
(* upload or job in one step, as Publish and Transfer show.  Folders that  *)
(* merge, archives, progress and the texts of errors are left out.         *)
(***************************************************************************)
EXTENDS Naturals, Sequences

CONSTANTS
  Items, Kinds,  \* for each task the names of its items, and the kinds it may have
  Name,          \* names in the destination folder
  Foreign,       \* files of others
  Fixed,         \* those that cannot be replaced: links, folders
  NoFile,
  Before,        \* the folders a run may start with
  MaxTrouble     \* bound on steps of others, lost answers and ends of the session

Task == DOMAIN Items  \* in the order they are enqueued
Work == UNION {{<<t, i>> : i \in 1..Len(Items[t])} : t \in Task}
File == Foreign \cup Work
Mode == {"replace", "rename", "skip"}

ASSUME QueueAssumption ==
  /\ Items \in Seq(Seq(Name)) /\ \A t \in Task : Items[t] # <<>>
  /\ Kinds \in [Task -> SUBSET {"upload", "copy", "delete"}]
  /\ Fixed \subseteq Foreign /\ Foreign \cap Work = {} /\ NoFile \notin File
  /\ Before \subseteq [Name -> Foreign \cup {NoFile}]
  /\ MaxTrouble \in Nat

VARIABLES
  kind, status, cancelled, preference, tally,  \* of each task
  queue,                                       \* tasks to run, the first one runs
  pc, item, name, forced, retry, shown,        \* locals of the task that runs
  alive,                                       \* sessionAlive
  dest, work, order,                           \* the server: folder and requests
  trouble,                                     \* counts towards MaxTrouble
  consent, blanket,                            \* history: what the user said
  loose                                        \* history: requests nobody waits for

taskVars == <<kind, status, cancelled, preference, tally, queue>>
runVars  == <<pc, item, name, forced, retry, shown>>
userVars == <<consent, blanket>>
vars == <<taskVars, runVars, alive, dest, work, order, trouble, userVars, loose>>

Ended == {"succeeded", "failed", "cancelled"}

Runs(t)  == queue # <<>> /\ Head(queue) = t
At(t, a) == Runs(t) /\ pc = a
Me(t)    == <<t, item>>

Over    == {"done", "failed", "cancelled", "refused"}
Pending == {"sent", "busy", "stopping"}

NoOrder  == [name |-> NoFile, revision |-> NoFile, mode |-> "none"]

Init ==
  /\ kind \in [Task -> {"upload", "copy", "delete"}] /\ \A t \in Task : kind[t] \in Kinds[t]
  /\ status = [t \in Task |-> "new"]
  /\ cancelled = [t \in Task |-> FALSE]
  /\ preference = [t \in Task |-> "none"]
  /\ tally = [t \in Task |-> [processed |-> 0, completed |-> 0, skipped |-> 0, errors |-> 0]]
  /\ queue = <<>>
  /\ pc = "next" /\ item = 1 /\ forced = FALSE /\ retry = FALSE /\ shown = NoFile
  /\ name = NoFile
  /\ alive = TRUE
  /\ dest \in Before
  /\ work = [w \in Work |-> "none"]
  /\ order = [w \in Work |-> NoOrder]
  /\ trouble = 0
  /\ consent = [w \in Work |-> {}] /\ blanket = {}
  /\ loose = {}

-----------------------------------------------------------------------------
(* Tasks and their items. *)

Enqueue(t) ==
  /\ status[t] = "new" /\ alive
  /\ \A s \in Task : s < t => status[s] # "new"
  /\ status' = [status EXCEPT ![t] = "queued"]
  /\ queue' = Append(queue, t)
  /\ \E m \in Mode \cup {"none"} :
       /\ kind[t] # "copy" => m = "none"
       /\ preference' = [preference EXCEPT ![t] = m]
       /\ blanket' = IF m = "replace" THEN blanket \cup {t} ELSE blanket
  /\ UNCHANGED <<kind, cancelled, tally, runVars, alive, dest, work, order, trouble, consent, loose>>

\* The loop over the items, and the end of the batch.
NextItem(t) ==
  /\ At(t, "next")
  /\ IF cancelled[t] \/ item > Len(Items[t])
     THEN /\ status' = [status EXCEPT ![t] =
                IF cancelled[t] THEN "cancelled" ELSE IF tally[t].errors > 0 THEN "failed" ELSE "succeeded"]
          /\ queue' = Tail(queue)
          /\ item' = 1
          /\ UNCHANGED <<pc, name, forced, retry, shown>>
     ELSE /\ status' = [status EXCEPT ![t] = "running"]
          /\ pc' = IF kind[t] = "delete" THEN "planning" ELSE "listing"
          /\ name' = Items[t][item]
          /\ UNCHANGED <<queue, item, forced, retry, shown>>
  /\ UNCHANGED <<kind, cancelled, preference, tally, alive, dest, work, order, trouble, userVars, loose>>

\* The item is over: it counts as processed, and in the fields given.
EndItem(t, fields) ==
  /\ pc' = "next" /\ item' = item + 1
  /\ tally' = [tally EXCEPT ![t] = [f \in DOMAIN @ |-> IF f \in fields \cup {"processed"} THEN @[f] + 1 ELSE @[f]]]
  /\ name' = NoFile /\ forced' = FALSE /\ retry' = FALSE /\ shown' = NoFile
\* An exception is an error of the item, unless the task is cancelled.
Fail(t) == EndItem(t, IF cancelled[t] THEN {} ELSE {"errors"})
\* So is an answer that never comes.
Lost == trouble < MaxTrouble /\ trouble' = trouble + 1

\* The browser has its answer, or gives the request up.
Forget(w)  == work' = [work EXCEPT ![w] = IF @ \in Over THEN "none" ELSE @]
Taken(w)   == Forget(w) /\ UNCHANGED loose
Abandon(w) == Forget(w) /\ loose' = IF work[w] \in Over THEN loose ELSE loose \cup {w}

\* Mutant: an item skipped when its upload is repeated counts as completed too.
SkipTwice(t) == EndItem(t, IF retry THEN {"skipped", "completed"} ELSE {"skipped"})
Skip(t) == EndItem(t, {"skipped"})

\* The destination is settled: send the upload, or plan the job.
Proceed(t, revision) ==
  /\ order' = [order EXCEPT ![Me(t)] = [name |-> name, revision |-> revision, mode |-> preference'[t]]]
  /\ IF kind[t] = "upload"
     THEN pc' = "uploading" /\ work' = [work EXCEPT ![Me(t)] = "busy"]
     ELSE pc' = "planning" /\ UNCHANGED work
  /\ shown' = NoFile /\ UNCHANGED <<tally, item, name, forced, retry>>

TryName(n) ==
  /\ name' = n /\ forced' = TRUE /\ pc' = "listing" /\ shown' = NoFile
  /\ UNCHANGED <<tally, item, retry>>

Replaceable(f) == f \notin Fixed
\* The preference of the task decides, unless the user must be asked.
Decided(t, f) ==
  /\ preference[t] # "none" /\ ~forced
  /\ preference[t] = "replace" => Replaceable(f)

\* What a listing of the destination makes of the name that is wanted.
List(t) ==
  LET there == dest[name] IN
  /\ At(t, "listing")
  /\ UNCHANGED preference
  /\ \/ Fail(t) /\ UNCHANGED <<status, order, work>>
     \/ /\ ~cancelled[t] /\ there = NoFile
        /\ Proceed(t, NoFile) /\ UNCHANGED status
     \/ /\ ~cancelled[t] /\ there # NoFile /\ Decided(t, there)
        /\ \/ preference[t] = "skip" /\ Skip(t) /\ UNCHANGED <<order, work>>
           \/ preference[t] = "replace" /\ Proceed(t, there)
           \/ /\ preference[t] = "rename"
              /\ \E n \in Name : dest[n] = NoFile /\ TryName(n)
              /\ UNCHANGED <<order, work>>
        /\ UNCHANGED status
     \/ /\ ~cancelled[t] /\ there # NoFile /\ ~Decided(t, there)
        /\ pc' = "deciding" /\ shown' = there
        /\ status' = [status EXCEPT ![t] = "waiting"]
        /\ UNCHANGED <<tally, item, name, forced, retry, order, work>>
  /\ UNCHANGED <<kind, cancelled, queue, alive, dest, trouble, userVars, loose>>

\* Mutant: every answer is for the rest of the batch.
RememberAlways(t, m, all) == preference' = [preference EXCEPT ![t] = m]
Remember(t, m, all) == preference' = [preference EXCEPT ![t] = IF all THEN m ELSE @]

\* The user's answer, given for what was shown.
Answer(t) ==
  /\ At(t, "deciding")
  /\ status' = [status EXCEPT ![t] = "running"]
  /\ \E m \in Mode, all \in BOOLEAN :
       /\ Remember(t, m, all)
       /\ consent' = [consent EXCEPT ![Me(t)] = IF m = "replace" THEN @ \cup {shown} ELSE @]
       /\ blanket' = IF m = "replace" /\ all THEN blanket \cup {t} ELSE blanket
       /\ \/ /\ cancelled[t] \/ m = "skip"
             /\ IF cancelled[t] THEN EndItem(t, {}) ELSE Skip(t)
             /\ UNCHANGED <<order, work>>
          \/ ~cancelled[t] /\ m = "replace" /\ Replaceable(shown) /\ Proceed(t, shown)
          \/ /\ ~cancelled[t] /\ m = "replace" /\ ~Replaceable(shown)
             /\ Fail(t) /\ UNCHANGED <<order, work>>
          \/ /\ ~cancelled[t] /\ m = "rename" /\ \E n \in Name : TryName(n)
             /\ UNCHANGED <<order, work>>
  /\ UNCHANGED <<kind, cancelled, queue, alive, dest, trouble, loose>>

-----------------------------------------------------------------------------
(* Uploads. *)

\* 204, 409, or something that is no answer.  After a 409 the folder decides.
UploadAnswer(t) ==
  /\ At(t, "uploading")
  /\ \/ work[Me(t)] = "done" /\ EndItem(t, {"completed"}) /\ Taken(Me(t)) /\ UNCHANGED trouble
     \/ /\ work[Me(t)] = "failed" /\ ~retry
        /\ pc' = "relisting" /\ Taken(Me(t))
        /\ UNCHANGED <<tally, item, name, forced, retry, shown, trouble>>
     \/ work[Me(t)] = "failed" /\ Fail(t) /\ Taken(Me(t)) /\ UNCHANGED trouble
     \/ Lost /\ Fail(t) /\ Abandon(Me(t))
  /\ UNCHANGED <<kind, status, cancelled, preference, queue, alive, dest, order, userVars>>

Relist(t) ==
  /\ At(t, "relisting")
  /\ \/ Fail(t)
     \/ /\ ~cancelled[t] /\ dest[name] # NoFile
        /\ pc' = "listing" /\ forced' = TRUE /\ retry' = TRUE
        /\ UNCHANGED <<tally, item, name, shown>>
  /\ UNCHANGED <<kind, status, cancelled, preference, queue, alive, dest, work, order, trouble, userVars, loose>>

-----------------------------------------------------------------------------
(* Jobs. *)

\* Mutant: the task is not asked again before its job is started.
AlwaysMayRun(t) == TRUE
MayRun(t) == ~cancelled[t]

\* operations.Plan: a revision to replace must be the one that is there, if any is.
Planned(w) ==
  LET there == dest[order[w].name] IN
  kind[w[1]] = "copy" /\ order[w].revision # NoFile => there \in {NoFile, order[w].revision}

Plan(t) ==
  /\ At(t, "planning")
  /\ \/ Fail(t) /\ UNCHANGED work
     \/ /\ MayRun(t) /\ Planned(Me(t))
        /\ pc' = "starting" /\ work' = [work EXCEPT ![Me(t)] = "sent"]
        /\ UNCHANGED <<tally, item, name, forced, retry, shown>>
  /\ UNCHANGED <<kind, status, cancelled, preference, queue, alive, dest, order, trouble, userVars, loose>>

\* The answer to "run": a job, a refusal, or nothing that tells which.
Started(t) ==
  /\ At(t, "starting")
  /\ \/ /\ work[Me(t)] \notin {"sent", "refused"} /\ pc' = "polling"
        /\ UNCHANGED <<tally, item, name, forced, retry, shown, work, loose, trouble>>
     \/ work[Me(t)] = "refused" /\ Fail(t) /\ Taken(Me(t)) /\ UNCHANGED trouble
     \/ Lost /\ Fail(t) /\ Abandon(Me(t))
  /\ UNCHANGED <<kind, status, cancelled, preference, queue, alive, dest, order, userVars>>

\* Mutant: a job that was asked to stop is not waited for.
JobOverSoon(w) == work[w] \in {"done", "failed", "cancelled", "stopping"}
JobOver(w) == work[w] \in {"done", "failed", "cancelled"}

\* waitJob: a poll that fails is repeated, a job that stays missing is given up, and
\* so is any when the session ends.
Poll(t) ==
  LET w == Me(t) IN
  /\ At(t, "polling")
  /\ \/ /\ alive /\ JobOver(w) /\ Taken(w)
        /\ IF work[w] = "done" THEN EndItem(t, {"completed"}) ELSE Fail(t)
        /\ UNCHANGED trouble
     \/ /\ alive /\ work[w] = "busy" /\ cancelled[t]
        /\ work' = [work EXCEPT ![w] = "stopping"]
        /\ UNCHANGED <<pc, tally, item, name, forced, retry, shown, loose, trouble>>
     \/ /\ IF alive THEN Lost ELSE UNCHANGED trouble
        /\ Fail(t) /\ Abandon(w)
  /\ UNCHANGED <<kind, status, cancelled, preference, queue, alive, dest, order, userVars>>

-----------------------------------------------------------------------------
(* Cancellation and the end of the session. *)

\* Mutant: a conflict that waits for its answer is not resolved.
LeaveWaiting(t) == UNCHANGED <<runVars, tally>>
\* decide({ mode: "skip" }): the task is cancelled, so nothing is counted.
Release(t) == IF At(t, "deciding") THEN EndItem(t, {}) ELSE UNCHANGED <<runVars, tally>>

\* cancel() of the tasks S: an upload is aborted, a conflict released, and whatever
\* else is under way sees the flag when it comes back.
Stop(S) ==
  /\ cancelled' = [t \in Task |-> cancelled[t] \/ t \in S]
  /\ status' = [t \in Task |-> IF t \in S /\ status[t] \in {"queued", "waiting"} THEN "cancelled" ELSE status[t]]
  /\ IF \E t \in S : At(t, "uploading")
     THEN EndItem(Head(queue), {}) /\ Abandon(Me(Head(queue)))
     ELSE /\ UNCHANGED <<work, loose>>
          /\ IF queue # <<>> /\ Head(queue) \in S THEN Release(Head(queue)) ELSE UNCHANGED <<runVars, tally>>
  /\ UNCHANGED <<kind, preference, queue, dest, order, userVars>>

Active == {t \in Task : \E i \in DOMAIN queue : queue[i] = t}

Cancel(t) == t \in Active /\ ~cancelled[t] /\ Stop({t}) /\ UNCHANGED <<alive, trouble>>
EndSession == alive /\ alive' = FALSE /\ Lost /\ Stop(Active)

-----------------------------------------------------------------------------
(* The server, and other users of the folder. *)

Put(w) == dest' = [dest EXCEPT ![order[w].name] = w]
\* What the request said, and the user meant by it, is used up; a request that was
\* given up has nobody to answer.
Finish(w, r) ==
  /\ work' = [work EXCEPT ![w] = IF w \in loose THEN "none" ELSE r]
  /\ loose' = loose \ {w}
  /\ order' = [order EXCEPT ![w] = NoOrder]
  /\ consent' = [consent EXCEPT ![w] = {}]
\* A failure after the file is public is still a failure.
Published(w) == Put(w) /\ \E r \in {"done", "failed"} : Finish(w, r)

\* Engine.Upload is a compare-and-replace (Publish has its steps).
ServeUpload(w) ==
  /\ kind[w[1]] = "upload" /\ work[w] = "busy"
  /\ \/ dest[order[w].name] = order[w].revision /\ Published(w)
     \/ Finish(w, "failed") /\ UNCHANGED dest

\* The request arrives, or it is refused.
StartJob(w) ==
  /\ work[w] = "sent"
  /\ \/ work' = [work EXCEPT ![w] = "busy"] /\ UNCHANGED <<order, consent, loose>>
     \/ Finish(w, "refused")
  /\ UNCHANGED dest

\* operations.Execute: deletions do not matter here, a transfer goes by its policy
\* first and by the revision to replace last.
ServeJob(w) ==
  LET o == order[w] there == dest[o.name] IN
  /\ kind[w[1]] # "upload" /\ work[w] \in {"busy", "stopping"}
  /\ \/ kind[w[1]] = "delete" /\ Finish(w, "done") /\ UNCHANGED dest
     \/ Finish(w, "failed") /\ UNCHANGED dest
     \/ work[w] = "stopping" /\ Finish(w, "cancelled") /\ UNCHANGED dest
     \/ /\ kind[w[1]] = "copy"
        /\ \/ there = NoFile /\ o.revision = NoFile /\ Published(w)
           \/ there # NoFile /\ o.mode = "skip" /\ Finish(w, "done") /\ UNCHANGED dest
           \/ /\ there # NoFile /\ o.mode = "rename"
              /\ \E n \in Name : dest[n] = NoFile /\ dest' = [dest EXCEPT ![n] = w]
              /\ \E r \in {"done", "failed"} : Finish(w, r)
           \/ /\ there \notin Fixed \cup {NoFile} /\ o.mode \in {"none", "replace"}
              /\ IF o.revision = NoFile THEN o.mode = "replace" ELSE o.revision = there
              /\ Published(w)

Serve ==
  /\ \E w \in Work : ServeUpload(w) \/ StartJob(w) \/ ServeJob(w)
  /\ UNCHANGED <<taskVars, runVars, alive, trouble, blanket>>

Outside ==
  /\ trouble < MaxTrouble /\ trouble' = trouble + 1
  /\ \E n \in Name, f \in {NoFile} \cup (Foreign \ {dest[m] : m \in Name}) :
       dest' = [dest EXCEPT ![n] = f]
  /\ UNCHANGED <<taskVars, runVars, alive, work, order, userVars, loose>>

Step(t) ==
  \/ NextItem(t) \/ List(t) \/ UploadAnswer(t) \/ Relist(t)
  \/ Plan(t) \/ Started(t) \/ Poll(t)

Next ==
  \/ \E t \in Task : Enqueue(t) \/ Step(t) \/ Answer(t) \/ Cancel(t)
  \/ EndSession \/ Serve \/ Outside

\* Requests are answered, one way or another, and jobs end; the user may never decide.
FairSpec == Init /\ [][Next]_vars /\ WF_vars(Serve) /\ WF_vars(\E t \in Task : Step(t))

-----------------------------------------------------------------------------

\* While a task is not cancelled, every item it has dealt with is completed, skipped
\* or in the errors, and only once; a task that succeeded has dealt with them all.
EveryItemAccounted ==
  \A t \in Task : ~cancelled[t] =>
    /\ tally[t].completed + tally[t].skipped + tally[t].errors = tally[t].processed
    /\ status[t] \in Ended => tally[t].processed = Len(Items[t])
    /\ status[t] = "succeeded" => tally[t].errors = 0

\* "Cancelling stops uploads and skips remaining entries" (README.md): a cancelled
\* task sends no upload and no request to start a job any more.
NoWorkAfterCancel ==
  [][\A w \in Work : work[w] \notin Pending /\ work'[w] \in Pending => ~cancelled[w[1]]]_vars

\* A file of somebody else is replaced only if the user chose to replace this very
\* file when it was shown, or chose to replace whatever is there.
ConsentToReplace ==
  [][\A w \in Work, n \in Name :
       dest'[n] = w /\ dest[n] \notin {w, NoFile} => dest[n] \in consent[w] \/ w[1] \in blanket]_vars

\* Work of two items never overlaps, in one task or in two, unless the answer about
\* one of them was lost, or its upload was aborted.
WorkIsSerial ==
  \A w \in Work \ loose : work[w] \in Pending =>
    Runs(w[1]) /\ item = w[2] /\ pc \in {"uploading", "starting", "polling"}

\* The queue always comes to its end, or to a question to the user that nobody has
\* withdrawn: a cancelled task does not wait for the answer to what it asked.
EveryTaskEnds == []<>(queue = <<>> \/ (pc = "deciding" /\ ~cancelled[Head(queue)]))
=============================================================================
