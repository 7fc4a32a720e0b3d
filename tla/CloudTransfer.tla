---------------------------- MODULE CloudTransfer ----------------------------
(***************************************************************************)
(* Files that go into, out of and between cloud accounts: Transfer.Run in  *)
(* internal/cloudfs/transfer.go and Client.Upload in client.go.            *)
(*                                                                         *)
(* An account is a store without compare-and-replace: List, Read, Write,   *)
(* moveto and delete work on paths, may fail before or after they took     *)
(* effect, and other requests run in between.  What is staged there is an  *)
(* ordinary object under a private name, drawn for each entry, which other *)
(* requests may find and take along.  Writing to local storage is one step *)
(* that replaces exactly the expected file, which is what Publish          *)
(* implements.  Archives as source or destination are left out.            *)
(*                                                                         *)
(* A revision (ID, size, hashes, times) identifies an object.  An object   *)
(* is what it contains and the entry that wrote it.  A worker that is      *)
(* killed takes no further step, which any worker may do here.             *)
(***************************************************************************)
EXTENDS Naturals

CONSTANTS
  Folder,    \* folders, of accounts or of local storage
  Local,     \* the folders on local storage
  Name,      \* names of files
  Aside,     \* names that the policy gives to a private object in the way
  Worker,    \* requests, and the contents they upload
  Original,  \* contents that are there before any request
  Start,     \* Start[c]: the folder and name of original c
  MaxEntries \* bound on the entries of a folder that is transferred

\* The k-th private name that a request draws, which stands for its k-th entry too.
Private == Worker \X (0..MaxEntries)

ASSUME CloudAssumption ==
  /\ Local \subseteq Folder /\ Folder # {} /\ Name # {} /\ MaxEntries \in Nat
  /\ Name \cap Private = {} /\ Aside \cap (Name \cup Private) = {}
  /\ Original \cap Worker = {} /\ {"none", "garbage"} \cap (Original \cup Worker) = {}
  /\ Start \in [Original -> Folder \X Name]
  /\ \A c, d \in Original : Start[c] = Start[d] => c = d

VARIABLES
  at,        \* at[f][n]: the object at name n of folder f
  pc,        \* where each worker stands
  task,      \* the request of each worker
  todo,      \* todo[w]: entries of the source folder still to come
  turn,      \* turn[w]: how many entries of the folder it has begun
  name,      \* name[w]: the entry being transferred
  target,    \* target[w]: its name at the destination
  expected,  \* expected[w]: what it may replace there
  before,    \* before[w]: the source that was inspected
  read,      \* read[w]: the contents that went into the copy
  outcome,   \* the result of the entry, then of the request
  released,  \* history: contents deleted or replaced on purpose
  trampled   \* history: contents replaced or removed by mistake

taskVars   == <<task, todo, turn>>
entryVars  == <<name, target, expected, before>>
storeVars  == <<at, released, trampled>>
vars == <<storeVars, pc, taskVars, entryVars, read, outcome>>

Content  == Original \cup Worker \cup {"garbage"}
Nobody   == <<>>   \* no request wrote it
NoObject == [content |-> "none", by |-> Nobody]
Object   == [content : Content, by : Private \cup {Nobody}] \cup {NoObject}
Path     == Name \cup Private \cup Aside
Policy   == {"ask", "skip", "rename", "replace"}
Kind     == {"upload", "copy", "move"}

Src(w)   == at[task[w].from][name[w]]
Dst(w)   == at[task[w].to][target[w]]
\* The private name of the entry, and what is staged there.
Own(w)   == <<w, turn[w]>>
Stage(w) == at[task[w].to][Own(w)]
IsCloud(f) == f \notin Local
Put(f, n, o) == at' = [at EXCEPT ![f][n] = o]

Goto(w, a, b) == pc[w] = a /\ pc' = [pc EXCEPT ![w] = b]
\* Leave the entry with result r; the deferred removal of the staged object runs.
Leave(w, a, r) == Goto(w, a, "cleaning") /\ outcome' = [outcome EXCEPT ![w] = r]

Init ==
  /\ at = [f \in Folder |-> [n \in Path |->
       IF \E c \in Original : Start[c] = <<f, n>>
       THEN [content |-> CHOOSE c \in Original : Start[c] = <<f, n>>, by |-> Nobody]
       ELSE NoObject]]
  /\ pc = [w \in Worker |-> "idle"]
  /\ task = [w \in Worker |-> [kind |-> "upload", from |-> CHOOSE f \in Folder : TRUE,
       to |-> CHOOSE f \in Folder : TRUE, policy |-> "ask", whole |-> FALSE]]
  /\ todo = [w \in Worker |-> {}]
  /\ turn = [w \in Worker |-> 0]
  /\ name = [w \in Worker |-> CHOOSE n \in Name : TRUE]
  /\ target = name
  /\ expected = [w \in Worker |-> NoObject]
  /\ before = [w \in Worker |-> NoObject]
  /\ read = [w \in Worker |-> "none"]
  /\ outcome = [w \in Worker |-> "none"]
  /\ released = {} /\ trampled = {}

\* An upload to a free name or over the revision the user saw.
RequestUpload(w) ==
  /\ pc[w] = "idle"
  /\ \E f \in Folder, n \in Name : \E e \in {NoObject, at[f][n]} :
       /\ task' = [task EXCEPT ![w].kind = "upload", ![w].to = f]
       /\ target' = [target EXCEPT ![w] = n]
       /\ expected' = [expected EXCEPT ![w] = e]
       /\ Goto(w, "idle", IF IsCloud(f) THEN "statting" ELSE "copying")
  /\ UNCHANGED <<storeVars, todo, turn, name, before, read, outcome>>

\* Client.Upload looks at the destination before it sends anything.
StatUpload(w) ==
  /\ \/ Dst(w) = expected[w] /\ Goto(w, "statting", "copying") /\ UNCHANGED outcome
     \/ Leave(w, "statting", "failed")
  /\ UNCHANGED <<storeVars, taskVars, entryVars, read>>

\* Copy or move of one file, or of a folder, to another folder.
RequestTransfer(w) ==
  /\ pc[w] = "idle"
  /\ \E k \in {"copy", "move"}, f, g \in Folder, p \in Policy, all \in BOOLEAN :
       /\ f # g /\ (IsCloud(f) \/ IsCloud(g))
       /\ task' = [task EXCEPT ![w] = [kind |-> k, from |-> f, to |-> g,
                                       policy |-> p, whole |-> all]]
       /\ IF all
          THEN /\ Goto(w, "idle", "listing")
               /\ UNCHANGED <<name, target, expected>>
          ELSE \E n \in Name : \E e \in {NoObject, at[g][n]} :
                 /\ name' = [name EXCEPT ![w] = n]
                 /\ target' = [target EXCEPT ![w] = n]
                 /\ expected' = [expected EXCEPT ![w] = e]
                 /\ Goto(w, "idle", "inspecting")
  /\ UNCHANGED <<storeVars, todo, turn, before, read, outcome>>

\* The entries of the source folder, once the destination folder is there.
ListFolder(w) ==
  /\ \/ /\ Goto(w, "listing", "merging")
        /\ todo' = [todo EXCEPT ![w] = {n \in Path : at[task[w].from][n] # NoObject}]
        /\ UNCHANGED outcome
     \/ Leave(w, "listing", "failed") /\ UNCHANGED todo
  /\ UNCHANGED <<storeVars, task, turn, entryVars, read>>

MergeNext(w) ==
  /\ Goto(w, "merging", "inspecting")
  /\ turn[w] < MaxEntries
  /\ turn' = [turn EXCEPT ![w] = @ + 1]
  /\ \E n \in todo[w] :
       /\ todo' = [todo EXCEPT ![w] = @ \ {n}]
       /\ name' = [name EXCEPT ![w] = n]
       /\ target' = [target EXCEPT ![w] = n]
  /\ expected' = [expected EXCEPT ![w] = NoObject]
  /\ UNCHANGED <<storeVars, task, before, read, outcome>>

\* A moved folder is listed again and goes if it is empty, which rmdir checks too.
\* An empty folder is nothing to lose: it is not tracked.
MergeDone(w) ==
  /\ todo[w] = {}
  /\ Goto(w, "merging", "done")
  /\ \E r \in IF task[w].kind = "move" THEN {"ok", "failed"} ELSE {"ok"} :
       outcome' = [outcome EXCEPT ![w] = r]
  /\ UNCHANGED <<storeVars, taskVars, entryVars, read>>

\* Check for a cancellation and stat the source.
Inspect(w) ==
  /\ \/ /\ Src(w) # NoObject
        /\ before' = [before EXCEPT ![w] = Src(w)]
        /\ Goto(w, "inspecting", "resolving") /\ UNCHANGED outcome
     \/ Leave(w, "inspecting", "failed") /\ UNCHANGED before
  /\ UNCHANGED <<storeVars, taskVars, name, target, expected, read>>

\* The names "stem (n)" a rename may come to: never one that a request draws.
Alike(n) == IF n \in Name THEN Name ELSE Aside

\* Mutant: a skipped entry counts as transferred, so a move goes on to remove it.
SkipRemoves(w) == Goto(w, "resolving", "published") /\ UNCHANGED outcome
Skip(w) == Leave(w, "resolving", "skipped")

\* List the destination and apply the conflict policy.
Resolve(w) ==
  LET o == Dst(w)
      p == task[w].policy
      aim(n, e) == /\ target' = [target EXCEPT ![w] = n]
                   /\ expected' = [expected EXCEPT ![w] = e]
                   /\ Goto(w, "resolving", "copying") /\ UNCHANGED outcome
  IN
  /\ \/ /\ o = NoObject /\ expected[w] = NoObject
        /\ aim(target[w], NoObject)
     \/ o # NoObject /\ p = "skip" /\ Skip(w) /\ UNCHANGED <<target, expected>>
     \/ /\ o # NoObject /\ p = "rename"
        /\ \E n \in Alike(target[w]) : at[task[w].to][n] = NoObject /\ aim(n, NoObject)
     \/ /\ o # NoObject /\ p \in {"ask", "replace"}
        /\ p = "replace" \/ expected[w] # NoObject
        /\ expected[w] \in {NoObject, o}
        /\ aim(target[w], o)
     \/ Leave(w, "resolving", "failed") /\ UNCHANGED <<target, expected>>
  /\ UNCHANGED <<storeVars, taskVars, name, before, read>>

\* Contents that object o gives up to object new.
Displaced(o, new) == IF o = NoObject \/ o.content = new.content THEN {} ELSE {o.content}

\* What the request sends: its body, or what is at the source by now.
Sent(w) == IF task[w].kind = "upload" THEN w ELSE Src(w).content

\* copyStream, or the body of an upload, into the staged object of an account.
\* The store may keep something else than it was sent.
CopyToStage(w) ==
  /\ IsCloud(task[w].to)
  /\ \/ /\ Sent(w) # "none"
        /\ \E c \in {Sent(w), "garbage"} : Put(task[w].to, Own(w), [content |-> c, by |-> Own(w)])
        /\ read' = [read EXCEPT ![w] = Sent(w)]
        /\ Goto(w, "copying", "verifying") /\ UNCHANGED outcome
     \/ /\ Leave(w, "copying", "failed")
        /\ \E o \in {Stage(w), [content |-> "garbage", by |-> Own(w)]} : Put(task[w].to, Own(w), o)
        /\ UNCHANGED read
  /\ UNCHANGED <<taskVars, entryVars, released, trampled>>

\* copyStream into Engine.Upload: published at once, before it is verified.
CopyToLocal(w) ==
  LET new == [content |-> Sent(w), by |-> Own(w)] IN
  /\ task[w].to \in Local
  /\ \/ /\ Sent(w) # "none" /\ Dst(w) = expected[w]
        /\ Put(task[w].to, target[w], new)
        /\ released' = released \cup Displaced(Dst(w), new)
        /\ read' = [read EXCEPT ![w] = Sent(w)]
        /\ \/ Goto(w, "copying", "verifying") /\ UNCHANGED outcome
           \/ Leave(w, "copying", "failed")
     \/ Leave(w, "copying", "failed") /\ UNCHANGED <<at, released, read>>
  /\ UNCHANGED <<taskVars, entryVars, trampled>>

\* Mutant: the copy is not read back.
VerifiedUnread(w) == TRUE
\* The copy, read back, has the hash of what was sent.
Verified(w) == read[w] = (IF IsCloud(task[w].to) THEN Stage(w) ELSE Dst(w)).content

\* Engine.Upload has nothing more to do for an upload to local storage.
Verify(w) ==
  /\ IF task[w].kind = "upload" /\ task[w].to \in Local
     THEN Leave(w, "verifying", "ok")
     ELSE \/ /\ Verified(w)
             /\ Goto(w, "verifying", IF task[w].kind = "upload" THEN "comparing"
                                     ELSE "checking")
             /\ UNCHANGED outcome
          \/ Leave(w, "verifying", "failed")
  /\ UNCHANGED <<storeVars, taskVars, entryVars, read>>

\* The source is still the one that was inspected.
CheckSource(w) ==
  /\ \/ /\ Src(w) = before[w]
        /\ Goto(w, "checking", IF IsCloud(task[w].to) THEN "comparing" ELSE "published")
        /\ UNCHANGED outcome
     \/ Leave(w, "checking", "failed")
  /\ UNCHANGED <<storeVars, taskVars, entryVars, read>>

\* Stat the destination once more before it is overwritten.
CompareDestination(w) ==
  /\ \/ Dst(w) = expected[w] /\ Goto(w, "comparing", "publishing") /\ UNCHANGED outcome
     \/ Leave(w, "comparing", "failed")
  /\ UNCHANGED <<storeVars, taskVars, entryVars, read>>

\* Client.Publish: moveto replaces whatever is at the destination by now.
MoveTo(w) ==
  /\ \/ /\ Stage(w) # NoObject
        /\ at' = [at EXCEPT ![task[w].to] =
                    [@ EXCEPT ![target[w]] = Stage(w), ![Own(w)] = NoObject]]
        /\ IF Dst(w) = expected[w]
           THEN /\ released' = released \cup Displaced(Dst(w), Stage(w))
                /\ UNCHANGED trampled
           ELSE /\ trampled' = trampled \cup Displaced(Dst(w), Stage(w))
                /\ UNCHANGED released
        /\ \/ Goto(w, "publishing", "published") /\ UNCHANGED outcome
           \/ Leave(w, "publishing", "failed")
     \/ Leave(w, "publishing", "failed") /\ UNCHANGED storeVars
  /\ UNCHANGED <<taskVars, entryVars, read>>

\* A move goes on to remove its source if that has not changed.
CheckSourceAgain(w) ==
  /\ \/ task[w].kind # "move" /\ Leave(w, "published", "ok")
     \/ /\ task[w].kind = "move" /\ Src(w) = before[w]
        /\ Goto(w, "published", IF IsCloud(task[w].from) THEN "unlinking" ELSE "removing")
        /\ UNCHANGED outcome
     \/ task[w].kind = "move" /\ Leave(w, "published", "failed")
  /\ UNCHANGED <<storeVars, taskVars, entryVars, read>>

\* RemoveTransferSource compares a local source a last time.
CheckLocalSource(w) ==
  /\ IF Src(w) = before[w]
     THEN Goto(w, "removing", "unlinking") /\ UNCHANGED outcome
     ELSE Leave(w, "removing", "failed")
  /\ UNCHANGED <<storeVars, taskVars, entryVars, read>>

\* Mutant: a source that is gone already counts as removed.
GoneAccepted(w) == Leave(w, "unlinking", "ok")
Gone(w) == Leave(w, "unlinking", "failed")

\* Remove the source by path.
RemoveSource(w) ==
  /\ \/ /\ Src(w) # NoObject
        /\ Put(task[w].from, name[w], NoObject)
        /\ trampled' = IF Src(w) = before[w] THEN trampled
                       ELSE trampled \cup {Src(w).content}
        /\ \E r \in {"ok", "failed"} : Leave(w, "unlinking", r)
     \/ Src(w) = NoObject /\ Gone(w) /\ UNCHANGED <<at, trampled>>
     \/ Leave(w, "unlinking", "failed") /\ UNCHANGED <<at, trampled>>
  /\ UNCHANGED <<taskVars, entryVars, read, released>>

\* The deferred removal of the staged object, which may fail; then the next entry
\* of a merge unless this one failed.
Cleanup(w) ==
  LET on == task[w].whole /\ outcome[w] # "failed" IN
  /\ Goto(w, "cleaning", IF on THEN "merging" ELSE "done")
  /\ outcome' = IF on THEN [outcome EXCEPT ![w] = "none"] ELSE outcome
  /\ \/ UNCHANGED at
     \/ IsCloud(task[w].to) /\ Stage(w) # NoObject /\ Put(task[w].to, Own(w), NoObject)
  /\ UNCHANGED <<released, trampled, taskVars, entryVars, read>>

\* file.delete of a file: deleteCloud, or Delete on local storage.
DeleteFile(w) ==
  /\ Goto(w, "idle", "done")
  /\ \E f \in Folder, n \in Name :
       /\ at[f][n] # NoObject
       /\ Put(f, n, NoObject)
       /\ released' = released \cup {at[f][n].content}
  /\ UNCHANGED <<trampled, taskVars, entryVars, read, outcome>>

Next == \E w \in Worker :
  \/ RequestUpload(w) \/ RequestTransfer(w) \/ DeleteFile(w)
  \/ ListFolder(w) \/ MergeNext(w) \/ MergeDone(w)
  \/ StatUpload(w) \/ Inspect(w) \/ Resolve(w)
  \/ CopyToStage(w) \/ CopyToLocal(w) \/ Verify(w) \/ CheckSource(w)
  \/ CompareDestination(w) \/ MoveTo(w)
  \/ CheckSourceAgain(w) \/ CheckLocalSource(w) \/ RemoveSource(w)
  \/ Cleanup(w)

Spec == Init /\ [][Next]_vars

-----------------------------------------------------------------------------

\* What a test "corrupt file published" looks for, under any interleaving: what an
\* account garbled never gets a public name.  (Local media are taken to be sound.)
OnlyVerifiedPublic ==
  \A f \in Folder, n \in Name : at[f][n].content # "garbage"

Present == {at[f][n].content : f \in Folder, n \in Path}

\* Contents that were there, or were reported as uploaded, are lost only when an
\* object that came after the last comparison is overwritten or removed by path:
\* no failed step, lost reply, skipped or corrupted copy makes a move remove the
\* last copy ("Moves verify the copied content before removing the source, and
\* skipped files stay in the source", README.md).
LossNeedsTrampling ==
  LET uploaded == {w \in Worker : task[w].kind = "upload" /\ outcome[w] = "ok"} IN
  Original \cup uploaded \subseteq Present \cup released \cup trampled

\* Unless that happens, two moves of one object never both report success.
MovedOnce ==
  trampled = {} =>
    \A v, w \in Worker :
      /\ v # w /\ task[v].kind = "move" /\ task[w].kind = "move"
      /\ ~task[v].whole /\ ~task[w].whole
      /\ outcome[v] = "ok" /\ outcome[w] = "ok"
      => ~(task[v].from = task[w].from /\ name[v] = name[w] /\ before[v] = before[w])
=============================================================================
