------------------------- MODULE CloudTransferProofs -------------------------
(***************************************************************************)
(* Proofs about CloudTransfer, for any number of requests, folders and     *)
(* names: what a store garbles stays private, contents keep a public name  *)
(* unless they are given up or trampled, and moves report success once.    *)
(***************************************************************************)
EXTENDS CloudTransfer, TLAPS

-----------------------------------------------------------------------------
(* What the steps do to the store. *)

\* Where a request may stand.
Stages ==
  {"idle", "statting", "listing", "merging", "inspecting", "resolving", "copying", "verifying",
   "checking", "comparing", "publishing", "published", "removing", "unlinking", "cleaning", "done"}

\* The types; released and trampled are sets of anything.
CloudTypes ==
  /\ at \in [Folder -> [Path -> Object]]
  /\ pc \in [Worker -> Stages]
  /\ task \in [Worker -> [kind : Kind, from : Folder, to : Folder, policy : Policy, whole : BOOLEAN]]
  /\ todo \in [Worker -> SUBSET Path]
  /\ turn \in [Worker -> 0..MaxEntries]
  /\ name \in [Worker -> Path]
  /\ target \in [Worker -> Path]
  /\ expected \in [Worker -> Object]
  /\ before \in [Worker -> Object]
  /\ read \in [Worker -> Content \cup {"none"}]
  /\ outcome \in [Worker -> {"none", "ok", "failed", "skipped"}]

\* A step of one request.
StepOf(w) ==
  \/ RequestUpload(w) \/ RequestTransfer(w) \/ DeleteFile(w)
  \/ ListFolder(w) \/ MergeNext(w) \/ MergeDone(w)
  \/ StatUpload(w) \/ Inspect(w) \/ Resolve(w)
  \/ CopyToStage(w) \/ CopyToLocal(w) \/ Verify(w) \/ CheckSource(w)
  \/ CompareDestination(w) \/ MoveTo(w)
  \/ CheckSourceAgain(w) \/ CheckLocalSource(w) \/ RemoveSource(w)
  \/ Cleanup(w)

\* The copy is staged, or on local storage, and not yet published or done with.
Copied == {"verifying", "checking", "comparing", "publishing"}
\* What comes after.
Public == {"published", "removing", "unlinking"}

\* What is at path p of folder f is set to o.
Sets(f, p, o) ==
  \A g \in Folder, q \in Path : at'[g][q] = IF g = f /\ q = p THEN o ELSE at[g][q]

\* A folder and a path have one object.
LEMMA PutSets ==
  ASSUME CloudTypes, NEW f \in Folder, NEW p \in Path, NEW o \in Object, Put(f, p, o)
  PROVE  Sets(f, p, o) /\ at' \in [Folder -> [Path -> Object]]
  BY DEF CloudTypes, Put, Sets

\* The private name of an entry is a path.
LEMMA OwnIsPrivate ==
  ASSUME CloudTypes, NEW w \in Worker
  PROVE  Own(w) \in Private /\ Own(w) \in Path /\ Stage(w) \in Object
  BY DEF CloudTypes, Own, Private, Path, Stage

\* What a copy of the entry is.
LEMMA WrittenIsObject ==
  ASSUME CloudTypes, NEW w \in Worker, NEW c \in Content
  PROVE  [content |-> c, by |-> Own(w)] \in Object
  BY OwnIsPrivate DEF Object

\* What is sent is some content, or nothing is there.
LEMMA SentIsContent ==
  ASSUME CloudTypes, NEW w \in Worker
  PROVE  Sent(w) \in Content \cup {"none"}
  BY CloudAssumption DEF CloudTypes, Sent, Src, Object, NoObject, Content

\* What is staged is a fresh object, unless the copy stops before it writes.
LEMMA CopyToStageEffect ==
  ASSUME CloudTypes, NEW w \in Worker, CopyToStage(w)
  PROVE  /\ pc[w] = "copying" /\ IsCloud(task[w].to) /\ UNCHANGED <<released, trampled, taskVars, entryVars>>
         /\ \/ \E c \in Content :
                 /\ Sets(task[w].to, Own(w), [content |-> c, by |-> Own(w)])
                 /\ at' \in [Folder -> [Path -> Object]]
                 /\ \/ /\ Sent(w) \in Content /\ c \in {Sent(w), "garbage"}
                          /\ read' = [read EXCEPT ![w] = Sent(w)]
                       /\ pc' = [pc EXCEPT ![w] = "verifying"] /\ UNCHANGED outcome
                    \/ /\ pc' = [pc EXCEPT ![w] = "cleaning"] /\ outcome' = [outcome EXCEPT ![w] = "failed"]
                       /\ UNCHANGED read
            \/ /\ UNCHANGED <<at, read>> /\ pc' = [pc EXCEPT ![w] = "cleaning"]
               /\ outcome' = [outcome EXCEPT ![w] = "failed"]
  <1>1. pc[w] = "copying" /\ IsCloud(task[w].to) /\ UNCHANGED <<released, trampled, taskVars, entryVars>>
    BY DEF CopyToStage, Goto, Leave
  <1>2. task[w].to \in Folder /\ Own(w) \in Path
    BY OwnIsPrivate DEF CloudTypes
  <1>3. ASSUME NEW c \in Content, Put(task[w].to, Own(w), [content |-> c, by |-> Own(w)])
        PROVE  Sets(task[w].to, Own(w), [content |-> c, by |-> Own(w)])
               /\ at' \in [Folder -> [Path -> Object]]
    BY <1>2, <1>3, WrittenIsObject, PutSets
  <1>4. CASE /\ Sent(w) # "none"
                /\ \E c \in {Sent(w), "garbage"} : Put(task[w].to, Own(w), [content |-> c, by |-> Own(w)])
             /\ read' = [read EXCEPT ![w] = Sent(w)] /\ Goto(w, "copying", "verifying") /\ UNCHANGED outcome
    <2>1. Sent(w) \in Content /\ "garbage" \in Content
      BY <1>4, SentIsContent DEF Content
    <2>2. PICK c \in {Sent(w), "garbage"} : Put(task[w].to, Own(w), [content |-> c, by |-> Own(w)])
      BY <1>4
    <2>3. c \in Content
      BY <2>1, <2>2
    <2> QED
      BY <1>1, <1>3, <1>4, <2>1, <2>2, <2>3 DEF Goto
  <1>5. CASE /\ Leave(w, "copying", "failed") /\ UNCHANGED read
             /\ \E o \in {Stage(w), [content |-> "garbage", by |-> Own(w)]} : Put(task[w].to, Own(w), o)
    <2>1. CASE Put(task[w].to, Own(w), [content |-> "garbage", by |-> Own(w)])
      <3>1. "garbage" \in Content
        BY DEF Content
      <3> QED
        BY <1>1, <1>3, <1>5, <2>1, <3>1 DEF Goto, Leave
    <2>2. CASE Put(task[w].to, Own(w), Stage(w))
      <3>1. at' = at
        BY <1>2, <2>2 DEF Put, Stage, CloudTypes
      <3> QED
        BY <1>1, <1>5, <3>1 DEF Goto, Leave
    <2> QED
      BY <1>5, <2>1, <2>2
  <1> QED
    BY <1>4, <1>5 DEF CopyToStage

\* A copy to local storage replaces the expected file, or nothing.
LEMMA CopyToLocalEffect ==
  ASSUME CloudTypes, NEW w \in Worker, CopyToLocal(w)
  PROVE  /\ pc[w] = "copying" /\ task[w].to \in Local /\ UNCHANGED <<trampled, taskVars, entryVars>>
         /\ \/ /\ Sent(w) \in Content
               /\ Sets(task[w].to, target[w], [content |-> Sent(w), by |-> Own(w)])
               /\ at' \in [Folder -> [Path -> Object]]
               /\ released' = released \cup Displaced(Dst(w), [content |-> Sent(w), by |-> Own(w)])
               /\ read' = [read EXCEPT ![w] = Sent(w)]
               /\ \/ pc' = [pc EXCEPT ![w] = "verifying"] /\ UNCHANGED outcome
                  \/ pc' = [pc EXCEPT ![w] = "cleaning"] /\ outcome' = [outcome EXCEPT ![w] = "failed"]
            \/ /\ UNCHANGED <<at, read, released>> /\ pc' = [pc EXCEPT ![w] = "cleaning"]
               /\ outcome' = [outcome EXCEPT ![w] = "failed"]
  <1> DEFINE new == [content |-> Sent(w), by |-> Own(w)]
  <1>1. pc[w] = "copying" /\ task[w].to \in Local /\ UNCHANGED <<trampled, taskVars, entryVars>>
    BY DEF CopyToLocal, Goto, Leave
  <1>2. task[w].to \in Folder /\ target[w] \in Path
    BY DEF CloudTypes
  <1>3. CASE /\ Sent(w) # "none" /\ Put(task[w].to, target[w], new)
             /\ released' = released \cup Displaced(Dst(w), new) /\ read' = [read EXCEPT ![w] = Sent(w)]
             /\ (Goto(w, "copying", "verifying") /\ UNCHANGED outcome) \/ Leave(w, "copying", "failed")
    <2>1. Sent(w) \in Content
      BY <1>3, SentIsContent
    <2>2. new \in Object
      BY <2>1, WrittenIsObject
    <2>3. Sets(task[w].to, target[w], new) /\ at' \in [Folder -> [Path -> Object]]
      BY <1>2, <1>3, <2>2, PutSets
    <2> QED
      BY <1>1, <1>3, <2>1, <2>3 DEF Goto, Leave
  <1>4. CASE Leave(w, "copying", "failed") /\ UNCHANGED <<at, released, read>>
    BY <1>1, <1>4 DEF Goto, Leave
  <1> QED
    BY <1>3, <1>4 DEF CopyToLocal

\* moveto takes what is staged to the destination, even if its reply is lost.
LEMMA MoveToEffect ==
  ASSUME CloudTypes, NEW w \in Worker, MoveTo(w)
  PROVE  /\ pc[w] = "publishing" /\ UNCHANGED <<taskVars, entryVars, read>>
         /\ \/ pc' = [pc EXCEPT ![w] = "published"] /\ UNCHANGED outcome
            \/ pc' = [pc EXCEPT ![w] = "cleaning"] /\ outcome' = [outcome EXCEPT ![w] = "failed"]
         /\ \/ /\ Stage(w) # NoObject
               /\ \A g \in Folder, q \in Path :
                    at'[g][q] = IF g = task[w].to /\ q = Own(w) THEN NoObject
                                ELSE IF g = task[w].to /\ q = target[w] THEN Stage(w) ELSE at[g][q]
               /\ at' \in [Folder -> [Path -> Object]]
               /\ released \subseteq released' /\ trampled \subseteq trampled'
               /\ Displaced(Dst(w), Stage(w)) \subseteq released' \cup trampled'
               /\ trampled' \subseteq trampled \cup Displaced(Dst(w), Stage(w))
            \/ UNCHANGED storeVars /\ pc'[w] = "cleaning"
  <1>1. pc[w] = "publishing" /\ UNCHANGED <<taskVars, entryVars, read>>
    BY DEF MoveTo, Goto, Leave
  <1>2. \/ pc' = [pc EXCEPT ![w] = "published"] /\ UNCHANGED outcome
        \/ pc' = [pc EXCEPT ![w] = "cleaning"] /\ outcome' = [outcome EXCEPT ![w] = "failed"]
    BY DEF MoveTo, Goto, Leave
  <1>3. task[w].to \in Folder /\ target[w] \in Path /\ Own(w) \in Path /\ Stage(w) \in Object
        /\ NoObject \in Object
    BY OwnIsPrivate DEF CloudTypes, Object
  <1>4. ASSUME at' = [at EXCEPT ![task[w].to] = [@ EXCEPT ![target[w]] = Stage(w), ![Own(w)] = NoObject]]
        PROVE  /\ \A g \in Folder, q \in Path :
                    at'[g][q] = IF g = task[w].to /\ q = Own(w) THEN NoObject
                                ELSE IF g = task[w].to /\ q = target[w] THEN Stage(w) ELSE at[g][q]
               /\ at' \in [Folder -> [Path -> Object]]
    BY <1>3, <1>4 DEF CloudTypes
  <1>5. \/ UNCHANGED storeVars /\ pc'[w] = "cleaning"
        \/ /\ Stage(w) # NoObject
           /\ at' = [at EXCEPT ![task[w].to] = [@ EXCEPT ![target[w]] = Stage(w), ![Own(w)] = NoObject]]
           /\ \/ released' = released \cup Displaced(Dst(w), Stage(w)) /\ UNCHANGED trampled
              \/ trampled' = trampled \cup Displaced(Dst(w), Stage(w)) /\ UNCHANGED released
    BY DEF MoveTo, Goto, Leave, CloudTypes
  <1> QED
    BY <1>1, <1>2, <1>4, <1>5

\* What is at the source by now goes, or nothing.
LEMMA RemoveSourceEffect ==
  ASSUME CloudTypes, NEW w \in Worker, RemoveSource(w)
  PROVE  /\ pc[w] = "unlinking" /\ UNCHANGED <<taskVars, entryVars, read, released>>
         /\ pc' = [pc EXCEPT ![w] = "cleaning"]
         /\ \/ /\ Src(w) # NoObject /\ Sets(task[w].from, name[w], NoObject)
               /\ at' \in [Folder -> [Path -> Object]]
               /\ trampled' = IF Src(w) = before[w] THEN trampled ELSE trampled \cup {Src(w).content}
               /\ \E r \in {"ok", "failed"} : outcome' = [outcome EXCEPT ![w] = r]
            \/ UNCHANGED <<at, trampled>> /\ outcome' = [outcome EXCEPT ![w] = "failed"]
  <1>1. task[w].from \in Folder /\ name[w] \in Path /\ NoObject \in Object
    BY DEF CloudTypes, Object
  <1>2. Put(task[w].from, name[w], NoObject) =>
          Sets(task[w].from, name[w], NoObject) /\ at' \in [Folder -> [Path -> Object]]
    BY <1>1, PutSets
  <1> QED
    BY <1>2 DEF RemoveSource, Gone, Leave, Goto

\* At most what is staged is removed in the end.
LEMMA CleanupEffect ==
  ASSUME CloudTypes, NEW w \in Worker, Cleanup(w)
  PROVE  /\ pc[w] = "cleaning" /\ UNCHANGED <<released, trampled, taskVars, entryVars, read>>
         /\ \/ /\ ~(task[w].whole /\ outcome[w] # "failed") /\ pc' = [pc EXCEPT ![w] = "done"]
                  /\ UNCHANGED outcome
            \/ /\ task[w].whole /\ pc' = [pc EXCEPT ![w] = "merging"]
                  /\ outcome' = [outcome EXCEPT ![w] = "none"]
         /\ \/ UNCHANGED at
            \/ Sets(task[w].to, Own(w), NoObject) /\ at' \in [Folder -> [Path -> Object]]
  <1>1. task[w].to \in Folder /\ Own(w) \in Path /\ NoObject \in Object
    BY OwnIsPrivate DEF CloudTypes, Object
  <1>2. Put(task[w].to, Own(w), NoObject) =>
          Sets(task[w].to, Own(w), NoObject) /\ at' \in [Folder -> [Path -> Object]]
    BY <1>1, PutSets
  <1>3. /\ pc[w] = "cleaning" /\ UNCHANGED <<released, trampled, taskVars, entryVars, read>>
        /\ \/ /\ ~(task[w].whole /\ outcome[w] # "failed") /\ pc' = [pc EXCEPT ![w] = "done"]
                 /\ UNCHANGED outcome
           \/ /\ task[w].whole /\ pc' = [pc EXCEPT ![w] = "merging"]
                 /\ outcome' = [outcome EXCEPT ![w] = "none"]
    BY DEF Cleanup, Goto
  <1> QED
    BY <1>2, <1>3 DEF Cleanup

\* A deletion gives up what it deletes.
LEMMA DeleteFileEffect ==
  ASSUME CloudTypes, NEW w \in Worker, DeleteFile(w)
  PROVE  /\ pc[w] = "idle" /\ pc' = [pc EXCEPT ![w] = "done"]
            /\ UNCHANGED <<trampled, taskVars, entryVars, read, outcome>>
         /\ \E f \in Folder, n \in Name :
              /\ Sets(f, n, NoObject) /\ at' \in [Folder -> [Path -> Object]]
              /\ released' = released \cup {at[f][n].content}
  <1>1. PICK f \in Folder, n \in Name : Put(f, n, NoObject) /\ released' = released \cup {at[f][n].content}
    BY DEF DeleteFile
  <1>2. n \in Path /\ NoObject \in Object
    BY DEF Path, Object
  <1>3. Sets(f, n, NoObject) /\ at' \in [Folder -> [Path -> Object]]
    BY <1>1, <1>2, PutSets
  <1> QED
    BY <1>1, <1>3 DEF DeleteFile, Goto

\* A step leaves the other requests as they are.
LEMMA OthersFrame ==
  ASSUME CloudTypes, NEW w \in Worker, StepOf(w)
  PROVE  \A q \in Worker \ {w} :
           /\ pc'[q] = pc[q] /\ task'[q] = task[q] /\ todo'[q] = todo[q] /\ turn'[q] = turn[q]
              /\ name'[q] = name[q]
           /\ target'[q] = target[q] /\ before'[q] = before[q] /\ read'[q] = read[q]
              /\ outcome'[q] = outcome[q]
  <1> USE DEF CloudTypes
  <1>1. CASE RequestUpload(w)
    BY <1>1 DEF RequestUpload, Goto, Leave, storeVars, taskVars, entryVars
  <1>2. CASE RequestTransfer(w)
    BY <1>2 DEF RequestTransfer, Goto, Leave, storeVars, taskVars, entryVars
  <1>3. CASE DeleteFile(w)
    BY <1>3, DeleteFileEffect DEF taskVars, entryVars
  <1>4. CASE ListFolder(w)
    BY <1>4 DEF ListFolder, Goto, Leave, storeVars, taskVars, entryVars
  <1>5. CASE MergeNext(w)
    BY <1>5 DEF MergeNext, Goto, Leave, storeVars, taskVars, entryVars
  <1>6. CASE MergeDone(w)
    BY <1>6 DEF MergeDone, Goto, Leave, storeVars, taskVars, entryVars
  <1>7. CASE StatUpload(w)
    BY <1>7 DEF StatUpload, Goto, Leave, storeVars, taskVars, entryVars
  <1>8. CASE Inspect(w)
    BY <1>8 DEF Inspect, Goto, Leave, storeVars, taskVars, entryVars
  <1>9. CASE Resolve(w)
    BY <1>9 DEF Resolve, Goto, Leave, storeVars, taskVars, entryVars, Skip
  <1>10. CASE CopyToStage(w)
    BY <1>10 DEF CopyToStage, Goto, Leave, storeVars, taskVars, entryVars
  <1>11. CASE CopyToLocal(w)
    BY <1>11 DEF CopyToLocal, Goto, Leave, storeVars, taskVars, entryVars
  <1>12. CASE Verify(w)
    BY <1>12 DEF Verify, Goto, Leave, storeVars, taskVars, entryVars
  <1>13. CASE CheckSource(w)
    BY <1>13 DEF CheckSource, Goto, Leave, storeVars, taskVars, entryVars
  <1>14. CASE CompareDestination(w)
    BY <1>14 DEF CompareDestination, Goto, Leave, storeVars, taskVars, entryVars
  <1>15. CASE MoveTo(w)
    BY <1>15, MoveToEffect DEF taskVars, entryVars
  <1>16. CASE CheckSourceAgain(w)
    BY <1>16 DEF CheckSourceAgain, Goto, Leave, storeVars, taskVars, entryVars
  <1>17. CASE CheckLocalSource(w)
    BY <1>17 DEF CheckLocalSource, Goto, Leave, storeVars, taskVars, entryVars
  <1>18. CASE RemoveSource(w)
    BY <1>18, RemoveSourceEffect DEF taskVars, entryVars
  <1>19. CASE Cleanup(w)
    BY <1>19, CleanupEffect DEF taskVars, entryVars
  <1> QED
    BY <1>1, <1>2, <1>3, <1>4, <1>5, <1>6, <1>7, <1>8, <1>9, <1>10, <1>11, <1>12, <1>13, <1>14, <1>15,
       <1>16, <1>17, <1>18, <1>19 DEF StepOf

\* The request of an upload.
LEMMA UploadTask ==
  ASSUME NEW w \in Worker, NEW f \in Folder, "upload" \in Kind,
         task \in [Worker -> [kind : Kind, from : Folder, to : Folder, policy : Policy, whole : BOOLEAN]],
         task' = [task EXCEPT ![w].kind = "upload", ![w].to = f]
  PROVE  task' \in [Worker -> [kind : Kind, from : Folder, to : Folder, policy : Policy, whole : BOOLEAN]]
  OBVIOUS

\* Every step keeps the types.
LEMMA TypesStep ==
  ASSUME CloudTypes, NEW w \in Worker, StepOf(w)
  PROVE  CloudTypes'
  <1> USE DEF CloudTypes, Stages
  <1>1. CASE RequestUpload(w)
    <2>1. PICK f \in Folder, n \in Name : \E e \in {NoObject, at[f][n]} :
            /\ task' = [task EXCEPT ![w].kind = "upload", ![w].to = f]
            /\ target' = [target EXCEPT ![w] = n]
            /\ expected' = [expected EXCEPT ![w] = e]
            /\ Goto(w, "idle", IF IsCloud(f) THEN "statting" ELSE "copying")
      BY <1>1 DEF RequestUpload
    <2>2. {NoObject, at[f][n]} \subseteq Object /\ n \in Path
      BY DEF Object, Path
    <2>3. task' \in [Worker -> [kind : Kind, from : Folder, to : Folder, policy : Policy, whole : BOOLEAN]]
      <3>1. "upload" \in Kind
        BY DEF Kind
      <3> QED
        BY <2>1, <3>1, UploadTask
    <2>4. target' \in [Worker -> Path] /\ expected' \in [Worker -> Object] /\ pc' \in [Worker -> Stages]
      BY <2>1, <2>2 DEF Goto
    <2> QED
      BY <1>1, <2>3, <2>4 DEF RequestUpload, storeVars
  <1>2. CASE RequestTransfer(w)
    <2>1. PICK k \in {"copy", "move"}, f, g \in Folder, p \in Policy, all \in BOOLEAN :
       /\ f # g /\ (IsCloud(f) \/ IsCloud(g))
       /\ task' = [task EXCEPT ![w] = [kind |-> k, from |-> f, to |-> g,
                                       policy |-> p, whole |-> all]]
       /\ IF all
          THEN /\ Goto(w, "idle", "listing")
               /\ UNCHANGED <<name, target, expected>>
          ELSE \E n \in Name : \E e \in {NoObject, at[g][n]} :
                 /\ name' = [name EXCEPT ![w] = n]
                 /\ target' = [target EXCEPT ![w] = n]
                 /\ expected' = [expected EXCEPT ![w] = e]
                 /\ Goto(w, "idle", "inspecting")
      BY <1>2, Zenon DEF RequestTransfer
    <2>2. NoObject \in Object /\ \A n \in Name : n \in Path /\ at[g][n] \in Object
      BY DEF Object, Path
    <2>3. task' \in [Worker -> [kind : Kind, from : Folder, to : Folder, policy : Policy, whole : BOOLEAN]]
      BY <2>1 DEF Kind
    <2>4. name' \in [Worker -> Path] /\ target' \in [Worker -> Path] /\ expected' \in [Worker -> Object]
          /\ pc' \in [Worker -> Stages]
      <3>1. CASE all
        BY <2>1, <3>1 DEF Goto
      <3>2. CASE ~all
        <4>1. PICK n \in Name, e \in Object :
                /\ name' = [name EXCEPT ![w] = n] /\ target' = [target EXCEPT ![w] = n]
                /\ expected' = [expected EXCEPT ![w] = e] /\ Goto(w, "idle", "inspecting")
          BY <2>1, <2>2, <3>2
        <4> QED
          BY <2>2, <4>1 DEF Goto
      <3> QED
        BY <3>1, <3>2
    <2> QED
      BY <1>2, <2>3, <2>4 DEF RequestTransfer, storeVars
  <1>3. CASE DeleteFile(w)
    BY <1>3, DeleteFileEffect DEF taskVars, entryVars
  <1>4. CASE ListFolder(w)
    <2>1. PICK S : S = {n \in Path : at[task[w].from][n] # NoObject}
      OBVIOUS
    <2>3. S \subseteq Path /\ (todo' = [todo EXCEPT ![w] = S] \/ UNCHANGED todo)
      BY <1>4, <2>1 DEF ListFolder
    <2>4. todo' \in [Worker -> SUBSET Path]
      BY <2>3
    <2>2. pc' \in [Worker -> Stages] /\ outcome' \in [Worker -> {"none", "ok", "failed", "skipped"}]
      BY <1>4 DEF ListFolder, Goto, Leave
    <2> QED
      BY <1>4, <2>4, <2>2 DEF ListFolder, storeVars, entryVars
  <1>5. CASE MergeNext(w)
    <2>1. turn' \in [Worker -> 0..MaxEntries]
      BY <1>5, CloudAssumption DEF MergeNext
    <2>2. NoObject \in Object
      BY DEF Object
    <2>3. PICK n \in todo[w] : /\ todo' = [todo EXCEPT ![w] = @ \ {n}] /\ name' = [name EXCEPT ![w] = n]
                               /\ target' = [target EXCEPT ![w] = n]
      BY <1>5 DEF MergeNext
    <2>4. n \in Path
      BY <2>3
    <2>5. todo' \in [Worker -> SUBSET Path] /\ name' \in [Worker -> Path] /\ target' \in [Worker -> Path]
      BY <2>3, <2>4
    <2>6. expected' \in [Worker -> Object] /\ pc' \in [Worker -> Stages]
      BY <1>5, <2>2 DEF MergeNext, Goto
    <2>7. at' = at /\ task' = task /\ before' = before /\ read' = read /\ outcome' = outcome
      BY <1>5 DEF MergeNext, storeVars
    <2> HIDE DEF Stages
    <2> QED
      BY <2>1, <2>5, <2>6, <2>7
  <1>6. CASE MergeDone(w)
    BY <1>6 DEF MergeDone, Goto, Leave, storeVars, taskVars, entryVars
  <1>7. CASE StatUpload(w)
    BY <1>7 DEF StatUpload, Goto, Leave, storeVars, taskVars, entryVars
  <1>8. CASE Inspect(w)
    <2>1. Src(w) \in Object
      BY DEF Src
    <2>2. before' \in [Worker -> Object] /\ pc' \in [Worker -> Stages]
      <3>1. PICK o \in Object : o = Src(w)
        BY <2>1
      <3>2. before' = before \/ before' = [before EXCEPT ![w] = o]
        BY <1>8, <3>1 DEF Inspect
      <3>3. pc' = [pc EXCEPT ![w] = "resolving"] \/ pc' = [pc EXCEPT ![w] = "cleaning"]
        BY <1>8 DEF Inspect, Goto, Leave
      <3>4. pc' \in [Worker -> Stages]
        BY <3>3
      <3>5. before' \in [Worker -> Object]
        BY <3>2
      <3> QED
        BY <3>4, <3>5
    <2>3. outcome' \in [Worker -> {"none", "ok", "failed", "skipped"}]
      BY <1>8 DEF Inspect, Goto, Leave
    <2>4. UNCHANGED <<at, task, todo, turn, name, target, expected, read>>
      BY <1>8 DEF Inspect, storeVars, taskVars
    <2> QED
      BY <2>2, <2>3, <2>4
  <1>9. CASE Resolve(w)
    <2>1. target' \in [Worker -> Path] /\ expected' \in [Worker -> Object] /\ pc' \in [Worker -> Stages]
          /\ outcome' \in [Worker -> {"none", "ok", "failed", "skipped"}]
      <3>1. Dst(w) \in Object /\ NoObject \in Object
        BY DEF Dst, Object
      <3>2. Alike(target[w]) \subseteq Path
        BY DEF Alike, Path
      <3>3. target' \in [Worker -> Path] /\ expected' \in [Worker -> Object]
        <4>1. \/ UNCHANGED <<target, expected>>
              \/ \E n \in {target[w]} \cup Alike(target[w]), e \in {NoObject, Dst(w)} :
                   target' = [target EXCEPT ![w] = n] /\ expected' = [expected EXCEPT ![w] = e]
          BY <1>9 DEF Resolve, Skip
        <4>2. CASE UNCHANGED <<target, expected>>
          BY <4>2
        <4>3. ASSUME NEW n \in {target[w]} \cup Alike(target[w]), NEW e \in {NoObject, Dst(w)},
                     target' = [target EXCEPT ![w] = n], expected' = [expected EXCEPT ![w] = e]
              PROVE  target' \in [Worker -> Path] /\ expected' \in [Worker -> Object]
          <5>1. n \in Path /\ e \in Object
            BY <3>1, <3>2
          <5> QED
            BY <4>3, <5>1
        <4> QED
          BY <4>1, <4>2, <4>3
      <3>4. pc' \in [Worker -> Stages] /\ outcome' \in [Worker -> {"none", "ok", "failed", "skipped"}]
        BY <1>9 DEF Resolve, Skip, Goto, Leave
      <3> QED
        BY <3>3, <3>4
    <2>2. UNCHANGED <<at, task, todo, turn, name, before, read>>
      BY <1>9 DEF Resolve, storeVars, taskVars
    <2> QED
      BY <2>1, <2>2
  <1>10. CASE CopyToStage(w)
    <2>1. at' \in [Folder -> [Path -> Object]]
      BY <1>10, CopyToStageEffect
    <2>2. pc' \in [Worker -> Stages] /\ outcome' \in [Worker -> {"none", "ok", "failed", "skipped"}]
          /\ read' \in [Worker -> Content \cup {"none"}] /\ UNCHANGED <<taskVars, entryVars>>
      <3>1. pc' \in [Worker -> Stages]
        BY <1>10, CopyToStageEffect
      <3>2. outcome' \in [Worker -> {"none", "ok", "failed", "skipped"}]
        BY <1>10, CopyToStageEffect
      <3>3. read' \in [Worker -> Content \cup {"none"}]
        BY <1>10, CopyToStageEffect
      <3>4. UNCHANGED <<taskVars, entryVars>>
        BY <1>10, CopyToStageEffect
      <3> QED
        BY <3>1, <3>2, <3>3, <3>4
    <2> QED
      BY <2>1, <2>2 DEF taskVars, entryVars
  <1>11. CASE CopyToLocal(w)
    <2>1. at' \in [Folder -> [Path -> Object]]
      BY <1>11, CopyToLocalEffect
    <2>2. pc' \in [Worker -> Stages] /\ outcome' \in [Worker -> {"none", "ok", "failed", "skipped"}]
          /\ read' \in [Worker -> Content \cup {"none"}] /\ UNCHANGED <<taskVars, entryVars>>
      <3>1. pc' \in [Worker -> Stages]
        BY <1>11, CopyToLocalEffect
      <3>2. outcome' \in [Worker -> {"none", "ok", "failed", "skipped"}]
        BY <1>11, CopyToLocalEffect
      <3>3. read' \in [Worker -> Content \cup {"none"}]
        <4>1. read' = read \/ \E c \in Content : read' = [read EXCEPT ![w] = c]
          BY <1>11, CopyToLocalEffect
        <4> QED
          BY <4>1
      <3>4. UNCHANGED <<taskVars, entryVars>>
        BY <1>11, CopyToLocalEffect
      <3> QED
        BY <3>1, <3>2, <3>3, <3>4
    <2> QED
      BY <2>1, <2>2 DEF taskVars, entryVars
  <1>12. CASE Verify(w)
    BY <1>12 DEF Verify, Goto, Leave, storeVars, taskVars, entryVars
  <1>13. CASE CheckSource(w)
    BY <1>13 DEF CheckSource, Goto, Leave, storeVars, taskVars, entryVars
  <1>14. CASE CompareDestination(w)
    BY <1>14 DEF CompareDestination, Goto, Leave, storeVars, taskVars, entryVars
  <1>15. CASE MoveTo(w)
    <2>1. at' \in [Folder -> [Path -> Object]]
      BY <1>15, MoveToEffect DEF storeVars
    <2>2. pc' \in [Worker -> Stages] /\ outcome' \in [Worker -> {"none", "ok", "failed", "skipped"}]
          /\ read' \in [Worker -> Content \cup {"none"}] /\ UNCHANGED <<taskVars, entryVars>>
      BY <1>15, SentIsContent DEF MoveTo, Goto, Leave, storeVars, taskVars, entryVars
    <2> QED
      BY <2>1, <2>2 DEF taskVars, entryVars
  <1>16. CASE CheckSourceAgain(w)
    BY <1>16 DEF CheckSourceAgain, Goto, Leave, storeVars, taskVars, entryVars
  <1>17. CASE CheckLocalSource(w)
    BY <1>17 DEF CheckLocalSource, Goto, Leave, storeVars, taskVars, entryVars
  <1>18. CASE RemoveSource(w)
    <2>1. at' \in [Folder -> [Path -> Object]]
      BY <1>18, RemoveSourceEffect
    <2>2. UNCHANGED <<taskVars, entryVars, read>> /\ \E r \in {"ok", "failed"} : Leave(w, "unlinking", r)
      BY <1>18 DEF RemoveSource, Gone
    <2>3. PICK r \in {"ok", "failed"} : Leave(w, "unlinking", r)
      BY <2>2
    <2>4. pc' \in [Worker -> Stages]
      BY <2>3 DEF Leave, Goto
    <2>5. outcome' \in [Worker -> {"none", "ok", "failed", "skipped"}]
      BY <2>3 DEF Leave
    <2> QED
      BY <2>1, <2>2, <2>4, <2>5 DEF taskVars, entryVars
  <1>19. CASE Cleanup(w)
    <2>1. at' \in [Folder -> [Path -> Object]]
      BY <1>19, CleanupEffect
    <2>2. pc' \in [Worker -> Stages] /\ outcome' \in [Worker -> {"none", "ok", "failed", "skipped"}]
          /\ read' \in [Worker -> Content \cup {"none"}] /\ UNCHANGED <<taskVars, entryVars>>
      BY <1>19, SentIsContent DEF Cleanup, Goto, Leave, storeVars, taskVars, entryVars
    <2> QED
      BY <2>1, <2>2 DEF taskVars, entryVars
  <1> QED
    BY <1>1, <1>2, <1>3, <1>4, <1>5, <1>6, <1>7, <1>8, <1>9, <1>10, <1>11, <1>12, <1>13, <1>14, <1>15,
       <1>16, <1>17, <1>18, <1>19 DEF StepOf

\* At first, every original is where it starts.
LEMMA TypesInit == Init => CloudTypes
  <1> SUFFICES ASSUME Init
               PROVE  CloudTypes
    OBVIOUS
  <1>1. \A f \in Folder, n \in Path :
          (IF \E c \in Original : Start[c] = <<f, n>>
           THEN [content |-> CHOOSE c \in Original : Start[c] = <<f, n>>, by |-> Nobody]
           ELSE NoObject) \in Object
    <2> SUFFICES ASSUME NEW f \in Folder, NEW n \in Path, \E c \in Original : Start[c] = <<f, n>>
                 PROVE  [content |-> CHOOSE c \in Original : Start[c] = <<f, n>>, by |-> Nobody] \in Object
      BY DEF Object
    <2>1. (CHOOSE c \in Original : Start[c] = <<f, n>>) \in Original
      OBVIOUS
    <2> QED
      BY <2>1 DEF Object, Content
  <1>2. at \in [Folder -> [Path -> Object]]
    BY <1>1 DEF Init
  <1>3. (CHOOSE n \in Name : TRUE) \in Path /\ (CHOOSE f \in Folder : TRUE) \in Folder /\ 0 \in 0..MaxEntries
        /\ NoObject \in Object
    BY CloudAssumption DEF Path, Object
  <1> QED
    BY <1>2, <1>3 DEF Init, CloudTypes, Stages, Kind, Policy

-----------------------------------------------------------------------------
(* The control of a request, and the names it deals with. *)

\* What the stage of a request says about it.
OneControl(w) ==
  /\ pc[w] \in {"idle", "statting"} => task[w].kind = "upload"
  /\ pc[w] \in {"listing", "merging", "inspecting", "resolving", "checking", "removing", "unlinking"} =>
       task[w].kind # "upload"
  /\ IF task[w].kind = "upload" THEN ~task[w].whole ELSE task[w].from # task[w].to
  /\ pc[w] \in {"removing", "unlinking"} => task[w].kind = "move"
  /\ pc[w] \in {"comparing", "publishing"} => IsCloud(task[w].to)
  /\ pc[w] \in {"listing", "merging"} => task[w].whole
  /\ pc[w] \notin {"cleaning", "done"} => outcome[w] = "none"
  /\ pc[w] \in Copied \cup Public => read[w] # "none"
  /\ pc[w] \in Copied \cup Public /\ task[w].kind = "upload" => read[w] = w
Control == \A w \in Worker : OneControl(w)

\* Public names are copied to public names, private ones never to another private one.
Apart ==
  \A w \in Worker :
    /\ target[w] \in Name <=> name[w] \in Name
    /\ target[w] \in Private => target[w] = name[w]
    /\ task[w].kind = "upload" \/ ~task[w].whole => name[w] \in Name

\* What is sent is there.
LEMMA SentOfUpload ==
  ASSUME CloudTypes, NEW w \in Worker, task[w].kind = "upload"
  PROVE  Sent(w) = w
  BY DEF Sent

\* The control of a request.
LEMMA ControlStep ==
  ASSUME CloudTypes, Control, NEW w \in Worker, StepOf(w)
  PROVE  Control'
  <1> USE CloudAssumption DEF Control, Copied, Public, Content
  <1>0. \A q \in Worker \ {w} : pc'[q] = pc[q] /\ task'[q] = task[q] /\ read'[q] = read[q]
        /\ outcome'[q] = outcome[q]
    BY OthersFrame
  <1>1. CASE RequestUpload(w)
    BY <1>0, <1>1 DEF RequestUpload, Goto, Leave, storeVars, taskVars, entryVars, CloudTypes, OneControl
  <1>2. CASE RequestTransfer(w)
    BY <1>0, <1>2 DEF RequestTransfer, Goto, Leave, storeVars, taskVars, entryVars, CloudTypes, OneControl
  <1>3. CASE DeleteFile(w)
    BY <1>0, <1>3, DeleteFileEffect DEF taskVars, CloudTypes, OneControl
  <1>4. CASE ListFolder(w)
    BY <1>0, <1>4 DEF ListFolder, Goto, Leave, storeVars, taskVars, entryVars, CloudTypes, OneControl
  <1>5. CASE MergeNext(w)
    BY <1>0, <1>5 DEF MergeNext, Goto, Leave, storeVars, taskVars, entryVars, CloudTypes, OneControl
  <1>6. CASE MergeDone(w)
    BY <1>0, <1>6 DEF MergeDone, Goto, Leave, storeVars, taskVars, entryVars, CloudTypes, OneControl
  <1>7. CASE StatUpload(w)
    BY <1>0, <1>7 DEF StatUpload, Goto, Leave, storeVars, taskVars, entryVars, CloudTypes, OneControl
  <1>8. CASE Inspect(w)
    BY <1>0, <1>8 DEF Inspect, Goto, Leave, storeVars, taskVars, entryVars, CloudTypes, OneControl
  <1>9. CASE Resolve(w)
    BY <1>0, <1>9 DEF Resolve, Goto, Leave, storeVars, taskVars, entryVars, Skip, CloudTypes, OneControl
  <1>10. CASE CopyToStage(w)
    <2>1. /\ \A q \in Worker \ {w} : pc'[q] = pc[q] /\ task'[q] = task[q] /\ read'[q] = read[q]
             /\ outcome'[q] = outcome[q]
          /\ task' = task
      BY <1>0, <1>10, CopyToStageEffect DEF taskVars
    <2>2. \A q \in Worker \ {w} : OneControl(q)'
      BY <2>1 DEF OneControl
    <2>3. OneControl(w)
      OBVIOUS
    <2>4. PICK y : y = Sent(w)
      OBVIOUS
    <2>6. /\ pc[w] = "copying"
          /\ \/ pc' = [pc EXCEPT ![w] = "cleaning"]
             \/ pc' = [pc EXCEPT ![w] = "verifying"] /\ outcome' = outcome /\ read' = [read EXCEPT ![w] = y]
                /\ y \in Content
      BY <1>10, <2>4, CopyToStageEffect, Zenon
    <2>7. \/ pc'[w] = "cleaning"
          \/ pc'[w] = "verifying" /\ outcome'[w] = outcome[w] /\ read'[w] = y /\ y \in Content
      BY <2>6 DEF CloudTypes
    <2>5. OneControl(w)'
      BY <2>1, <2>3, <2>4, <2>6, <2>7, SentOfUpload DEF OneControl, IsCloud
    <2> QED
      BY <2>2, <2>5
  <1>11. CASE CopyToLocal(w)
    <2>1. /\ \A q \in Worker \ {w} : pc'[q] = pc[q] /\ task'[q] = task[q] /\ read'[q] = read[q]
             /\ outcome'[q] = outcome[q]
          /\ task' = task
      BY <1>0, <1>11, CopyToLocalEffect DEF taskVars
    <2>2. \A q \in Worker \ {w} : OneControl(q)'
      BY <2>1 DEF OneControl
    <2>3. OneControl(w)
      OBVIOUS
    <2>4. PICK y : y = Sent(w)
      OBVIOUS
    <2>6. /\ pc[w] = "copying"
          /\ \/ pc' = [pc EXCEPT ![w] = "cleaning"]
             \/ pc' = [pc EXCEPT ![w] = "verifying"] /\ outcome' = outcome /\ read' = [read EXCEPT ![w] = y]
                /\ y \in Content
      BY <1>11, <2>4, CopyToLocalEffect, Zenon
    <2>7. \/ pc'[w] = "cleaning"
          \/ pc'[w] = "verifying" /\ outcome'[w] = outcome[w] /\ read'[w] = y /\ y \in Content
      BY <2>6 DEF CloudTypes
    <2>5. OneControl(w)'
      BY <2>1, <2>3, <2>4, <2>6, <2>7, SentOfUpload DEF OneControl, IsCloud
    <2> QED
      BY <2>2, <2>5
  <1>12. CASE Verify(w)
    <2>1. /\ \A q \in Worker \ {w} : pc'[q] = pc[q] /\ task'[q] = task[q] /\ read'[q] = read[q]
             /\ outcome'[q] = outcome[q]
          /\ task' = task
      BY <1>0, <1>12 DEF Verify, taskVars
    <2>2. \A q \in Worker \ {w} : OneControl(q)'
      BY <2>1 DEF OneControl
    <2>3. OneControl(w)
      OBVIOUS
    <2>4. /\ pc[w] = "verifying" /\ read' = read
          /\ \/ pc'[w] = "cleaning"
             \/ pc'[w] = "comparing" /\ outcome'[w] = outcome[w] /\ task[w].to \notin Local
                /\ task[w].kind = "upload"
             \/ pc'[w] = "checking" /\ outcome'[w] = outcome[w] /\ task[w].kind # "upload"
      BY <1>12 DEF Verify, Goto, Leave, storeVars, taskVars, entryVars, CloudTypes
    <2>5. OneControl(w)'
      BY <2>1, <2>3, <2>4 DEF OneControl, IsCloud
    <2> QED
      BY <2>2, <2>5
  <1>13. CASE CheckSource(w)
    BY <1>0, <1>13 DEF CheckSource, Goto, Leave, storeVars, taskVars, entryVars, CloudTypes, OneControl
  <1>14. CASE CompareDestination(w)
    BY <1>0, <1>14 DEF CompareDestination, Goto, Leave, storeVars, taskVars, entryVars, CloudTypes, OneControl
  <1>15. CASE MoveTo(w)
    BY <1>0, <1>15, MoveToEffect DEF taskVars, CloudTypes, OneControl
  <1>16. CASE CheckSourceAgain(w)
    BY <1>0, <1>16 DEF CheckSourceAgain, Goto, Leave, storeVars, taskVars, entryVars, CloudTypes, OneControl
  <1>17. CASE CheckLocalSource(w)
    BY <1>0, <1>17 DEF CheckLocalSource, Goto, Leave, storeVars, taskVars, entryVars, CloudTypes, OneControl
  <1>18. CASE RemoveSource(w)
    BY <1>0, <1>18, RemoveSourceEffect DEF taskVars, CloudTypes, OneControl
  <1>19. CASE Cleanup(w)
    <2>1. /\ \A q \in Worker \ {w} : pc'[q] = pc[q] /\ task'[q] = task[q] /\ read'[q] = read[q]
             /\ outcome'[q] = outcome[q]
          /\ task' = task
      BY <1>0, <1>19, CleanupEffect DEF taskVars
    <2>2. \A q \in Worker \ {w} : OneControl(q)'
      BY <2>1 DEF OneControl
    <2>3. OneControl(w)
      OBVIOUS
    <2>4. /\ pc[w] = "cleaning"
          /\ \/ pc'[w] = "done"
             \/ pc'[w] = "merging" /\ outcome'[w] = "none" /\ task[w].whole
      BY <1>19, CleanupEffect DEF CloudTypes
    <2>5. OneControl(w)'
      BY <2>1, <2>3, <2>4 DEF OneControl, IsCloud
    <2> QED
      BY <2>2, <2>5
  <1> QED
    BY <1>1, <1>2, <1>3, <1>4, <1>5, <1>6, <1>7, <1>8, <1>9, <1>10, <1>11, <1>12, <1>13, <1>14, <1>15,
       <1>16, <1>17, <1>18, <1>19 DEF StepOf

\* Names are chosen among the public ones, or listed, or given to what is in the way.
LEMMA ApartStep ==
  ASSUME CloudTypes, Control, Apart, NEW w \in Worker, StepOf(w)
  PROVE  Apart'
  <1> USE CloudAssumption DEF Apart, Control, OneControl
  <1>0. \A q \in Worker \ {w} : task'[q] = task[q] /\ name'[q] = name[q] /\ target'[q] = target[q]
    BY OthersFrame
  <1>1. CASE RequestUpload(w)
    BY <1>0, <1>1 DEF RequestUpload, Goto, Leave, storeVars, taskVars, entryVars, CloudTypes
  <1>2. CASE RequestTransfer(w)
    BY <1>0, <1>2 DEF RequestTransfer, Goto, Leave, storeVars, taskVars, entryVars, CloudTypes
  <1>3. CASE DeleteFile(w)
    BY <1>0, <1>3, DeleteFileEffect DEF taskVars, entryVars
  <1>4. CASE ListFolder(w)
    BY <1>0, <1>4 DEF ListFolder, Goto, Leave, storeVars, taskVars, entryVars, CloudTypes
  <1>5. CASE MergeNext(w)
    BY <1>0, <1>5 DEF MergeNext, Goto, Leave, storeVars, taskVars, entryVars, CloudTypes
  <1>6. CASE MergeDone(w)
    BY <1>0, <1>6 DEF MergeDone, Goto, Leave, storeVars, taskVars, entryVars, CloudTypes
  <1>7. CASE StatUpload(w)
    BY <1>0, <1>7 DEF StatUpload, Goto, Leave, storeVars, taskVars, entryVars, CloudTypes
  <1>8. CASE Inspect(w)
    BY <1>0, <1>8 DEF Inspect, Goto, Leave, storeVars, taskVars, entryVars, CloudTypes
  <1>9. CASE Resolve(w)
    <2>1. \/ target' = target
          \/ \E n \in Alike(target[w]) : target' = [target EXCEPT ![w] = n]
      BY <1>9 DEF Resolve, Skip, CloudTypes
    <2>2. UNCHANGED <<task, name>>
      BY <1>9 DEF Resolve, taskVars
    <2> QED
      BY <1>0, <2>1, <2>2 DEF Alike, CloudTypes
  <1>10. CASE CopyToStage(w)
    BY <1>0, <1>10, CopyToStageEffect DEF taskVars, entryVars
  <1>11. CASE CopyToLocal(w)
    BY <1>0, <1>11, CopyToLocalEffect DEF taskVars, entryVars
  <1>12. CASE Verify(w)
    BY <1>0, <1>12 DEF Verify, Goto, Leave, storeVars, taskVars, entryVars, CloudTypes
  <1>13. CASE CheckSource(w)
    BY <1>0, <1>13 DEF CheckSource, Goto, Leave, storeVars, taskVars, entryVars, CloudTypes
  <1>14. CASE CompareDestination(w)
    BY <1>0, <1>14 DEF CompareDestination, Goto, Leave, storeVars, taskVars, entryVars, CloudTypes
  <1>15. CASE MoveTo(w)
    BY <1>0, <1>15, MoveToEffect DEF taskVars, entryVars
  <1>16. CASE CheckSourceAgain(w)
    BY <1>0, <1>16 DEF CheckSourceAgain, Goto, Leave, storeVars, taskVars, entryVars, CloudTypes
  <1>17. CASE CheckLocalSource(w)
    BY <1>0, <1>17 DEF CheckLocalSource, Goto, Leave, storeVars, taskVars, entryVars, CloudTypes
  <1>18. CASE RemoveSource(w)
    BY <1>0, <1>18, RemoveSourceEffect DEF taskVars, entryVars
  <1>19. CASE Cleanup(w)
    BY <1>0, <1>19, CleanupEffect DEF taskVars, entryVars
  <1> QED
    BY <1>1, <1>2, <1>3, <1>4, <1>5, <1>6, <1>7, <1>8, <1>9, <1>10, <1>11, <1>12, <1>13, <1>14, <1>15,
       <1>16, <1>17, <1>18, <1>19 DEF StepOf

-----------------------------------------------------------------------------
(* Nobody sees a private name before the request that drew it uses it. *)

\* Where a request has not begun to copy its entry.
Before == {"idle", "statting", "listing", "inspecting", "resolving", "copying"}
\* The private name e has been used.
Begun(e) == e[2] < turn[e[1]] \/ (e[2] = turn[e[1]] /\ pc[e[1]] \notin Before)

\* Nothing is or was at e, and nothing was written by it.
UnseenAt(e) ==
  /\ \A f \in Folder : at[f][e] = NoObject /\ \A p \in Path : at[f][p].by # e
  /\ \A v \in Worker : e \notin todo[v] /\ name[v] # e /\ target[v] # e /\ before[v].by # e

\* A private name is not to be seen before it is used.
Unseen == \A e \in Private : ~Begun(e) => UnseenAt(e)

\* The steps that leave the store alone.
Quiet(w) ==
  \/ RequestUpload(w) \/ RequestTransfer(w)
  \/ ListFolder(w) \/ MergeNext(w) \/ MergeDone(w)
  \/ StatUpload(w) \/ Inspect(w) \/ Resolve(w)
  \/ Verify(w) \/ CheckSource(w) \/ CompareDestination(w)
  \/ CheckSourceAgain(w) \/ CheckLocalSource(w)

\* What is copied is copied further, and the store stays.
LEMMA QuietStep ==
  ASSUME CloudTypes, NEW w \in Worker, Quiet(w)
  PROVE  /\ UNCHANGED <<storeVars, read>>
         /\ pc'[w] \in Copied \cup Public =>
              pc[w] \in Copied \cup Public /\ UNCHANGED <<taskVars, name, target, before>>
         /\ pc'[w] \in Copied => pc[w] \in Copied /\ pc'[w] # "verifying"
         /\ pc'[w] \in Public => pc[w] \in Public \/ (pc[w] = "checking" /\ task[w].to \in Local)
         /\ pc'[w] \in {"checking", "comparing", "publishing"} =>
              pc[w] \in {"checking", "comparing"} \/ (pc[w] = "verifying" /\ Verified(w))
  <1> USE DEF CloudTypes, Copied, Public, IsCloud
  <1>1. CASE RequestUpload(w)
    BY <1>1 DEF RequestUpload, Goto, Leave, storeVars, taskVars, entryVars
  <1>2. CASE RequestTransfer(w)
    BY <1>2 DEF RequestTransfer, Goto, Leave, storeVars, taskVars, entryVars
  <1>3. CASE ListFolder(w)
    BY <1>3 DEF ListFolder, Goto, Leave, storeVars, taskVars, entryVars
  <1>4. CASE MergeNext(w)
    BY <1>4 DEF MergeNext, Goto, Leave, storeVars, taskVars, entryVars
  <1>5. CASE MergeDone(w)
    BY <1>5 DEF MergeDone, Goto, Leave, storeVars, taskVars, entryVars
  <1>6. CASE StatUpload(w)
    BY <1>6 DEF StatUpload, Goto, Leave, storeVars, taskVars, entryVars
  <1>7. CASE Inspect(w)
    BY <1>7 DEF Inspect, Goto, Leave, storeVars, taskVars, entryVars
  <1>8. CASE Resolve(w)
    BY <1>8 DEF Resolve, Goto, Leave, storeVars, taskVars, entryVars, Skip
  <1>9. CASE Verify(w)
    BY <1>9 DEF Verify, Goto, Leave, storeVars, taskVars, entryVars
  <1>10. CASE CheckSource(w)
    BY <1>10 DEF CheckSource, Goto, Leave, storeVars, taskVars, entryVars
  <1>11. CASE CompareDestination(w)
    BY <1>11 DEF CompareDestination, Goto, Leave, storeVars, taskVars, entryVars
  <1>12. CASE CheckSourceAgain(w)
    BY <1>12 DEF CheckSourceAgain, Goto, Leave, storeVars, taskVars, entryVars
  <1>13. CASE CheckLocalSource(w)
    BY <1>13 DEF CheckLocalSource, Goto, Leave, storeVars, taskVars, entryVars
  <1> QED
    BY <1>1, <1>2, <1>3, <1>4, <1>5, <1>6, <1>7, <1>8, <1>9, <1>10, <1>11, <1>12, <1>13 DEF Quiet
\* A copy of an entry ends with the copy verified or the entry left.
LEMMA CopyControl ==
  ASSUME CloudTypes, NEW w \in Worker, CopyToStage(w) \/ CopyToLocal(w)
  PROVE  /\ pc[w] = "copying" /\ UNCHANGED <<task, todo, turn, name, target, expected, before, trampled>>
         /\ pc'[w] \in {"verifying", "cleaning"}
         /\ pc'[w] = "verifying" => Sent(w) \in Content /\ read'[w] = Sent(w) /\ outcome'[w] = outcome[w]
  <1>1. /\ pc[w] = "copying" /\ UNCHANGED <<task, todo, turn, name, target, expected, before, trampled>>
        /\ pc'[w] \in {"verifying", "cleaning"}
    BY DEF CloudTypes, CopyToStage, CopyToLocal, Goto, Leave, taskVars, entryVars
  <1>2. ASSUME pc'[w] = "verifying"
        PROVE  Sent(w) # "none" /\ read' = [read EXCEPT ![w] = Sent(w)] /\ outcome' = outcome
    BY <1>2 DEF CloudTypes, CopyToStage, CopyToLocal, Goto, Leave
  <1> QED
    BY <1>1, <1>2, SentIsContent DEF CloudTypes

\* What is set at a path is seen there only.
LEMMA WriteUnseen ==
  ASSUME NEW e \in Path, NEW g \in Folder, NEW p \in Path, NEW o,
         Sets(g, p, o), o.by # e, o = NoObject \/ p # e,
         \A f \in Folder : at[f][e] = NoObject /\ \A n \in Path : at[f][n].by # e
  PROVE  \A f \in Folder : at'[f][e] = NoObject /\ \A n \in Path : at'[f][n].by # e
  <1> TAKE f \in Folder
  <1>1. at'[f][e] = NoObject
    BY DEF Sets
  <1>2. \A n \in Path : at'[f][n].by # e
    <2> TAKE n \in Path
    <2>1. CASE f = g /\ n = p
      BY <2>1 DEF Sets
    <2>2. CASE ~(f = g /\ n = p)
      BY <2>2 DEF Sets
    <2> QED
      BY <2>1, <2>2
  <1> QED
    BY <1>1, <1>2

\* A private name stays used, and a copy uses it.
LEMMA BegunStep ==
  ASSUME CloudTypes, NEW w \in Worker, StepOf(w)
  PROVE  /\ \A e \in Private : Begun(e) => Begun(e)'
         /\ pc[w] = "copying" => \A e \in Private : e = Own(w) => Begun(e)'
  <1> USE DEF CloudTypes, Before
  <1>a. \A q \in Worker \ {w} : pc'[q] = pc[q] /\ turn'[q] = turn[q]
    BY OthersFrame
  <1>b. /\ turn'[w] \in Nat /\ turn[w] \in Nat
        /\ \/ turn'[w] = turn[w] /\ (pc[w] \notin Before => pc'[w] \notin Before)
           \/ turn'[w] = turn[w] + 1
        /\ pc[w] = "copying" => turn'[w] = turn[w] /\ pc'[w] \notin Before
    <2>0. turn'[w] \in Nat /\ turn[w] \in Nat
      BY CloudAssumption, TypesStep
    <2>1. CASE RequestUpload(w)
      BY <2>1 DEF RequestUpload, Goto, Leave, storeVars, taskVars, entryVars
    <2>2. CASE RequestTransfer(w)
      BY <2>2 DEF RequestTransfer, Goto, Leave, storeVars, taskVars, entryVars
    <2>3. CASE DeleteFile(w)
      BY <2>3, DeleteFileEffect DEF taskVars
    <2>4. CASE ListFolder(w)
      BY <2>4 DEF ListFolder, Goto, Leave, storeVars, taskVars, entryVars
    <2>5. CASE MergeNext(w)
      BY <2>5, CloudAssumption DEF MergeNext, Goto, Leave, storeVars, taskVars, entryVars
    <2>6. CASE MergeDone(w)
      BY <2>6 DEF MergeDone, Goto, Leave, storeVars, taskVars, entryVars
    <2>7. CASE StatUpload(w)
      BY <2>7 DEF StatUpload, Goto, Leave, storeVars, taskVars, entryVars
    <2>8. CASE Inspect(w)
      BY <2>8 DEF Inspect, Goto, Leave, storeVars, taskVars, entryVars
    <2>9. CASE Resolve(w)
      BY <2>9 DEF Resolve, Goto, Leave, storeVars, taskVars, entryVars, Skip
    <2>10. CASE CopyToStage(w)
      BY <2>0, <2>10, CopyControl
    <2>11. CASE CopyToLocal(w)
      BY <2>0, <2>11, CopyControl
    <2>12. CASE Verify(w)
      BY <2>12 DEF Verify, Goto, Leave, storeVars, taskVars, entryVars
    <2>13. CASE CheckSource(w)
      BY <2>13 DEF CheckSource, Goto, Leave, storeVars, taskVars, entryVars
    <2>14. CASE CompareDestination(w)
      BY <2>14 DEF CompareDestination, Goto, Leave, storeVars, taskVars, entryVars
    <2>15. CASE MoveTo(w)
      BY <2>15, MoveToEffect DEF taskVars
    <2>16. CASE CheckSourceAgain(w)
      BY <2>16 DEF CheckSourceAgain, Goto, Leave, storeVars, taskVars, entryVars
    <2>17. CASE CheckLocalSource(w)
      BY <2>17 DEF CheckLocalSource, Goto, Leave, storeVars, taskVars, entryVars
    <2>18. CASE RemoveSource(w)
      BY <2>18, RemoveSourceEffect DEF taskVars
    <2>19. CASE Cleanup(w)
      BY <2>19, CleanupEffect DEF taskVars
    <2> QED
      BY <2>0, <2>1, <2>2, <2>3, <2>4, <2>5, <2>6, <2>7, <2>8, <2>9, <2>10, <2>11, <2>12, <2>13, <2>14,
         <2>15, <2>16, <2>17, <2>18, <2>19 DEF StepOf
  <1>c. \A e \in Private : e[1] \in Worker /\ e[2] \in Nat
    BY CloudAssumption DEF Private
  <1>1. ASSUME NEW e \in Private, Begun(e)
        PROVE  Begun(e)'
    <2>1. e[1] \in Worker /\ e[2] \in Nat /\ turn[e[1]] \in Nat
      BY <1>c
    <2>2. CASE e[1] # w
      BY <1>1, <1>a, <2>1, <2>2 DEF Begun
    <2>3. CASE e[1] = w
      BY <1>1, <1>b, <2>1, <2>3 DEF Begun
    <2> QED
      BY <2>2, <2>3
  <1>2. ASSUME pc[w] = "copying", NEW e \in Private, e = Own(w)
        PROVE  Begun(e)'
    <2>1. e[1] = w /\ e[2] = turn[w]
      BY <1>2 DEF Own
    <2> QED
      BY <1>2, <1>b, <2>1 DEF Begun
  <1> QED
    BY <1>1, <1>2

\* A private name that is still unused is still unseen.
LEMMA UnseenStep ==
  ASSUME CloudTypes, Control, Apart, Unseen, NEW w \in Worker, StepOf(w)
  PROVE  Unseen'
  <1> SUFFICES ASSUME NEW e \in Private, ~Begun(e)'
               PROVE  UnseenAt(e)'
    BY DEF Unseen
  <1>a. ~Begun(e) /\ UnseenAt(e) /\ (pc[w] = "copying" => e # Own(w))
    BY BegunStep DEF Unseen
  <1>b. \A q \in Worker \ {w} : todo'[q] = todo[q] /\ name'[q] = name[q] /\ target'[q] = target[q]
        /\ before'[q] = before[q]
    BY OthersFrame
  <1>c. e \in Path /\ e \notin Name /\ e \notin Aside /\ e # Nobody
    BY CloudAssumption DEF Private, Path, Nobody
  <1>n. Name \subseteq Path
    BY DEF Path
  <1>d. NoObject.by # e
    BY <1>c DEF NoObject
  <1> DEFINE Mine == e \notin todo'[w] /\ name'[w] # e /\ target'[w] # e /\ before'[w].by # e
             There == \A f \in Folder : at'[f][e] = NoObject /\ \A p \in Path : at'[f][p].by # e
  <1> SUFFICES Mine /\ There
    BY <1>a, <1>b DEF UnseenAt
  <1> USE DEF UnseenAt, CloudTypes
  <1>1. CASE RequestUpload(w)
    <2>1. UNCHANGED <<storeVars, todo, name, before>> /\ target'[w] \in Name
      BY <1>1 DEF RequestUpload
    <2> QED
      BY <1>a, <1>c, <2>1 DEF storeVars
  <1>2. CASE RequestTransfer(w)
    <2>1. UNCHANGED <<storeVars, todo, before>>
      BY <1>2 DEF RequestTransfer
    <2>2. (target'[w] \in Name /\ name'[w] \in Name) \/ UNCHANGED <<target, name>>
      BY <1>2 DEF RequestTransfer
    <2>3. There
      BY <1>a, <2>1 DEF storeVars
    <2>4. target'[w] # e /\ name'[w] # e
      BY <1>a, <1>c, <2>2
    <2> QED
      BY <1>a, <2>1, <2>3, <2>4
  <1>3. CASE DeleteFile(w)
    <2>1. UNCHANGED <<taskVars, entryVars>>
      BY <1>3, DeleteFileEffect
    <2>2. Mine
      BY <1>a, <2>1 DEF taskVars, entryVars
    <2>3. task[w].to \in Folder /\ task[w].from \in Folder /\ name[w] \in Path
      OBVIOUS
    <2>4. UNCHANGED at \/ \E g \in Folder, p \in Path : Sets(g, p, NoObject)
      BY <2>3, <1>3, DeleteFileEffect, <1>n
    <2>5. There
      <3>1. ASSUME NEW g \in Folder, NEW p \in Path, Sets(g, p, NoObject)
            PROVE  There
        BY <1>a, <1>c, <1>d, <3>1, WriteUnseen
      <3> QED
        BY <1>a, <2>4, <3>1
    <2> QED
      BY <2>2, <2>5
  <1>4. CASE ListFolder(w)
    <2>1. task[w].from \in Folder
      OBVIOUS
    <2>2. PICK S : S = {n \in Path : at[task[w].from][n] # NoObject}
      OBVIOUS
    <2>3. e \notin S
      BY <1>a, <1>c, <2>1, <2>2
    <2>4. UNCHANGED <<storeVars, entryVars>> /\ (todo'[w] = S \/ UNCHANGED todo)
      BY <1>4, <2>2 DEF ListFolder
    <2> QED
      BY <1>a, <2>3, <2>4 DEF storeVars, entryVars
  <1>5. CASE MergeNext(w)
    <2>1. /\ UNCHANGED <<storeVars, before>>
          /\ \E n \in todo[w] : todo'[w] = todo[w] \ {n} /\ name'[w] = n /\ target'[w] = n
      BY <1>5 DEF MergeNext
    <2> QED
      BY <1>a, <2>1 DEF storeVars
  <1>6. CASE MergeDone(w)
    BY <1>a, <1>c, <1>6 DEF MergeDone, Goto, Leave, storeVars, taskVars, entryVars
  <1>7. CASE StatUpload(w)
    BY <1>a, <1>c, <1>7 DEF StatUpload, Goto, Leave, storeVars, taskVars, entryVars
  <1>8. CASE Inspect(w)
    <2>1. UNCHANGED <<storeVars, taskVars, name, target>> /\ (before'[w] = Src(w) \/ UNCHANGED before)
      BY <1>8 DEF Inspect
    <2>2. task[w].from \in Folder /\ name[w] \in Path
      OBVIOUS
    <2>3. Src(w).by # e
      BY <1>a, <2>2 DEF Src
    <2> QED
      BY <1>a, <2>1, <2>3 DEF storeVars, taskVars
  <1>9. CASE Resolve(w)
    <2>1. UNCHANGED <<storeVars, taskVars, name, before>>
          /\ (target'[w] \in Alike(target[w]) \/ UNCHANGED target)
      BY <1>9 DEF Resolve, Goto, Leave, storeVars, taskVars, entryVars, Skip
    <2> QED
      BY <1>a, <1>c, <2>1 DEF storeVars, taskVars, Alike
  <1>10. CASE CopyToStage(w)
    <2>1. UNCHANGED <<taskVars, entryVars>>
      BY <1>10, CopyToStageEffect
    <2>2. Mine
      BY <1>a, <2>1 DEF taskVars, entryVars
    <2>3. pc[w] = "copying" /\ task[w].to \in Folder
      BY <1>10, CopyToStageEffect
    <2>4. \/ UNCHANGED at
          \/ \E c \in Content : Sets(task[w].to, Own(w), [content |-> c, by |-> Own(w)])
      BY <1>10, CopyToStageEffect
    <2>5. There
      <3>1. CASE UNCHANGED at
        BY <1>a, <3>1
      <3>2. ASSUME NEW c \in Content, Sets(task[w].to, Own(w), [content |-> c, by |-> Own(w)])
            PROVE  There
        <4>1. [content |-> c, by |-> Own(w)].by = Own(w) /\ Own(w) \in Path
          BY OwnIsPrivate
        <4> QED
          BY <1>a, <1>c, <2>3, <3>2, <4>1, WriteUnseen
      <3> QED
        BY <2>4, <3>1, <3>2
    <2> QED
      BY <2>2, <2>5
  <1>11. CASE CopyToLocal(w)
    <2>1. UNCHANGED <<taskVars, entryVars>>
      BY <1>11, CopyToLocalEffect
    <2>2. Mine
      BY <1>a, <2>1 DEF taskVars, entryVars
    <2>3. pc[w] = "copying" /\ task[w].to \in Folder
      BY <1>11, CopyToLocalEffect
    <2>4. \/ UNCHANGED at
          \/ Sets(task[w].to, target[w], [content |-> Sent(w), by |-> Own(w)])
      BY <1>11, CopyToLocalEffect
    <2>5. There
      <3>1. CASE UNCHANGED at
        BY <1>a, <3>1
      <3>2. ASSUME Sets(task[w].to, target[w], [content |-> Sent(w), by |-> Own(w)])
            PROVE  There
        <4>1. PICK o : o = [content |-> Sent(w), by |-> Own(w)]
          OBVIOUS
        <4>2. o.by # e /\ target[w] # e /\ target[w] \in Path /\ Sets(task[w].to, target[w], o)
          BY <1>a, <2>3, <3>2, <4>1
        <4>3. \A f \in Folder : at[f][e] = NoObject /\ \A n \in Path : at[f][n].by # e
          BY <1>a
        <4> HIDE DEF CloudTypes
        <4> QED
          BY <1>c, <2>3, <4>2, <4>3, WriteUnseen
      <3> QED
        BY <2>4, <3>1, <3>2
    <2> QED
      BY <2>2, <2>5
  <1>12. CASE Verify(w)
    BY <1>a, <1>c, <1>12 DEF Verify, Goto, Leave, storeVars, taskVars, entryVars
  <1>13. CASE CheckSource(w)
    BY <1>a, <1>c, <1>13 DEF CheckSource, Goto, Leave, storeVars, taskVars, entryVars
  <1>14. CASE CompareDestination(w)
    BY <1>a, <1>c, <1>14 DEF CompareDestination, Goto, Leave, storeVars, taskVars, entryVars
  <1>15. CASE MoveTo(w)
    <2>1. UNCHANGED <<taskVars, entryVars>>
      BY <1>15, MoveToEffect
    <2>2. Mine
      BY <1>a, <2>1 DEF taskVars, entryVars
    <2>3. task[w].to \in Folder /\ Own(w) \in Path
      BY OwnIsPrivate
    <2>4. \/ UNCHANGED at
          \/ \A g \in Folder, q \in Path :
                    at'[g][q] = IF g = task[w].to /\ q = Own(w) THEN NoObject
                                ELSE IF g = task[w].to /\ q = target[w] THEN Stage(w) ELSE at[g][q]
      BY <1>15, MoveToEffect DEF storeVars
    <2>6. Stage(w).by # e
      BY <1>a, <2>3 DEF Stage
    <2>5. There
      <3>1. CASE UNCHANGED at
        BY <1>a, <3>1
      <3>2. CASE ~UNCHANGED at
        <4>1. \A g \in Folder, q \in Path : at'[g][q] = NoObject \/ at'[g][q] = at[g][q] \/
                 (at'[g][q] = Stage(w) /\ q = target[w])
          BY <2>4, <3>2
        <4>2. \A g \in Folder : at'[g][e] = NoObject
          BY <1>a, <1>c, <4>1
        <4>3. ASSUME NEW g \in Folder, NEW q \in Path
              PROVE  at'[g][q].by # e
          <5>1. CASE at'[g][q] = NoObject
            BY <1>d, <5>1
          <5>2. CASE at'[g][q] = at[g][q]
            BY <1>a, <5>2
          <5>3. CASE at'[g][q] = Stage(w)
            BY <2>6, <5>3
          <5> QED
            BY <4>1, <5>1, <5>2, <5>3
        <4> QED
          BY <4>2, <4>3
      <3> QED
        BY <3>1, <3>2
    <2> QED
      BY <2>2, <2>5
  <1>16. CASE CheckSourceAgain(w)
    BY <1>a, <1>c, <1>16 DEF CheckSourceAgain, Goto, Leave, storeVars, taskVars, entryVars
  <1>17. CASE CheckLocalSource(w)
    BY <1>a, <1>c, <1>17 DEF CheckLocalSource, Goto, Leave, storeVars, taskVars, entryVars
  <1>18. CASE RemoveSource(w)
    <2>1. UNCHANGED <<taskVars, entryVars>>
      BY <1>18, RemoveSourceEffect
    <2>2. Mine
      BY <1>a, <2>1 DEF taskVars, entryVars
    <2>3. task[w].to \in Folder /\ task[w].from \in Folder /\ name[w] \in Path
      OBVIOUS
    <2>4. UNCHANGED at \/ \E g \in Folder, p \in Path : Sets(g, p, NoObject)
      BY <2>3, <1>18, RemoveSourceEffect
    <2>5. There
      <3>1. ASSUME NEW g \in Folder, NEW p \in Path, Sets(g, p, NoObject)
            PROVE  There
        BY <1>a, <1>c, <1>d, <3>1, WriteUnseen
      <3> QED
        BY <1>a, <2>4, <3>1
    <2> QED
      BY <2>2, <2>5
  <1>19. CASE Cleanup(w)
    <2>1. UNCHANGED <<taskVars, entryVars>>
      BY <1>19, CleanupEffect
    <2>2. Mine
      BY <1>a, <2>1 DEF taskVars, entryVars
    <2>3. task[w].to \in Folder /\ task[w].from \in Folder /\ name[w] \in Path
      OBVIOUS
    <2>4. UNCHANGED at \/ \E g \in Folder, p \in Path : Sets(g, p, NoObject)
      BY <2>3, <1>19, CleanupEffect, OwnIsPrivate
    <2>5. There
      <3>1. ASSUME NEW g \in Folder, NEW p \in Path, Sets(g, p, NoObject)
            PROVE  There
        BY <1>a, <1>c, <1>d, <3>1, WriteUnseen
      <3> QED
        BY <1>a, <2>4, <3>1
    <2> QED
      BY <2>2, <2>5
  <1> QED
    BY <1>1, <1>2, <1>3, <1>4, <1>5, <1>6, <1>7, <1>8, <1>9, <1>10, <1>11, <1>12, <1>13, <1>14, <1>15,
       <1>16, <1>17, <1>18, <1>19 DEF StepOf

-----------------------------------------------------------------------------
(* What goes under a private name is one thing, and garbled contents stay there. *)

\* The request has a copy of what was at path p.
Carries(v, p) == task[v].kind # "upload" /\ name[v] = p /\ pc[v] \in Copied
\* Contents c are at path p of a folder, or a copy of that.
Holds(p, c) ==
  \/ \E f \in Folder : at[f][p] # NoObject /\ at[f][p].content = c
  \/ \E v \in Worker : Carries(v, p) /\ read[v] = c

\* What goes under a private name is one thing wherever it was taken.
Uniform == \A p \in Private : \A c, d \in Content : Holds(p, c) /\ Holds(p, d) => c = d

\* What was read back stays what was read back.
Checked ==
  \A w \in Worker :
    pc[w] \in {"checking", "comparing", "publishing"} /\ IsCloud(task[w].to) =>
      \A c \in Content : Holds(Own(w), c) => c = read[w]

\* No copy that goes to a public name is garbled.
Clean ==
  /\ OnlyVerifiedPublic
  /\ \A v \in Worker : pc[v] \in Copied /\ target[v] \in Name => read[v] # "garbage"

\* Where there is an object, there is content.
LEMMA ObjectContent ==
  ASSUME CloudTypes, NEW f \in Folder, NEW p \in Path
  PROVE  /\ at[f][p] \in Object
         /\ at[f][p] # NoObject <=> at[f][p].content \in Content
         /\ at[f][p].content \in Content \cup {"none"}
  <1>1. at[f][p] \in Object
    BY DEF CloudTypes
  <1>2. "none" \notin Content
    BY CloudAssumption DEF Content
  <1> QED
    BY <1>1, <1>2 DEF Object, NoObject

\* What a copy is made of is at its source.
LEMMA SentIsHeld ==
  ASSUME CloudTypes, NEW w \in Worker, task[w].kind # "upload", Sent(w) \in Content
  PROVE  Holds(name[w], Sent(w))
  <1>1. task[w].from \in Folder /\ name[w] \in Path
    BY DEF CloudTypes
  <1> QED
    BY <1>1, ObjectContent DEF Holds, Sent, Src

\* Nothing is, or is a copy of what is, under a private name that is not used yet.
LEMMA OwnUnheld ==
  ASSUME CloudTypes, Unseen, NEW w \in Worker, pc[w] = "copying"
  PROVE  /\ \A f \in Folder : at[f][Own(w)] = NoObject
         /\ \A v \in Worker : name[v] # Own(w) /\ target[v] # Own(w)
         /\ \A f \in Folder, p \in Path : at[f][p].by # Own(w)
         /\ \A v \in Worker : before[v].by # Own(w)
  <1>1. Own(w) \in Private
    BY OwnIsPrivate
  <1>2. Own(w)[1] = w /\ Own(w)[2] = turn[w] /\ turn[w] \in Nat
    BY CloudAssumption DEF Own, CloudTypes
  <1>3. ~Begun(Own(w))
    BY <1>2 DEF Begun, Before
  <1> QED
    BY <1>1, <1>3 DEF Unseen, UnseenAt

\* What is staged when it is published is what was read.
LEMMA StageIsRead ==
  ASSUME CloudTypes, Checked, NEW w \in Worker, pc[w] \in {"checking", "comparing", "publishing"},
         IsCloud(task[w].to), Stage(w) # NoObject
  PROVE  Stage(w).content = read[w] /\ Stage(w).content \in Content
  <1>1. task[w].to \in Folder /\ Own(w) \in Path
    BY OwnIsPrivate DEF CloudTypes
  <1>2. Stage(w).content \in Content /\ Holds(Own(w), Stage(w).content)
    BY <1>1, ObjectContent DEF Stage, Holds
  <1> QED
    BY <1>2 DEF Checked

\* A step that writes is one of six.
LEMMA Steps ==
  ASSUME NEW w \in Worker, StepOf(w)
  PROVE  \/ Quiet(w) \/ CopyToStage(w) \/ CopyToLocal(w) \/ MoveTo(w) \/ RemoveSource(w)
         \/ Cleanup(w) \/ DeleteFile(w)
  BY DEF StepOf, Quiet

\* Nothing new comes under a private name but by the request that drew it.
LEMMA HoldsStep ==
  ASSUME CloudTypes, Control, Apart, Checked, NEW w \in Worker, StepOf(w),
         NEW p \in Private, NEW c \in Content, Holds(p, c)', CopyToStage(w) => p # Own(w)
  PROVE  Holds(p, c)
  <1>a. p \in Path /\ p \notin Name
    BY CloudAssumption DEF Path
  <1>b. \A q \in Worker \ {w} : pc'[q] = pc[q] /\ task'[q] = task[q] /\ name'[q] = name[q]
        /\ read'[q] = read[q]
    BY OthersFrame
  <1>c. ASSUME NEW v \in Worker \ {w}, Carries(v, p)', read'[v] = c
        PROVE  Holds(p, c)
    BY <1>b, <1>c DEF Carries, Holds
  <1>d. ASSUME Quiet(w) \/ RemoveSource(w) \/ Cleanup(w) \/ DeleteFile(w) \/ MoveTo(w),
               Carries(w, p)', read'[w] = c
        PROVE  Holds(p, c)
    <2>1. pc'[w] \in Copied
      BY <1>d DEF Carries
    <2>2. Quiet(w)
      BY <1>d, <2>1, RemoveSourceEffect, CleanupEffect, DeleteFileEffect, MoveToEffect DEF Copied, CloudTypes
    <2>3. pc[w] \in Copied \cup Public /\ UNCHANGED <<task, name, read>>
      BY <2>1, <2>2, QuietStep DEF taskVars
    <2>4. pc[w] \in Copied
      BY <2>1, <2>2, QuietStep
    <2> QED
      BY <1>d, <2>3, <2>4 DEF Carries, Holds
  <1>e. ASSUME CopyToStage(w) \/ CopyToLocal(w), Carries(w, p)', read'[w] = c
        PROVE  Holds(p, c)
    <2>1. UNCHANGED <<task, name>> /\ pc'[w] \in Copied
      BY <1>e, CopyControl DEF Carries
    <2>2. task[w].kind # "upload" /\ name[w] = p
      BY <1>e, <2>1 DEF Carries
    <2>3. pc'[w] # "cleaning"
      BY <2>1 DEF Copied
    <2>4. Sent(w) \in Content /\ read'[w] = Sent(w)
      BY <1>e, <2>3, CopyControl
    <2> QED
      BY <1>e, <2>2, <2>4, SentIsHeld
  <1>f. CASE \E v \in Worker : Carries(v, p)' /\ read'[v] = c
    BY <1>c, <1>d, <1>e, <1>f, Steps
  <1>g. ASSUME NEW f \in Folder, at'[f][p] # NoObject, at'[f][p].content = c
        PROVE  Holds(p, c)
    <2>0. CASE at'[f][p] = at[f][p]
      BY <1>g, <2>0 DEF Holds
    <2>1. CASE Quiet(w)
      <3>1. at' = at
        BY <2>1, QuietStep DEF storeVars
      <3> QED
        BY <2>0, <3>1
    <2>2. CASE CopyToStage(w)
      <3>1. UNCHANGED at \/ \E d \in Content : Sets(task[w].to, Own(w), [content |-> d, by |-> Own(w)])
        BY <2>2, CopyToStageEffect
      <3> QED
        BY <1>a, <2>0, <2>2, <3>1 DEF Sets
    <2>3. CASE CopyToLocal(w)
      <3>1. \/ UNCHANGED at
            \/ Sent(w) \in Content /\ Sets(task[w].to, target[w], [content |-> Sent(w), by |-> Own(w)])
        BY <2>3, CopyToLocalEffect
      <3>2. CASE at'[f][p] # at[f][p]
        <4>1. Sent(w) \in Content /\ p = target[w] /\ at'[f][p].content = Sent(w)
          BY <1>a, <3>1, <3>2 DEF Sets
        <4>2. name[w] = p /\ task[w].kind # "upload"
          BY <1>a, <4>1 DEF Apart
        <4> QED
          BY <1>g, <4>1, <4>2, SentIsHeld
      <3> QED
        BY <2>0, <3>2
    <2>4. CASE MoveTo(w)
      <3>1. \/ UNCHANGED at
            \/ /\ Stage(w) # NoObject
               /\ \A g \in Folder, q \in Path :
                    at'[g][q] = IF g = task[w].to /\ q = Own(w) THEN NoObject
                                ELSE IF g = task[w].to /\ q = target[w] THEN Stage(w) ELSE at[g][q]
        BY <2>4, MoveToEffect DEF storeVars
      <3>2. CASE at'[f][p] # at[f][p]
        <4>1. Stage(w) # NoObject /\ p = target[w] /\ at'[f][p] = Stage(w)
          BY <1>a, <1>g, <3>1, <3>2
        <4>2. name[w] = p /\ task[w].kind # "upload"
          BY <1>a, <4>1 DEF Apart
        <4>3. pc[w] = "publishing" /\ IsCloud(task[w].to)
          BY <2>4, MoveToEffect DEF Control, OneControl
        <4>4. Stage(w).content = read[w]
          BY <4>1, <4>3, StageIsRead
        <4>5. Carries(w, p)
          BY <4>2, <4>3 DEF Carries, Copied
        <4> QED
          BY <1>g, <4>1, <4>4, <4>5 DEF Holds
      <3> QED
        BY <2>0, <3>2
    <2>5. CASE RemoveSource(w) \/ Cleanup(w) \/ DeleteFile(w)
      <3>1. UNCHANGED at \/ \E g \in Folder, q \in Path : Sets(g, q, NoObject)
        <4>1. task[w].from \in Folder /\ name[w] \in Path /\ task[w].to \in Folder /\ Own(w) \in Path
              /\ Name \subseteq Path
          BY OwnIsPrivate DEF CloudTypes, Path
        <4> QED
          BY <2>5, <4>1, RemoveSourceEffect, CleanupEffect, DeleteFileEffect
      <3> QED
        BY <1>a, <1>g, <2>0, <3>1 DEF Sets
    <2> QED
      BY <2>1, <2>2, <2>3, <2>4, <2>5, Steps
  <1> QED
    BY <1>f, <1>g DEF Holds

\* What a step stages is all there is under that private name.
LEMMA StagedAlone ==
  ASSUME CloudTypes, Unseen, NEW w \in Worker, StepOf(w), CopyToStage(w),
         NEW c \in Content, NEW d \in Content, NEW p \in Private, p = Own(w), Holds(p, c)', Holds(p, d)'
  PROVE  c = d
  <1>1. /\ pc[w] = "copying"
        /\ \A f \in Folder : at[f][p] = NoObject
        /\ \A v \in Worker : name[v] # p
    BY OwnUnheld, CopyControl
  <1>2. name' = name
    BY CopyControl
  <1>3. /\ \E f \in Folder : at'[f][p] # NoObject /\ at'[f][p].content = c
        /\ \E f \in Folder : at'[f][p] # NoObject /\ at'[f][p].content = d
    BY <1>1, <1>2 DEF Holds, Carries
  <1>4. UNCHANGED at \/ \E b \in Content : Sets(task[w].to, p, [content |-> b, by |-> p])
    BY CopyToStageEffect
  <1> QED
    BY <1>1, <1>3, <1>4 DEF Sets, Path

\* Every step keeps what is under private names uniform.
LEMMA UniformStep ==
  ASSUME CloudTypes, Control, Apart, Unseen, Uniform, Checked, NEW w \in Worker, StepOf(w)
  PROVE  Uniform'
  <1> SUFFICES ASSUME NEW p \in Private, NEW c \in Content, NEW d \in Content, Holds(p, c)', Holds(p, d)'
               PROVE  c = d
    BY DEF Uniform
  <1>1. CASE CopyToStage(w) /\ p = Own(w)
    BY <1>1, StagedAlone
  <1>2. CASE ~(CopyToStage(w) /\ p = Own(w))
    BY <1>2, HoldsStep DEF Uniform
  <1> QED
    BY <1>1, <1>2

\* Every step keeps what was read back.
LEMMA CheckedStep ==
  ASSUME CloudTypes, Control, Apart, Unseen, Uniform, Checked, NEW w \in Worker, StepOf(w)
  PROVE  Checked'
  <1> SUFFICES ASSUME NEW v \in Worker, pc'[v] \in {"checking", "comparing", "publishing"},
                      IsCloud(task'[v].to), NEW c \in Content, Holds(Own(v), c)'
               PROVE  c = read'[v]
    BY DEF Checked, IsCloud
  <1>0. CloudTypes'
    BY TypesStep
  <1>1. CASE v # w
    <2>1. pc'[v] = pc[v] /\ task'[v] = task[v] /\ read'[v] = read[v] /\ turn'[v] = turn[v]
      BY <1>1, OthersFrame
    <2>2. PICK p : p = Own(v)
      OBVIOUS
    <2>3. p \in Private /\ p # Own(w) /\ p = Own(v)'
      BY <1>1, <2>1, <2>2, OwnIsPrivate DEF Own
    <2>4. Holds(p, c)
      BY <2>3, HoldsStep
    <2> QED
      BY <2>1, <2>2, <2>4 DEF Checked
  <1>2. CASE v = w
    <2>1. ~(CopyToStage(w) \/ CopyToLocal(w) \/ MoveTo(w) \/ RemoveSource(w) \/ Cleanup(w) \/ DeleteFile(w))
      <3>1. ~(CopyToStage(w) \/ CopyToLocal(w))
        BY <1>2, CopyControl
      <3>2. ~MoveTo(w)
        BY <1>2, MoveToEffect DEF CloudTypes
      <3>3. ~(RemoveSource(w) \/ Cleanup(w) \/ DeleteFile(w))
        BY <1>2, RemoveSourceEffect, CleanupEffect, DeleteFileEffect DEF CloudTypes
      <3> QED
        BY <3>1, <3>2, <3>3
    <2>2. Quiet(w)
      BY <2>1, Steps
    <2>3. UNCHANGED <<storeVars, read, taskVars, name, target, before>>
      BY <1>2, <2>2, QuietStep DEF Copied
    <2>4. PICK p : p = Own(w)
      OBVIOUS
    <2>5. p \in Private /\ p \in Path /\ p = Own(w)'
      BY <2>3, <2>4, OwnIsPrivate DEF Own, taskVars
    <2>6. Holds(p, c)
      BY <1>2, <2>1, <2>5, HoldsStep
    <2>7. pc[w] \in {"checking", "comparing"} \/ (pc[w] = "verifying" /\ Verified(w))
      BY <1>2, <2>2, QuietStep
    <2>8. CASE pc[w] \in {"checking", "comparing"}
      BY <1>2, <2>3, <2>4, <2>6, <2>8 DEF Checked, taskVars
    <2>9. CASE pc[w] = "verifying" /\ Verified(w)
      <3>1. IsCloud(task[w].to) /\ Stage(w).content = read[w]
        BY <1>2, <2>3, <2>9 DEF Verified, taskVars
      <3>2. read[w] # "none"
        BY <2>9 DEF Control, OneControl, Copied
      <3>3. task[w].to \in Folder
        BY DEF CloudTypes
      <3>4. read[w] \in Content /\ Holds(p, read[w])
        BY <2>4, <2>5, <3>1, <3>2, <3>3, ObjectContent DEF Stage, Holds
      <3> QED
        BY <1>2, <2>3, <2>5, <2>6, <3>4 DEF Uniform
    <2> QED
      BY <2>7, <2>8, <2>9
  <1> QED
    BY <1>1, <1>2

\* Every step keeps garbled contents from public names.
LEMMA CleanStep ==
  ASSUME CloudTypes, Control, Apart, Checked, Clean, NEW w \in Worker, StepOf(w)
  PROVE  Clean'
  <1>a. \A q \in Worker \ {w} : pc'[q] = pc[q] /\ target'[q] = target[q] /\ read'[q] = read[q]
    BY OthersFrame
  <1>b. Name \subseteq Path /\ Own(w) \notin Name /\ Name \cap Private = {} /\ task[w].to \in Folder
        /\ target[w] \in Path
        /\ Own(w) \in Path
    BY CloudAssumption, OwnIsPrivate DEF Path, CloudTypes
  <1>c. ASSUME pc[w] = "copying", target[w] \in Name
        PROVE  Sent(w) # "garbage"
    <2>1. CASE task[w].kind = "upload"
      BY <2>1, CloudAssumption DEF Sent
    <2>2. CASE task[w].kind # "upload"
      <3>1. name[w] \in Name /\ task[w].from \in Folder
        BY <1>c DEF Apart, CloudTypes
      <3> QED
        BY <2>2, <3>1 DEF Sent, Src, Clean, OnlyVerifiedPublic
    <2> QED
      BY <2>1, <2>2
  <1>1. \A v \in Worker : pc'[v] \in Copied /\ target'[v] \in Name => read'[v] # "garbage"
    <2> SUFFICES ASSUME pc'[w] \in Copied, target'[w] \in Name
                 PROVE  read'[w] # "garbage"
      BY <1>a DEF Clean
    <2>1. CASE CopyToStage(w) \/ CopyToLocal(w)
      <3>1. pc[w] = "copying" /\ UNCHANGED target /\ pc'[w] # "cleaning"
        BY <2>1, CopyControl DEF Copied
      <3>2. read'[w] = Sent(w)
        BY <2>1, <3>1, CopyControl
      <3> QED
        BY <1>c, <3>1, <3>2
    <2>2. CASE Quiet(w)
      <3>1. pc[w] \in Copied /\ UNCHANGED <<read, target>>
        BY <2>2, QuietStep
      <3> QED
        BY <3>1 DEF Clean
    <2> QED
      BY <2>1, <2>2, Steps, MoveToEffect, RemoveSourceEffect, CleanupEffect, DeleteFileEffect
        DEF Copied, CloudTypes
  <1>2. ASSUME NEW f \in Folder, NEW n \in Name, at'[f][n].content = "garbage"
        PROVE  FALSE
    <2>0. at'[f][n] # at[f][n]
      BY <1>2 DEF Clean, OnlyVerifiedPublic
    <2>1. CASE Quiet(w)
      BY <2>0, <2>1, QuietStep DEF storeVars
    <2>2. CASE CopyToStage(w)
      <3>1. UNCHANGED at \/ \E d \in Content : Sets(task[w].to, Own(w), [content |-> d, by |-> Own(w)])
        BY <2>2, CopyToStageEffect
      <3> QED
        BY <1>b, <2>0, <3>1 DEF Sets
    <2>3. CASE CopyToLocal(w)
      <3>1. UNCHANGED at \/ Sets(task[w].to, target[w], [content |-> Sent(w), by |-> Own(w)])
        BY <2>3, CopyToLocalEffect
      <3>2. pc[w] = "copying"
        BY <2>3, CopyControl
      <3> QED
        BY <1>b, <1>c, <1>2, <2>0, <3>1, <3>2 DEF Sets
    <2>4. CASE MoveTo(w)
      <3>1. Stage(w) # NoObject /\ n = target[w] /\ at'[f][n] = Stage(w)
        BY <1>b, <2>0, <2>4, MoveToEffect DEF storeVars
      <3>2. pc[w] = "publishing" /\ IsCloud(task[w].to)
        BY <2>4, MoveToEffect DEF Control, OneControl
      <3>3. Stage(w).content = read[w]
        BY <3>1, <3>2, StageIsRead
      <3> QED
        BY <1>2, <3>1, <3>2, <3>3 DEF Clean, Copied
    <2>5. CASE RemoveSource(w) \/ Cleanup(w) \/ DeleteFile(w)
      <3>1. UNCHANGED at \/ \E g \in Folder, q \in Path : Sets(g, q, NoObject)
        <4>1. task[w].from \in Folder /\ name[w] \in Path
          BY DEF CloudTypes
        <4> QED
          BY <1>b, <2>5, <4>1, RemoveSourceEffect, CleanupEffect, DeleteFileEffect
      <3>2. NoObject.content # "garbage"
        BY DEF NoObject
      <3> QED
        BY <1>b, <1>2, <2>0, <3>1, <3>2 DEF Sets
    <2> QED
      BY <2>1, <2>2, <2>3, <2>4, <2>5, Steps
  <1> QED
    BY <1>1, <1>2 DEF Clean, OnlyVerifiedPublic

-----------------------------------------------------------------------------
(* An inspected object stays where it was, or goes. *)

\* An object is in one place.
Placed ==
  \A f, g \in Folder, p, q \in Path : at[f][p] = at[g][q] /\ at[f][p] # NoObject => f = g /\ p = q

\* The request has looked at a source with a public name and goes on, or came to the end.
Looked(v) ==
  /\ task[v].kind # "upload" /\ name[v] \in Name
  /\ \/ pc[v] \in {"resolving", "copying"} \cup Copied \cup Public
     \/ pc[v] \in {"cleaning", "done"} /\ ~task[v].whole /\ outcome[v] = "ok"

\* The object that was inspected is where it was, or nowhere.
Stays ==
  \A v \in Worker : Looked(v) =>
    /\ before[v] # NoObject
    /\ \A f \in Folder, p \in Path : at[f][p] = before[v] => f = task[v].from /\ p = name[v]

\* While the inspected object is there, what was read is what it contains.
ReadTrue ==
  \A v \in Worker :
    Looked(v) /\ pc[v] \in Copied \cup Public /\ Src(v) = before[v] => read[v] = before[v].content

\* How MoveTo changes the store.
Moves(w) ==
  /\ Stage(w) # NoObject
  /\ \A g \in Folder, q \in Path :
       at'[g][q] = IF g = task[w].to /\ q = Own(w) THEN NoObject
                   ELSE IF g = task[w].to /\ q = target[w] THEN Stage(w) ELSE at[g][q]

\* An object that comes somewhere is new, or what was staged.
LEMMA ObjectsStep ==
  ASSUME CloudTypes, NEW w \in Worker, StepOf(w), NEW f \in Folder, NEW p \in Path,
         at'[f][p] # NoObject, at'[f][p] # at[f][p]
  PROVE  /\ f = task[w].to
         /\ \/ /\ pc[w] = "copying" /\ at'[f][p].by = Own(w)
               /\ \A g \in Folder, q \in Path : ~(g = f /\ q = p) => at'[g][q] = at[g][q]
            \/ MoveTo(w) /\ Moves(w) /\ p = target[w] /\ p # Own(w) /\ at'[f][p] = Stage(w)
  <1>a. task[w].from \in Folder /\ name[w] \in Path /\ task[w].to \in Folder /\ target[w] \in Path
        /\ Own(w) \in Path
        /\ Name \subseteq Path
    BY OwnIsPrivate DEF CloudTypes, Path
  <1>1. CASE Quiet(w)
    BY <1>1, QuietStep DEF storeVars
  <1>2. CASE CopyToStage(w)
    <2>1. \E c \in Content : Sets(task[w].to, Own(w), [content |-> c, by |-> Own(w)])
      BY <1>2, CopyToStageEffect
    <2>2. pc[w] = "copying"
      BY <1>2, CopyControl
    <2> QED
      BY <1>a, <2>1, <2>2 DEF Sets
  <1>3. CASE CopyToLocal(w)
    <2>1. PICK o : o = [content |-> Sent(w), by |-> Own(w)]
      OBVIOUS
    <2>2. Sets(task[w].to, target[w], o) /\ o.by = Own(w)
      BY <1>3, <2>1, CopyToLocalEffect
    <2>3. pc[w] = "copying"
      BY <1>3, CopyControl
    <2> QED
      BY <1>a, <2>2, <2>3 DEF Sets
  <1>4. CASE MoveTo(w)
    <2>1. Moves(w)
      BY <1>4, MoveToEffect DEF storeVars, Moves
    <2> QED
      BY <1>a, <1>4, <2>1 DEF Moves
  <1>5. CASE RemoveSource(w) \/ Cleanup(w) \/ DeleteFile(w)
    <2>1. UNCHANGED at \/ \E g \in Folder, q \in Path : Sets(g, q, NoObject)
      BY <1>5, <1>a, RemoveSourceEffect, CleanupEffect, DeleteFileEffect
    <2> QED
      BY <1>a, <2>1 DEF Sets
  <1> QED
    BY <1>1, <1>2, <1>3, <1>4, <1>5, Steps

\* No step puts an object in two places.
LEMMA PlacedStep ==
  ASSUME CloudTypes, Unseen, Placed, NEW w \in Worker, StepOf(w)
  PROVE  Placed'
  <1> SUFFICES ASSUME NEW f \in Folder, NEW g \in Folder, NEW p \in Path, NEW q \in Path,
                      at'[f][p] = at'[g][q], at'[f][p] # NoObject, ~(f = g /\ p = q)
               PROVE  FALSE
    BY DEF Placed
  <1>a. task[w].to \in Folder /\ Own(w) \in Path
    BY OwnIsPrivate DEF CloudTypes
  <1>1. ASSUME NEW h \in Folder, NEW i \in Folder, NEW r \in Path, NEW s \in Path,
               at'[h][r] = at'[i][s], at'[h][r] # NoObject, ~(h = i /\ r = s), at'[h][r] # at[h][r]
        PROVE  FALSE
    <2>1. CASE pc[w] = "copying" /\ at'[h][r].by = Own(w) /\ at'[i][s] = at[i][s]
      <3>1. at[i][s].by # Own(w)
        BY <2>1, OwnUnheld
      <3> QED
        BY <1>1, <2>1, <3>1
    <2>2. CASE h = task[w].to /\ Moves(w) /\ r = target[w] /\ r # Own(w) /\ at'[h][r] = Stage(w)
      <3>1. at[i][s] = Stage(w) /\ ~(i = task[w].to /\ s = Own(w))
        BY <1>1, <2>2 DEF Moves
      <3> QED
        BY <1>a, <1>1, <2>2, <3>1 DEF Placed, Stage
    <2> QED
      BY <1>1, <2>1, <2>2, ObjectsStep
  <1>2. CASE at'[f][p] # at[f][p]
    BY <1>1, <1>2
  <1>3. CASE at'[g][q] # at[g][q]
    BY <1>1, <1>3
  <1> QED
    BY <1>2, <1>3 DEF Placed

\* An object that was inspected never comes back to where it was.
LEMMA NeverBack ==
  ASSUME CloudTypes, Unseen, Stays, NEW w \in Worker, StepOf(w), NEW v \in Worker, Looked(v),
         NEW f \in Folder, NEW p \in Path, at'[f][p] = before[v]
  PROVE  at[f][p] = before[v]
  <1> SUFFICES ASSUME at'[f][p] # at[f][p]
               PROVE  FALSE
    OBVIOUS
  <1>1. before[v] # NoObject
    BY DEF Stays
  <1>2. CASE pc[w] = "copying" /\ at'[f][p].by = Own(w)
    BY <1>2, OwnUnheld
  <1>3. CASE at'[f][p] = Stage(w)
    <2>1. task[w].to \in Folder /\ Own(w) \in Path /\ Own(w) \in Private
      BY OwnIsPrivate DEF CloudTypes
    <2>3. at[task[w].to][Own(w)] = before[v]
      BY <1>3 DEF Stage
    <2>4. Own(w) = name[v]
      BY <2>1, <2>3 DEF Stays
    <2>2. Own(w) = name[v] /\ name[v] \in Name
      BY <2>4 DEF Looked
    <2> QED
      BY <2>1, <2>2, CloudAssumption
  <1> QED
    BY <1>1, <1>2, <1>3, ObjectsStep

\* A request comes to have looked at its source by looking.
LEMMA LookedStep ==
  ASSUME CloudTypes, Control, NEW w \in Worker, StepOf(w), NEW v \in Worker, Looked(v)'
  PROVE  /\ UNCHANGED <<task[v], name[v]>>
         /\ \/ Looked(v) /\ UNCHANGED before[v]
            \/ v = w /\ pc[w] = "inspecting" /\ UNCHANGED at /\ before'[w] = Src(w) /\ Src(w) # NoObject
               /\ pc'[w] = "resolving"
  <1>1. CASE v # w
    BY <1>1, OthersFrame DEF Looked
  <1>2. CASE v = w
    <2> USE DEF Looked, CloudTypes, Control, OneControl, Copied, Public
    <2>0. Looked(w)'
      BY <1>2
    <2>1. CASE RequestUpload(w)
      BY <1>2, <2>0, <2>1 DEF RequestUpload, Goto, Leave, storeVars, taskVars, entryVars
    <2>2. CASE RequestTransfer(w)
      BY <1>2, <2>0, <2>2 DEF RequestTransfer, Goto, Leave, storeVars, taskVars, entryVars
    <2>3. CASE DeleteFile(w)
      BY <1>2, <2>0, <2>3, DeleteFileEffect DEF taskVars, entryVars
    <2>4. CASE ListFolder(w)
      BY <1>2, <2>0, <2>4 DEF ListFolder, Goto, Leave, storeVars, taskVars, entryVars
    <2>5. CASE MergeNext(w)
      BY <1>2, <2>0, <2>5 DEF MergeNext, Goto, Leave, storeVars, taskVars, entryVars
    <2>6. CASE MergeDone(w)
      BY <1>2, <2>0, <2>6 DEF MergeDone, Goto, Leave, storeVars, taskVars, entryVars
    <2>7. CASE StatUpload(w)
      BY <1>2, <2>0, <2>7 DEF StatUpload, Goto, Leave, storeVars, taskVars, entryVars
    <2>8. CASE Inspect(w)
      BY <1>2, <2>0, <2>8 DEF Inspect, Goto, Leave, storeVars, taskVars, entryVars
    <2>9. CASE Resolve(w)
      BY <1>2, <2>0, <2>9 DEF Resolve, Goto, Leave, storeVars, taskVars, entryVars, Skip
    <2>10. CASE CopyToStage(w)
      BY <1>2, <2>0, <2>10, CopyToStageEffect, CopyControl DEF taskVars, entryVars
    <2>11. CASE CopyToLocal(w)
      BY <1>2, <2>0, <2>11, CopyToLocalEffect, CopyControl DEF taskVars, entryVars
    <2>12. CASE Verify(w)
      BY <1>2, <2>0, <2>12 DEF Verify, Goto, Leave, storeVars, taskVars, entryVars
    <2>13. CASE CheckSource(w)
      BY <1>2, <2>0, <2>13 DEF CheckSource, Goto, Leave, storeVars, taskVars, entryVars
    <2>14. CASE CompareDestination(w)
      BY <1>2, <2>0, <2>14 DEF CompareDestination, Goto, Leave, storeVars, taskVars, entryVars
    <2>15. CASE MoveTo(w)
      BY <1>2, <2>0, <2>15, MoveToEffect DEF taskVars, entryVars
    <2>16. CASE CheckSourceAgain(w)
      BY <1>2, <2>0, <2>16 DEF CheckSourceAgain, Goto, Leave, storeVars, taskVars, entryVars
    <2>17. CASE CheckLocalSource(w)
      BY <1>2, <2>0, <2>17 DEF CheckLocalSource, Goto, Leave, storeVars, taskVars, entryVars
    <2>18. CASE RemoveSource(w)
      BY <1>2, <2>0, <2>18, RemoveSourceEffect DEF taskVars, entryVars
    <2>19. CASE Cleanup(w)
      <3>1. UNCHANGED <<task, name, before>> /\ pc[w] = "cleaning"
        BY <2>19, CleanupEffect DEF taskVars, entryVars
      <3>2. \/ pc'[w] = "done" /\ outcome'[w] = outcome[w]
            \/ pc'[w] = "merging"
        BY <2>19, CleanupEffect
      <3> QED
        BY <1>2, <2>0, <3>1, <3>2
    <2> QED
      BY <2>1, <2>2, <2>3, <2>4, <2>5, <2>6, <2>7, <2>8, <2>9, <2>10, <2>11, <2>12, <2>13, <2>14, <2>15,
         <2>16, <2>17, <2>18, <2>19 DEF StepOf
  <1> QED
    BY <1>1, <1>2

\* What was inspected stays where it was, or goes.
LEMMA StaysStep ==
  ASSUME CloudTypes, Control, Unseen, Placed, Stays, NEW w \in Worker, StepOf(w)
  PROVE  Stays'
  <1> SUFFICES ASSUME NEW v \in Worker, Looked(v)'
               PROVE  /\ before'[v] # NoObject
                      /\ \A f \in Folder, p \in Path :
                           at'[f][p] = before'[v] => f = task'[v].from /\ p = name'[v]
    BY DEF Stays
  <1>1. UNCHANGED <<task[v], name[v]>>
    BY LookedStep
  <1>2. CASE Looked(v) /\ UNCHANGED before[v]
    BY <1>1, <1>2, NeverBack DEF Stays
  <1>3. CASE v = w /\ UNCHANGED at /\ before'[w] = Src(w) /\ Src(w) # NoObject
    <2>1. task[w].from \in Folder /\ name[w] \in Path
      BY DEF CloudTypes
    <2> QED
      BY <1>1, <1>3, <2>1 DEF Src, Placed
  <1> QED
    BY <1>2, <1>3, LookedStep

\* What was read is what the inspected object contains, if it is still there.
LEMMA ReadTrueStep ==
  ASSUME CloudTypes, Control, Unseen, Placed, Stays, ReadTrue, NEW w \in Worker, StepOf(w)
  PROVE  ReadTrue'
  <1> SUFFICES ASSUME NEW v \in Worker, Looked(v)', pc'[v] \in Copied \cup Public, Src(v)' = before'[v]
               PROVE  read'[v] = before'[v].content
    BY DEF ReadTrue
  <1>1. UNCHANGED <<task[v], name[v], before[v]>> /\ Looked(v)
    BY LookedStep DEF Copied, Public
  <1>2. task[v].from \in Folder /\ name[v] \in Path
    BY DEF CloudTypes
  <1>3. Src(v) = before[v]
    <2>1. at'[task[v].from][name[v]] = before[v]
      BY <1>1 DEF Src
    <2> QED
      BY <1>1, <1>2, <2>1, NeverBack DEF Src
  <1>4. CASE v # w
    <2>1. pc'[v] = pc[v] /\ read'[v] = read[v]
      BY <1>4, OthersFrame
    <2> QED
      BY <1>1, <1>3, <2>1 DEF ReadTrue
  <1>5. CASE v = w
    <2>1. CASE CopyToStage(w) \/ CopyToLocal(w)
      <3>1. read'[w] = Sent(w)
        BY <1>5, <2>1, CopyControl DEF Copied, Public
      <3>2. Sent(w) = Src(w).content
        BY <1>1, <1>5 DEF Sent, Looked
      <3> QED
        BY <1>1, <1>3, <1>5, <3>1, <3>2
    <2>2. CASE Quiet(w)
      BY <1>1, <1>3, <1>5, <2>2, QuietStep DEF ReadTrue
    <2>3. CASE MoveTo(w)
      <3>1. pc[w] \in Copied /\ UNCHANGED read
        BY <2>3, MoveToEffect DEF Copied
      <3> QED
        BY <1>1, <1>3, <1>5, <3>1 DEF ReadTrue
    <2>4. CASE RemoveSource(w) \/ Cleanup(w) \/ DeleteFile(w)
      BY <1>5, <2>4, RemoveSourceEffect, CleanupEffect, DeleteFileEffect DEF Copied, Public, CloudTypes
    <2> QED
      BY <2>1, <2>2, <2>3, <2>4, Steps
  <1> QED
    BY <1>4, <1>5

-----------------------------------------------------------------------------
(* Moves of one object. *)

\* A move of one file that reported success.
MovedOk(v) == task[v].kind = "move" /\ ~task[v].whole /\ outcome[v] = "ok"

\* Its object is nowhere any more.
Vanished ==
  trampled = {} => \A v \in Worker : MovedOk(v) => \A f \in Folder, p \in Path : at[f][p] # before[v]

\* What was released or trampled stays recorded.
LEMMA KeptStep ==
  ASSUME CloudTypes, NEW w \in Worker, StepOf(w)
  PROVE  released \subseteq released' /\ trampled \subseteq trampled'
  <1>1. CASE Quiet(w)
    BY <1>1, QuietStep DEF storeVars
  <1>2. CASE CopyToStage(w)
    BY <1>2, CopyToStageEffect
  <1>3. CASE CopyToLocal(w)
    BY <1>3, CopyToLocalEffect
  <1>4. CASE MoveTo(w)
    BY <1>4, MoveToEffect DEF storeVars
  <1>5. CASE RemoveSource(w) \/ Cleanup(w) \/ DeleteFile(w)
    BY <1>5, RemoveSourceEffect, CleanupEffect, DeleteFileEffect
  <1> QED
    BY <1>1, <1>2, <1>3, <1>4, <1>5, Steps

\* A move of one file reports success when it removed its source.
LEMMA MovedOkStep ==
  ASSUME CloudTypes, Control, Apart, NEW w \in Worker, StepOf(w), NEW v \in Worker, MovedOk(v)'
  PROVE  /\ Looked(v) /\ UNCHANGED <<task[v], name[v], before[v]>>
         /\ \/ MovedOk(v)
            \/ v = w /\ RemoveSource(w) /\ outcome'[w] # "failed"
  <1>0. CloudTypes' /\ Control' /\ Apart'
    BY TypesStep, ControlStep, ApartStep
  <1>1. Looked(v)' /\ pc'[v] \in {"cleaning", "done"}
    BY <1>0 DEF Control, OneControl, Apart, MovedOk, Looked, CloudTypes, Stages
  <1>2. Looked(v) /\ UNCHANGED <<task[v], name[v], before[v]>>
    BY <1>1, LookedStep
  <1>3. CASE v # w
    BY <1>2, <1>3, OthersFrame DEF MovedOk
  <1>4. CASE v = w
    <2> SUFFICES ASSUME outcome'[w] = "ok", outcome[w] # "ok", task[w].kind = "move", ~task[w].whole
                 PROVE  RemoveSource(w)
      BY <1>2, <1>4 DEF MovedOk
    <2> USE DEF CloudTypes
    <2>1. CASE RequestUpload(w)
      BY <2>1 DEF RequestUpload, Goto, Leave, storeVars, taskVars, entryVars, Control, OneControl
    <2>2. CASE RequestTransfer(w)
      BY <2>2 DEF RequestTransfer, Goto, Leave, storeVars, taskVars, entryVars, Control, OneControl
    <2>3. CASE DeleteFile(w)
      BY <2>3, DeleteFileEffect DEF Control, OneControl
    <2>4. CASE ListFolder(w)
      BY <2>4 DEF ListFolder, Goto, Leave, storeVars, taskVars, entryVars, Control, OneControl
    <2>5. CASE MergeNext(w)
      BY <2>5 DEF MergeNext, Goto, Leave, storeVars, taskVars, entryVars, Control, OneControl
    <2>6. CASE MergeDone(w)
      BY <2>6 DEF MergeDone, Goto, Leave, storeVars, taskVars, entryVars, Control, OneControl
    <2>7. CASE StatUpload(w)
      BY <2>7 DEF StatUpload, Goto, Leave, storeVars, taskVars, entryVars, Control, OneControl
    <2>8. CASE Inspect(w)
      BY <2>8 DEF Inspect, Goto, Leave, storeVars, taskVars, entryVars, Control, OneControl
    <2>9. CASE Resolve(w)
      BY <2>9 DEF Resolve, Goto, Leave, storeVars, taskVars, entryVars, Skip, Control, OneControl
    <2>10. CASE CopyToStage(w)
      BY <2>10, CopyToStageEffect DEF Control, OneControl
    <2>11. CASE CopyToLocal(w)
      BY <2>11, CopyToLocalEffect DEF Control, OneControl
    <2>12. CASE Verify(w)
      BY <2>12 DEF Verify, Goto, Leave, storeVars, taskVars, entryVars, Control, OneControl
    <2>13. CASE CheckSource(w)
      BY <2>13 DEF CheckSource, Goto, Leave, storeVars, taskVars, entryVars, Control, OneControl
    <2>14. CASE CompareDestination(w)
      BY <2>14 DEF CompareDestination, Goto, Leave, storeVars, taskVars, entryVars, Control, OneControl
    <2>15. CASE MoveTo(w)
      BY <2>15, MoveToEffect DEF Control, OneControl
    <2>16. CASE CheckSourceAgain(w)
      BY <2>16 DEF CheckSourceAgain, Goto, Leave, storeVars, taskVars, entryVars, Control, OneControl
    <2>17. CASE CheckLocalSource(w)
      BY <2>17 DEF CheckLocalSource, Goto, Leave, storeVars, taskVars, entryVars, Control, OneControl
    <2>18. CASE RemoveSource(w)
      BY <2>18
    <2>19. CASE Cleanup(w)
      BY <2>19, CleanupEffect DEF Control, OneControl
    <2> QED
      BY <2>1, <2>2, <2>3, <2>4, <2>5, <2>6, <2>7, <2>8, <2>9, <2>10, <2>11, <2>12, <2>13, <2>14, <2>15,
         <2>16, <2>17, <2>18, <2>19 DEF StepOf
  <1> QED
    BY <1>2, <1>3, <1>4

\* What was moved with success, and nothing else is in its way, is gone.
LEMMA VanishedStep ==
  ASSUME CloudTypes, Control, Apart, Unseen, Stays, Vanished, NEW w \in Worker, StepOf(w)
  PROVE  Vanished'
  <1> SUFFICES ASSUME trampled' = {}, NEW v \in Worker, MovedOk(v)', NEW f \in Folder, NEW p \in Path,
                      at'[f][p] = before'[v]
               PROVE  FALSE
    BY DEF Vanished
  <1>1. trampled = {}
    BY KeptStep
  <1>2. Looked(v) /\ before'[v] = before[v] /\ task[v].from \in Folder /\ name[v] \in Path
    BY MovedOkStep DEF CloudTypes
  <1>3. at[f][p] = before[v]
    BY <1>2, NeverBack
  <1>4. CASE MovedOk(v)
    BY <1>1, <1>3, <1>4 DEF Vanished
  <1>5. CASE v = w /\ RemoveSource(w) /\ outcome'[w] # "failed"
    <2>1. Sets(task[w].from, name[w], NoObject)
      BY <1>5, RemoveSourceEffect DEF CloudTypes
    <2>2. f = task[w].from /\ p = name[w] /\ before[w] # NoObject
      BY <1>2, <1>3, <1>5 DEF Stays
    <2> QED
      BY <1>2, <1>5, <2>1, <2>2 DEF Sets
  <1> QED
    BY <1>4, <1>5, MovedOkStep

\* A move that succeeds in removing its source took it from its place.
LEMMA MovedOnceStep ==
  ASSUME CloudTypes, Control, Apart, Vanished, MovedOnce, NEW w \in Worker, StepOf(w)
  PROVE  MovedOnce'
  <1> SUFFICES ASSUME trampled' = {}, NEW u \in Worker, NEW v \in Worker, u # v, MovedOk(u)', MovedOk(v)',
                      task'[u].from = task'[v].from, name'[u] = name'[v], before'[u] = before'[v]
               PROVE  FALSE
    BY DEF MovedOnce, MovedOk
  <1>1. trampled = {}
    BY KeptStep
  <1>2. /\ task[u].from = task[v].from /\ name[u] = name[v] /\ before[u] = before[v]
        /\ MovedOk(u) \/ (u = w /\ RemoveSource(w) /\ outcome'[w] # "failed")
        /\ MovedOk(v) \/ (v = w /\ RemoveSource(w) /\ outcome'[w] # "failed")
    BY MovedOkStep
  <1>3. ASSUME NEW q \in Worker, MovedOk(q), RemoveSource(w), outcome'[w] # "failed",
               task[w].from = task[q].from, name[w] = name[q], before[w] = before[q]
        PROVE  FALSE
    <2>4. outcome' # [outcome EXCEPT ![w] = "failed"]
      BY <1>3 DEF CloudTypes
    <2>1. Src(w) # NoObject
          /\ trampled' = (IF Src(w) = before[w] THEN trampled ELSE trampled \cup {Src(w).content})
      BY <1>3, <2>4, RemoveSourceEffect
    <2>2. Src(w) = before[q]
      BY <1>3, <2>1
    <2>3. task[w].from \in Folder /\ name[w] \in Path
      BY DEF CloudTypes
    <2> QED
      BY <1>1, <1>3, <2>2, <2>3 DEF Vanished, Src
  <1>4. CASE MovedOk(u) /\ MovedOk(v)
    BY <1>1, <1>2, <1>4 DEF MovedOnce, MovedOk
  <1> QED
    BY <1>2, <1>3, <1>4

-----------------------------------------------------------------------------
(* What happens to public names. *)

\* Contents that were given up, on purpose or by mistake.
Kept == released \cup trampled
\* A move that removes the inspected object unless something stops it, and its source.
Ready(v) ==
  /\ Looked(v) /\ task[v].kind = "move" /\ Src(v) = before[v]
  /\ pc[v] \in Public \/ (task[v].to \in Local /\ pc[v] \in {"verifying", "checking"})
\* The places with public names, and the one a request takes its entry from.
Pub == Folder \X Name
Place(v) == <<task[v].from, name[v]>>
\* What such a move removes is also at a place that comes later in the order R.
Backed(R) ==
  \A v \in Worker : Ready(v) =>
    \/ before[v].content \in Kept
    \/ \E f \in Folder, n \in Name : <<Place(v), <<f, n>>>> \in R /\ at[f][n].content = before[v].content
\* R is a strict order of such places.
Order(R) ==
  /\ R \subseteq Pub \X Pub
  /\ \A x \in Pub : <<x, x>> \notin R
  /\ \A x, y, z \in Pub : <<x, y>> \in R /\ <<y, z>> \in R => <<x, z>> \in R
\* Moves do not rely on one another in a circle.
Chained == \E R \in SUBSET (Pub \X Pub) : Order(R) /\ Backed(R)

\* An upload that put its contents at the destination.
Delivered(w) ==
  /\ task[w].kind = "upload"
  /\ pc[w] = "published" \/ (pc[w] = "verifying" /\ task[w].to \in Local) \/ outcome[w] = "ok"
\* Contents c have a public name, or were given up.
Safe(c) == c \in Kept \/ \E f \in Folder, n \in Name : at[f][n].content = c
\* All originals and all uploads that were delivered are.
AllSafe ==
  /\ \A c \in Original : Safe(c)
  /\ \A v \in Worker : Delivered(v) => Safe(v)

\* Object o is put at the public name that the request aims for.
PublicWrite(w, o) ==
  /\ task[w].to \in Folder /\ target[w] \in Name
  /\ \A f \in Folder, n \in Name :
       at'[f][n] = IF f = task[w].to /\ n = target[w] THEN o ELSE at[f][n]
  /\ Displaced(Dst(w), o) \subseteq Kept'
  /\ \A v \in Worker : Looked(v) => before[v] # o
\* What is at a public name goes.
PublicRemove(w, g, m) ==
  /\ \A f \in Folder, n \in Name :
       at'[f][n] = IF f = g /\ n = m THEN NoObject ELSE at[f][n]
  /\ at[g][m].content \in Kept' \/ (Ready(w) /\ g = task[w].from /\ m = name[w])

\* A copy to local storage that is not stopped puts there what was sent.
LEMMA CopyToLocalWrites ==
  ASSUME CloudTypes, Unseen, NEW w \in Worker, CopyToLocal(w), target[w] \in Name
  PROVE  \/ UNCHANGED at /\ pc'[w] = "cleaning"
         \/ \E o : PublicWrite(w, o) /\ o.content = Sent(w)
  <1>1. CASE UNCHANGED <<at, read, released>> /\ pc' = [pc EXCEPT ![w] = "cleaning"]
    BY <1>1 DEF CloudTypes
  <1>2. PICK o : o = [content |-> Sent(w), by |-> Own(w)]
    OBVIOUS
  <1>3. CASE Sets(task[w].to, target[w], o) /\ released' = released \cup Displaced(Dst(w), o)
    <2>1. task[w].to \in Folder /\ Name \subseteq Path
      BY DEF CloudTypes, Path
    <2>2. \A v \in Worker : before[v] # o
      BY <1>2, OwnUnheld, CopyControl
    <2>3. o.content = Sent(w)
      BY <1>2
    <2>4. \A f \in Folder, n \in Name : at'[f][n] = IF f = task[w].to /\ n = target[w] THEN o ELSE at[f][n]
      BY <1>3, <2>1 DEF Sets
    <2>5. PublicWrite(w, o)
      BY <1>3, <2>1, <2>2, <2>4 DEF PublicWrite, Kept
    <2> QED
      BY <2>3, <2>5
  <1> QED
    BY <1>1, <1>2, <1>3, CopyToLocalEffect

\* Publishing puts there what was read back, or stops.
LEMMA MoveToWrites ==
  ASSUME CloudTypes, Control, Checked, Stays, NEW w \in Worker, MoveTo(w), target[w] \in Name
  PROVE  \/ UNCHANGED at /\ pc'[w] = "cleaning"
         \/ \E o : PublicWrite(w, o) /\ o.content = read[w]
  <1>1. PICK o : o = Stage(w)
    OBVIOUS
  <1>2. task[w].to \in Folder /\ Own(w) \in Path /\ Own(w) \in Private /\ Own(w) \notin Name
        /\ Name \subseteq Path
    BY OwnIsPrivate, CloudAssumption DEF CloudTypes, Path
  <1>3. pc[w] = "publishing" /\ IsCloud(task[w].to)
    BY MoveToEffect DEF Control, OneControl
  <1>4. CASE Moves(w) /\ Displaced(Dst(w), Stage(w)) \subseteq released' \cup trampled'
    <2>1. \A f \in Folder, n \in Name : at'[f][n] = IF f = task[w].to /\ n = target[w] THEN o ELSE at[f][n]
      BY <1>1, <1>2, <1>4 DEF Moves
    <2>2. \A v \in Worker : Looked(v) => before[v] # o
      BY <1>1, <1>2 DEF Stays, Stage, Looked
    <2>3. o.content = read[w]
      BY <1>1, <1>3, <1>4, StageIsRead DEF Moves
    <2>4. PublicWrite(w, o)
      BY <1>1, <1>2, <1>4, <2>1, <2>2 DEF PublicWrite, Kept
    <2> QED
      BY <2>3, <2>4
  <1> QED
    BY <1>4, MoveToEffect DEF storeVars, Moves

\* What a step does to the public names.
LEMMA PublicStep ==
  ASSUME CloudTypes, Control, Unseen, Checked, Stays, Apart, NEW w \in Worker, StepOf(w)
  PROVE  \/ \A f \in Folder, n \in Name : at'[f][n] = at[f][n]
         \/ \E o : PublicWrite(w, o)
         \/ \E f \in Folder, n \in Name : PublicRemove(w, f, n)
  <1>a. /\ task[w].to \in Folder /\ Own(w) \in Path /\ Own(w) \notin Name /\ Name \subseteq Path
        /\ task[w].from \in Folder /\ name[w] \in Path
    BY OwnIsPrivate, CloudAssumption DEF CloudTypes, Path
  <1>1. CASE Quiet(w)
    BY <1>1, QuietStep DEF storeVars
  <1>2. CASE CopyToStage(w)
    <2>1. UNCHANGED at \/ \E d \in Content : Sets(task[w].to, Own(w), [content |-> d, by |-> Own(w)])
      BY <1>2, CopyToStageEffect
    <2> QED
      BY <1>a, <2>1 DEF Sets
  <1>3. CASE CopyToLocal(w)
    <2>1. CASE target[w] \in Name
      BY <1>3, <2>1, CopyToLocalWrites
    <2>2. CASE target[w] \notin Name
      <3>1. PICK o : o = [content |-> Sent(w), by |-> Own(w)]
        OBVIOUS
      <3>2. UNCHANGED at \/ Sets(task[w].to, target[w], o)
        BY <1>3, <3>1, CopyToLocalEffect
      <3> QED
        BY <1>a, <2>2, <3>2 DEF Sets
    <2> QED
      BY <2>1, <2>2
  <1>4. CASE MoveTo(w)
    <2>1. CASE target[w] \in Name
      BY <1>4, <2>1, MoveToWrites
    <2>2. CASE target[w] \notin Name
      <3>1. UNCHANGED at \/ Moves(w)
        BY <1>4, MoveToEffect DEF storeVars, Moves
      <3> QED
        BY <1>a, <2>2, <3>1 DEF Moves
    <2> QED
      BY <2>1, <2>2
  <1>5. CASE RemoveSource(w)
    <2>1. CASE UNCHANGED at
      BY <2>1
    <2>2. CASE Sets(task[w].from, name[w], NoObject)
               /\ trampled' = (IF Src(w) = before[w] THEN trampled ELSE trampled \cup {Src(w).content})
      <3>1. CASE name[w] \notin Name
        BY <1>a, <2>2, <3>1 DEF Sets
      <3>2. CASE name[w] \in Name
        <4>1. \A f \in Folder, n \in Name : at'[f][n] = IF f = task[w].from /\ n = name[w] THEN NoObject
              ELSE at[f][n]
          BY <1>a, <2>2 DEF Sets
        <4>2. CASE Src(w) = before[w]
          <5>1. pc[w] = "unlinking"
            BY <1>5, RemoveSourceEffect
          <5>2. Ready(w)
            BY <3>2, <4>2, <5>1 DEF Ready, Looked, Public, Control, OneControl
          <5>3. PublicRemove(w, task[w].from, name[w])
            BY <4>1, <5>2 DEF PublicRemove
          <5> QED
            BY <1>a, <3>2, <5>3
        <4>3. CASE Src(w) # before[w]
          <5>1. PublicRemove(w, task[w].from, name[w])
            BY <2>2, <4>1, <4>3 DEF PublicRemove, Kept, Src
          <5> QED
            BY <1>a, <3>2, <5>1
        <4> QED
          BY <4>2, <4>3
      <3> QED
        BY <3>1, <3>2
    <2> QED
      BY <1>5, <2>1, <2>2, RemoveSourceEffect
  <1>6. CASE Cleanup(w)
    <2>1. UNCHANGED at \/ Sets(task[w].to, Own(w), NoObject)
      BY <1>6, CleanupEffect
    <2> QED
      BY <1>a, <2>1 DEF Sets
  <1>7. CASE DeleteFile(w)
    <2>1. PICK f \in Folder, n \in Name : Sets(f, n, NoObject) /\ released' = released \cup {at[f][n].content}
      BY <1>7, DeleteFileEffect
    <2>2. PublicRemove(w, f, n)
      BY <1>a, <2>1 DEF Sets, PublicRemove, Kept
    <2> QED
      BY <2>2
  <1> QED
    BY <1>1, <1>2, <1>3, <1>4, <1>5, <1>6, <1>7, Steps

\* A move becomes ready by putting what it inspected at its destination.
LEMMA ReadyStep ==
  ASSUME CloudTypes, Control, Apart, Unseen, Checked, Stays, ReadTrue, NEW w \in Worker, StepOf(w),
         NEW v \in Worker, Ready(v)'
  PROVE  /\ UNCHANGED <<task[v], name[v], before[v]>> /\ Looked(v) /\ Src(v) = before[v]
         /\ Ready(v) \/ (v = w /\ \E o : PublicWrite(w, o) /\ o.content = before[w].content)
  <1>1. Looked(v)' /\ pc'[v] \in Copied \cup Public
    BY DEF Ready, Copied
  <1>2. UNCHANGED <<task[v], name[v], before[v]>> /\ Looked(v)
    BY <1>1, LookedStep DEF Copied, Public
  <1>3. task[v].from \in Folder /\ name[v] \in Path
    BY DEF CloudTypes
  <1>4. at'[task[v].from][name[v]] = before[v]
    BY <1>2 DEF Ready, Src
  <1>5. Src(v) = before[v]
    BY <1>2, <1>3, <1>4, NeverBack DEF Src
  <1>6. Ready(v) \/ (v = w /\ \E o : PublicWrite(w, o) /\ o.content = before[w].content)
    <2>1. CASE v # w
      BY <1>2, <1>5, <2>1, OthersFrame DEF Ready
    <2>2. CASE v = w
      <3>1. target[w] \in Name /\ task[w].kind # "upload" /\ task[w].kind = "move"
        BY <1>2, <2>2 DEF Looked, Apart, Ready
      <3>2. CASE Quiet(w)
        <4>1. pc'[w] \in Public \/ (task[w].to \in Local /\ pc'[w] \in {"verifying", "checking"})
          BY <1>2, <2>2 DEF Ready
        <4>2. pc[w] \in Public \/ (task[w].to \in Local /\ pc[w] \in {"verifying", "checking"})
          BY <3>2, <4>1, QuietStep DEF Copied, Public, Control, OneControl, IsCloud
        <4> QED
          BY <1>2, <1>5, <2>2, <3>1, <4>2 DEF Ready
      <3>3. CASE CopyToStage(w)
        <4>1. IsCloud(task[w].to) /\ pc'[w] \notin Public
          BY <3>3, CopyControl, CopyToStageEffect DEF Public
        <4> QED
          BY <1>2, <2>2, <4>1 DEF Ready, IsCloud
      <3>4. CASE CopyToLocal(w)
        <4>1. pc'[w] # "cleaning"
          BY <1>1, <2>2 DEF Copied, Public
        <4>2. Sent(w) = before[w].content
          BY <1>5, <2>2, <3>1 DEF Sent
        <4> QED
          BY <2>2, <3>1, <3>4, <4>1, <4>2, CopyToLocalWrites
      <3>5. CASE MoveTo(w)
        <4>1. pc'[w] # "cleaning"
          BY <1>1, <2>2 DEF Copied, Public
        <4>2. pc[w] \in Copied
          BY <3>5, MoveToEffect DEF Copied
        <4>3. read[w] = before[w].content
          BY <1>2, <1>5, <2>2, <4>2 DEF ReadTrue
        <4> QED
          BY <2>2, <3>1, <3>5, <4>1, <4>3, MoveToWrites
      <3>6. CASE RemoveSource(w) \/ Cleanup(w) \/ DeleteFile(w)
        BY <1>1, <2>2, <3>6, RemoveSourceEffect, CleanupEffect, DeleteFileEffect
          DEF Copied, Public, CloudTypes
      <3> QED
        BY <3>2, <3>3, <3>4, <3>5, <3>6, Steps
    <2> QED
      BY <2>1, <2>2
  <1> QED
    BY <1>2, <1>5, <1>6

\* An upload delivers by putting its contents at its destination.
LEMMA DeliveredStep ==
  ASSUME CloudTypes, Control, Apart, Unseen, Checked, Stays, NEW w \in Worker, StepOf(w),
         NEW v \in Worker, Delivered(v)'
  PROVE  Delivered(v) \/ (v = w /\ \E o : PublicWrite(w, o) /\ o.content = w)
  <1>1. CASE v # w
    BY <1>1, OthersFrame DEF Delivered
  <1>2. CASE v = w
    <2>0. /\ task'[w].kind = "upload"
          /\ \/ pc'[w] = "published" \/ outcome'[w] = "ok"
             \/ pc'[w] = "verifying" /\ task'[w].to \in Local
      BY <1>2 DEF Delivered
    <2>1. CASE Quiet(w)
      <3>1. Delivered(w)
        BY <2>0, <2>1
        DEF Delivered, CloudTypes, IsCloud, Control, OneControl, taskVars, Quiet, RequestUpload,
            RequestTransfer, ListFolder, MergeNext, MergeDone, StatUpload, Inspect, Resolve, Skip, Verify,
            CheckSource, CompareDestination,
            CheckSourceAgain, CheckLocalSource, Goto, Leave
      <3> QED
        BY <1>2, <3>1
    <2>2. CASE CopyToStage(w)
      <3>1. IsCloud(task[w].to) /\ pc[w] = "copying" /\ outcome[w] = "none" /\ UNCHANGED task
        BY <2>2, CopyControl, CopyToStageEffect DEF Control, OneControl
      <3>2. pc'[w] \in {"verifying", "cleaning"} /\ outcome'[w] \in {"none", "failed"}
        BY <2>2, <3>1, CopyControl, CopyToStageEffect DEF CloudTypes
      <3> QED
        BY <2>0, <3>1, <3>2 DEF IsCloud
    <2>3. CASE CopyToLocal(w)
      <3>1. pc[w] = "copying" /\ outcome[w] = "none" /\ UNCHANGED task
        BY <2>3, CopyControl DEF Control, OneControl
      <3>2. pc'[w] # "cleaning"
        BY <2>0, <2>3, CopyControl, CopyToLocalEffect DEF CloudTypes
      <3>3. target[w] \in Name /\ Sent(w) = w
        BY <2>0, <3>1, SentOfUpload DEF Apart
      <3> QED
        BY <1>2, <2>3, <3>2, <3>3, CopyToLocalWrites
    <2>4. CASE MoveTo(w)
      <3>1. pc[w] = "publishing" /\ outcome[w] = "none" /\ UNCHANGED task
        BY <2>4, MoveToEffect DEF taskVars, Control, OneControl
      <3>2. pc'[w] # "cleaning"
        BY <2>0, <2>4, <3>1, MoveToEffect DEF CloudTypes
      <3>3. target[w] \in Name /\ read[w] = w
        BY <2>0, <3>1 DEF Apart, Control, OneControl, Copied
      <3> QED
        BY <1>2, <2>4, <3>2, <3>3, MoveToWrites
    <2>5. CASE RemoveSource(w)
      <3>1. task[w].kind = "move" /\ UNCHANGED task
        BY <2>5, RemoveSourceEffect DEF taskVars, Control, OneControl
      <3> QED
        BY <2>0, <3>1
    <2>6. CASE Cleanup(w) \/ DeleteFile(w)
      <3>1. UNCHANGED task /\ pc'[w] \notin {"published", "verifying"}
            /\ (outcome'[w] = "ok" => outcome[w] = "ok")
        BY <2>6, CleanupEffect, DeleteFileEffect DEF taskVars, CloudTypes
      <3> QED
        BY <1>2, <2>0, <3>1 DEF Delivered
    <2> QED
      BY <2>1, <2>2, <2>3, <2>4, <2>5, <2>6, Steps
  <1> QED
    BY <1>1, <1>2

-----------------------------------------------------------------------------
(* Moves that rely on one another, and the contents that are kept. *)

\* A later place that holds the contents outlives the removal of what relies on it.
LEMMA BackedThrough ==
  ASSUME CloudTypes, NEW R, Order(R), Backed(R), NEW w \in Worker, NEW f \in Folder, NEW n \in Name,
         PublicRemove(w, f, n),
         NEW x \in Pub, NEW g \in Folder, NEW m \in Name, <<x, <<g, m>>>> \in R, Kept \subseteq Kept'
  PROVE  \/ at[g][m].content \in Kept'
         \/ \E h \in Folder, k \in Name : <<x, <<h, k>>>> \in R /\ at'[h][k].content = at[g][m].content
  <1>1. CASE ~(g = f /\ m = n)
    <2>1. at'[g][m] = at[g][m]
      BY <1>1 DEF PublicRemove
    <2> QED
      BY <2>1
  <1>2. CASE g = f /\ m = n /\ Ready(w) /\ f = task[w].from /\ n = name[w]
    <2>1. Place(w) = <<g, m>> /\ before[w] = at[g][m]
      BY <1>2 DEF Place, Ready, Src
    <2>2. CASE at[g][m].content \in Kept
      BY <2>2
    <2>3. ASSUME NEW h \in Folder, NEW k \in Name, <<<<g, m>>, <<h, k>>>> \in R,
                 at[h][k].content = at[g][m].content
          PROVE  \E a \in Folder, b \in Name : <<x, <<a, b>>>> \in R /\ at'[a][b].content = at[g][m].content
      <3>1. <<g, m>> \in Pub /\ <<h, k>> \in Pub
        BY DEF Pub
      <3>2. <<x, <<h, k>>>> \in R /\ <<h, k>> # <<g, m>>
        BY <2>3, <3>1 DEF Order
      <3>3. at'[h][k] = at[h][k]
        BY <1>2, <3>2 DEF PublicRemove
      <3> QED
        BY <2>3, <3>2, <3>3
    <2>4. \/ before[w].content \in Kept
          \/ \E h \in Folder, k \in Name : <<Place(w), <<h, k>>>> \in R
             /\ at[h][k].content = before[w].content
      BY <1>2 DEF Backed
    <2> QED
      BY <1>2, <2>1, <2>2, <2>3, <2>4
  <1> QED
    BY <1>1, <1>2 DEF PublicRemove

\* What is overwritten is given up, unless the same contents replace it.
LEMMA Overwritten ==
  ASSUME CloudTypes, NEW w \in Worker, NEW o, PublicWrite(w, o), NEW f \in Folder, NEW n \in Name,
         at[f][n].content # "none"
  PROVE  at[f][n].content \in Kept' \/ at'[f][n].content = at[f][n].content
  <1>1. CASE ~(f = task[w].to /\ n = target[w])
    BY <1>1 DEF PublicWrite
  <1>2. CASE f = task[w].to /\ n = target[w]
    <2>1. Dst(w) = at[f][n] /\ at'[f][n] = o /\ Dst(w) # NoObject
      BY <1>2 DEF Dst, PublicWrite, NoObject
    <2> QED
      BY <2>1 DEF PublicWrite, Displaced
  <1> QED
    BY <1>1, <1>2

\* What was given up stays recorded as such.
LEMMA KeptGrows ==
  ASSUME CloudTypes, NEW w \in Worker, StepOf(w)
  PROVE  Kept \subseteq Kept'
  BY KeptStep DEF Kept

\* No step closes a circle of moves.
LEMMA ChainedStep ==
  ASSUME CloudTypes, Control, Apart, Unseen, Checked, Stays, ReadTrue, Chained, NEW w \in Worker, StepOf(w)
  PROVE  Chained'
  <1>a. PICK R \in SUBSET (Pub \X Pub) : Order(R) /\ Backed(R)
    BY DEF Chained
  <1>b. Kept \subseteq Kept'
    BY KeptGrows
  <1>c. \A v \in Worker : Ready(v)' =>
          /\ UNCHANGED <<task[v], name[v], before[v]>> /\ Looked(v) /\ Src(v) = before[v]
          /\ Ready(v) \/ (v = w /\ \E o : PublicWrite(w, o) /\ o.content = before[w].content)
    BY ReadyStep
  <1>d. ASSUME NEW v \in Worker, Ready(v)'
        PROVE  /\ Place(v)' = Place(v) /\ Place(v) \in Pub /\ task[v].from \in Folder /\ name[v] \in Name
               /\ before[v].content # "none" /\ at'[task[v].from][name[v]] = before[v]
    <2>1. UNCHANGED <<task[v], name[v], before[v]>> /\ Looked(v) /\ Src(v) = before[v]
      BY <1>c, <1>d
    <2>2. task[v].from \in Folder /\ name[v] \in Name /\ name[v] \in Path
      BY <2>1 DEF CloudTypes, Looked
    <2>3. Place(v)' = Place(v) /\ Place(v) \in Pub
      BY <2>1, <2>2 DEF Place, Pub
    <2>4. before[v].content # "none"
      <3>1. Src(v) # NoObject
        BY <2>1 DEF Stays
      <3>2. Src(v).content \in Content /\ "none" \notin Content
        BY <2>2, <3>1, ObjectContent, CloudAssumption DEF Src, Content
      <3> QED
        BY <2>1, <3>2
    <2>5. at'[task[v].from][name[v]] = before[v]
      BY <1>d, <2>1 DEF Ready, Src
    <2> QED
      BY <2>2, <2>3, <2>4, <2>5
  <1>1. ASSUME NEW o, PublicWrite(w, o)
        PROVE  Chained'
    <2>a. PICK T : T = <<task[w].to, target[w]>>
      OBVIOUS
    <2>b. PICK S : S = {x \in R : x[1] # T} \cup {<<x, T>> : x \in Pub \ {T}}
      OBVIOUS
    <2>1. T \in Pub
      BY <1>1, <2>a DEF PublicWrite, Pub
    <2>2. S \in SUBSET (Pub \X Pub)
      BY <1>a, <2>1, <2>b
    <2>3. \A x, y \in Pub : <<x, y>> \in S <=> x # T /\ (<<x, y>> \in R \/ y = T)
      BY <2>1, <2>b
    <2>4. Order(S)
      <3>1. \A x \in Pub : <<x, x>> \notin S
        BY <1>a, <2>3 DEF Order
      <3>2. ASSUME NEW x \in Pub, NEW y \in Pub, NEW z \in Pub, <<x, y>> \in S, <<y, z>> \in S
            PROVE  <<x, z>> \in S
        BY <1>a, <2>3, <3>2 DEF Order
      <3> QED
        BY <2>2, <3>1, <3>2 DEF Order
    <2>5. ASSUME NEW v \in Worker, Ready(v)'
          PROVE  \/ before'[v].content \in Kept'
                 \/ \E f \in Folder, n \in Name : <<Place(v)', <<f, n>>>> \in S
                    /\ at'[f][n].content = before'[v].content
      <3>1. before'[v] = before[v] /\ Looked(v)
        BY <1>c, <2>5
      <3>2. Place(v) # T
        <4>1. CASE Place(v) = T
          <5>1. at'[task[v].from][name[v]] = o
            BY <1>1, <2>a, <4>1 DEF PublicWrite, Place
          <5> QED
            BY <1>1, <1>d, <2>5, <3>1, <5>1 DEF PublicWrite
        <4> QED
          BY <4>1
      <3>3. CASE Ready(v)
        <4>1. CASE before[v].content \in Kept
          BY <1>b, <3>1, <4>1
        <4>2. CASE before[v].content \notin Kept
          <5>1. PICK f \in Folder, n \in Name : <<Place(v), <<f, n>>>> \in R
                     /\ at[f][n].content = before[v].content
            BY <1>a, <3>3, <4>2 DEF Backed
          <5>2. at[f][n].content \in Kept' \/ at'[f][n].content = at[f][n].content
            BY <1>1, <1>d, <2>5, <5>1, Overwritten
          <5>3. <<Place(v), <<f, n>>>> \in S
            BY <1>d, <2>3, <2>5, <3>2, <5>1 DEF Pub
          <5> QED
            BY <1>d, <2>5, <3>1, <5>1, <5>2, <5>3
        <4> QED
          BY <4>1, <4>2
      <3>4. ASSUME NEW b, v = w, PublicWrite(w, b), b.content = before[w].content
            PROVE  \E f \in Folder, n \in Name : <<Place(v)', <<f, n>>>> \in S
                   /\ at'[f][n].content = before'[v].content
        <4>1. task[w].to \in Folder /\ target[w] \in Name
              /\ at'[task[w].to][target[w]].content = before[w].content
          BY <3>4 DEF PublicWrite
        <4>2. <<Place(v), T>> \in S
          BY <1>d, <2>1, <2>3, <2>5, <3>2
        <4> QED
          BY <1>d, <2>a, <2>5, <3>1, <3>4, <4>1, <4>2
      <3> QED
        BY <1>c, <2>5, <3>3, <3>4
    <2>6. Backed(S)'
      BY <2>5 DEF Backed
    <2>7. Order(S)'
      BY <2>4 DEF Order, Pub
    <2> QED
      BY <2>2, <2>6, <2>7 DEF Chained, Pub
  <1>2. ASSUME ~\E o : PublicWrite(w, o),
               \/ \A f \in Folder, n \in Name : at'[f][n] = at[f][n]
               \/ \E f \in Folder, n \in Name : PublicRemove(w, f, n)
        PROVE  Chained'
    <2>1. ASSUME NEW v \in Worker, Ready(v)'
          PROVE  \/ before'[v].content \in Kept'
                 \/ \E f \in Folder, n \in Name : <<Place(v)', <<f, n>>>> \in R
                    /\ at'[f][n].content = before'[v].content
      <3>1. before'[v] = before[v] /\ Ready(v)
        BY <1>2, <1>c, <2>1
      <3>2. CASE before[v].content \in Kept
        BY <1>b, <3>1, <3>2
      <3>3. CASE before[v].content \notin Kept
        <4>1. PICK f \in Folder, n \in Name : <<Place(v), <<f, n>>>> \in R
                   /\ at[f][n].content = before[v].content
          BY <1>a, <3>1, <3>3 DEF Backed
        <4>2. CASE at'[f][n] = at[f][n]
          BY <1>d, <2>1, <3>1, <4>1, <4>2
        <4>3. CASE \E g \in Folder, m \in Name : PublicRemove(w, g, m)
          <5>0. PICK x \in Pub : x = Place(v)
            BY <1>d, <2>1
          <5>1. \/ at[f][n].content \in Kept'
                \/ \E h \in Folder, k \in Name : <<x, <<h, k>>>> \in R /\ at'[h][k].content = at[f][n].content
            <6>1. <<x, <<f, n>>>> \in R
              BY <4>1, <5>0
            <6>2. PICK g \in Folder, m \in Name : PublicRemove(w, g, m)
              BY <4>3
            <6> QED
              BY <1>a, <1>b, <6>1, <6>2, BackedThrough
          <5> QED
            BY <1>d, <2>1, <3>1, <4>1, <5>0, <5>1
        <4> QED
          BY <1>2, <4>2, <4>3
      <3> QED
        BY <3>2, <3>3
    <2>2. Backed(R)'
      BY <2>1 DEF Backed
    <2>3. Order(R)'
      BY <1>a DEF Order, Pub
    <2> QED
      BY <1>a, <2>2, <2>3 DEF Chained, Pub
  <1> QED
    BY <1>1, <1>2, PublicStep

\* Contents that have a public name keep one or are given up.
LEMMA SafeStep ==
  ASSUME CloudTypes, Control, Apart, Unseen, Checked, Stays, Chained, NEW w \in Worker, StepOf(w),
         NEW c, c # "none", Safe(c)
  PROVE  Safe(c)'
  <1>b. Kept \subseteq Kept'
    BY KeptGrows
  <1>1. CASE c \in Kept
    BY <1>b, <1>1 DEF Safe
  <1>2. ASSUME NEW f \in Folder, NEW n \in Name, at[f][n].content = c
        PROVE  Safe(c)'
    <2>1. ASSUME NEW o, PublicWrite(w, o)
          PROVE  Safe(c)'
      BY <1>2, <2>1, Overwritten DEF Safe
    <2>2. CASE \A g \in Folder, m \in Name : at'[g][m] = at[g][m]
      BY <1>2, <2>2 DEF Safe
    <2>3. ASSUME NEW g \in Folder, NEW m \in Name, PublicRemove(w, g, m)
          PROVE  Safe(c)'
      <3>1. CASE ~(g = f /\ m = n)
        <4>1. at'[f][n] = at[f][n]
          BY <2>3, <3>1 DEF PublicRemove
        <4> QED
          BY <1>2, <4>1 DEF Safe
      <3>2. CASE at[g][m].content \in Kept' /\ g = f /\ m = n
        BY <1>2, <3>2 DEF Safe
      <3>3. CASE g = f /\ m = n /\ Ready(w) /\ g = task[w].from /\ m = name[w]
        <4>1. before[w] = at[f][n] /\ Place(w) = <<f, n>> /\ <<f, n>> \in Pub
          BY <3>3 DEF Ready, Src, Place, Pub
        <4>2. PICK R \in SUBSET (Pub \X Pub) : Order(R) /\ Backed(R)
          BY DEF Chained
        <4>3. CASE c \in Kept
          BY <1>1, <4>3
        <4>4. ASSUME NEW h \in Folder, NEW k \in Name, <<<<f, n>>, <<h, k>>>> \in R, at[h][k].content = c
              PROVE  Safe(c)'
          <5>1. <<h, k>> # <<f, n>>
            BY <4>1, <4>2, <4>4 DEF Order
          <5>2. at'[h][k] = at[h][k]
            BY <2>3, <3>3, <5>1 DEF PublicRemove
          <5> QED
            BY <4>4, <5>2 DEF Safe
        <4> QED
          BY <1>2, <3>3, <4>1, <4>2, <4>3, <4>4 DEF Backed
      <3> QED
        BY <2>3, <3>1, <3>2, <3>3 DEF PublicRemove
    <2> QED
      BY <2>1, <2>2, <2>3, PublicStep
  <1> QED
    BY <1>1, <1>2 DEF Safe

\* Every step keeps the originals and the uploads safe.
LEMMA AllSafeStep ==
  ASSUME CloudTypes, Control, Apart, Unseen, Checked, Stays, Chained, AllSafe, NEW w \in Worker, StepOf(w)
  PROVE  AllSafe'
  <1>a. \A c \in Original \cup Worker : c # "none"
    BY CloudAssumption
  <1>1. ASSUME NEW c \in Original
        PROVE  Safe(c)'
    <2>1. Safe(c) /\ c # "none"
      BY <1>a DEF AllSafe
    <2> QED
      BY <2>1, SafeStep
  <1>2. ASSUME NEW v \in Worker, Delivered(v)'
        PROVE  Safe(v)'
    <2>1. CASE Delivered(v)
      <3>1. Safe(v) /\ v # "none"
        BY <1>a, <2>1 DEF AllSafe
      <3> QED
        BY <3>1, SafeStep
    <2>2. ASSUME NEW o, PublicWrite(w, o), o.content = v
          PROVE  Safe(v)'
      <3>1. task[w].to \in Folder /\ target[w] \in Name /\ at'[task[w].to][target[w]].content = v
        BY <2>2 DEF PublicWrite
      <3> QED
        BY <3>1 DEF Safe
    <2> QED
      BY <1>2, <2>1, <2>2, DeliveredStep
  <1> QED
    BY <1>1, <1>2 DEF AllSafe

-----------------------------------------------------------------------------
(* The invariant, and the theorems. *)

\* The inductive invariant.
CloudInv ==
  /\ CloudTypes /\ Control /\ Apart /\ Unseen /\ Uniform /\ Checked /\ Clean
  /\ Placed /\ Stays /\ ReadTrue /\ Vanished /\ MovedOnce /\ Chained /\ AllSafe

\* At first only the originals are there, each at its start.
LEMMA StoreInit ==
  ASSUME Init
  PROVE  /\ \A f \in Folder, p \in Path :
              \/ at[f][p] = NoObject /\ ~\E c \in Original : Start[c] = <<f, p>>
              \/ \E c \in Original : Start[c] = <<f, p>> /\ at[f][p].content = c /\ at[f][p].by = Nobody
                 /\ p \in Name
         /\ \A c \in Original : \E f \in Folder, n \in Name : at[f][n].content = c
  <1>1. ASSUME NEW f \in Folder, NEW p \in Path
        PROVE  \/ at[f][p] = NoObject /\ ~\E c \in Original : Start[c] = <<f, p>>
               \/ \E c \in Original : Start[c] = <<f, p>> /\ at[f][p].content = c /\ at[f][p].by = Nobody
                  /\ p \in Name
    <2>1. at[f][p] = IF \E c \in Original : Start[c] = <<f, p>>
                     THEN [content |-> CHOOSE c \in Original : Start[c] = <<f, p>>, by |-> Nobody]
                     ELSE NoObject
      BY DEF Init
    <2>2. ASSUME NEW c \in Original, Start[c] = <<f, p>>
          PROVE  p \in Name
      <3>1. Start[c] \in Folder \X Name
        BY CloudAssumption
      <3> QED
        BY <2>2, <3>1
    <2>3. CASE \E c \in Original : Start[c] = <<f, p>>
      <3>1. PICK c : c = CHOOSE d \in Original : Start[d] = <<f, p>>
        OBVIOUS
      <3>2. c \in Original /\ Start[c] = <<f, p>>
        BY <2>3, <3>1
      <3>3. at[f][p] = [content |-> c, by |-> Nobody]
        BY <2>1, <2>3, <3>1
      <3>4. at[f][p].content = c /\ at[f][p].by = Nobody
        BY <3>3
      <3> QED
        BY <2>2, <3>2, <3>4
    <2> QED
      BY <2>1, <2>3
  <1>2. ASSUME NEW c \in Original
        PROVE  \E f \in Folder, n \in Name : at[f][n].content = c
    <2>1. PICK f \in Folder, n \in Name : Start[c] = <<f, n>>
      BY CloudAssumption
    <2>2. n \in Path
      BY DEF Path
    <2>3. \A d \in Original : Start[d] = <<f, n>> => d = c
      BY <2>1, CloudAssumption
    <2>4. PICK d \in Original : Start[d] = <<f, n>> /\ at[f][n].content = d
      BY <1>1, <2>1, <2>2
    <2> QED
      BY <2>3, <2>4
  <1> QED
    BY <1>1, <1>2

\* The invariant holds at first.
LEMMA CloudInit ==
  ASSUME Init
  PROVE  CloudInv
  <1>a. /\ \A w \in Worker :
             /\ pc[w] = "idle" /\ task[w].kind = "upload" /\ ~task[w].whole /\ outcome[w] = "none"
             /\ name[w] \in Name /\ target[w] = name[w] /\ todo[w] = {} /\ before[w] = NoObject
        /\ released = {} /\ trampled = {}
    BY CloudAssumption DEF Init
  <1>b. CloudTypes
    BY TypesInit
  <1>c. /\ Name \cap Private = {} /\ "none" \notin Original /\ "garbage" \notin Original
        /\ Nobody \notin Private /\ Private \subseteq Path /\ Name \subseteq Path
    BY CloudAssumption DEF Private, Nobody, Path
  <1>1. Control
    BY <1>a DEF Control, OneControl, Copied, Public
  <1>2. Apart
    BY <1>a, <1>c DEF Apart
  <1>3. Unseen
    <2> SUFFICES ASSUME NEW e \in Private
                 PROVE  UnseenAt(e)
      BY DEF Unseen
    <2>1. \A f \in Folder : at[f][e] = NoObject
      BY <1>c, StoreInit
    <2>2. \A f \in Folder, p \in Path : at[f][p].by # e
      <3> SUFFICES ASSUME NEW f \in Folder, NEW p \in Path
                   PROVE  at[f][p].by = Nobody
        BY <1>c
      <3>1. NoObject.by = Nobody
        BY DEF NoObject
      <3> QED
        BY <3>1, StoreInit
    <2>3. NoObject.by # e
      BY <1>c DEF NoObject
    <2> QED
      BY <1>a, <1>c, <2>1, <2>2, <2>3 DEF UnseenAt
  <1>4. \A p \in Private, c \in Content : ~Holds(p, c)
    BY <1>a, <1>c, StoreInit DEF Holds, Carries, Copied
  <1>5. Uniform /\ Checked
    BY <1>4, <1>a DEF Uniform, Checked
  <1>6. Clean
    <2>1. \A f \in Folder, n \in Name : at[f][n].content # "garbage"
      <3> SUFFICES ASSUME NEW f \in Folder, NEW n \in Name
                   PROVE  at[f][n].content # "garbage"
        OBVIOUS
      <3>1. NoObject.content = "none" /\ n \in Path
        BY <1>c DEF NoObject
      <3> QED
        BY <1>c, <3>1, StoreInit
    <2> QED
      BY <1>a, <2>1 DEF Clean, OnlyVerifiedPublic, Copied
  <1>7. Placed
    <2> SUFFICES ASSUME NEW f \in Folder, NEW g \in Folder, NEW p \in Path, NEW q \in Path,
                        at[f][p] = at[g][q], at[f][p] # NoObject
                 PROVE  f = g /\ p = q
      BY DEF Placed
    <2>1. PICK c \in Original : Start[c] = <<f, p>> /\ at[f][p].content = c
      BY StoreInit
    <2>2. PICK d \in Original : Start[d] = <<g, q>> /\ at[g][q].content = d
      BY StoreInit
    <2>3. c = d
      BY <2>1, <2>2
    <2> QED
      BY <2>1, <2>2, <2>3
  <1>8. Stays /\ ReadTrue /\ Vanished /\ MovedOnce
    BY <1>a DEF Stays, ReadTrue, Vanished, MovedOk, MovedOnce, Looked
  <1>9. Chained
    <2>1. {} \in SUBSET (Pub \X Pub) /\ Order({})
      BY DEF Order
    <2>2. Backed({})
      BY <1>a DEF Backed, Ready, Looked
    <2> QED
      BY <2>1, <2>2 DEF Chained
  <1>10. AllSafe
    BY <1>a, StoreInit DEF AllSafe, Safe, Delivered
  <1> QED
    BY <1>b, <1>1, <1>2, <1>3, <1>5, <1>6, <1>7, <1>8, <1>9, <1>10 DEF CloudInv

\* The invariant is about the variables only.
LEMMA CloudStutter ==
  ASSUME CloudInv, UNCHANGED vars
  PROVE  CloudInv'
  <1> USE DEF vars, storeVars, taskVars, entryVars
  <1>1. CloudTypes' /\ Control' /\ Apart'
    BY DEF CloudInv, CloudTypes, Control, OneControl, Apart, IsCloud
  <1>2. Unseen'
    BY DEF CloudInv, Unseen, UnseenAt, Begun
  <1>3. Uniform' /\ Checked'
    BY DEF CloudInv, Uniform, Checked, Holds, Carries, Own, IsCloud
  <1>4. Clean' /\ Placed'
    BY DEF CloudInv, Clean, OnlyVerifiedPublic, Placed
  <1>5. Stays' /\ ReadTrue'
    BY DEF CloudInv, Stays, ReadTrue, Looked, Src
  <1>6. Vanished' /\ MovedOnce'
    BY DEF CloudInv, Vanished, MovedOk, MovedOnce
  <1>7. Chained'
    <2>1. PICK R \in SUBSET (Pub \X Pub) : Order(R) /\ Backed(R)
      BY DEF CloudInv, Chained
    <2>2. Order(R)'
      BY <2>1 DEF Order, Pub
    <2>3. Backed(R)'
      BY <2>1 DEF Backed, Ready, Looked, Src, Place, Kept
    <2> QED
      BY <2>1, <2>2, <2>3 DEF Chained, Pub
  <1>8. AllSafe'
    BY DEF CloudInv, AllSafe, Safe, Delivered, Kept
  <1> QED
    BY <1>1, <1>2, <1>3, <1>4, <1>5, <1>6, <1>7, <1>8 DEF CloudInv

\* Every step keeps the invariant.
LEMMA CloudStep ==
  ASSUME CloudInv, [Next]_vars
  PROVE  CloudInv'
  <1>1. ASSUME NEW w \in Worker, StepOf(w)
        PROVE  CloudInv'
    <2> USE <1>1
    <2>1. CloudTypes' /\ Control' /\ Apart' /\ Unseen'
      BY TypesStep, ControlStep, ApartStep, UnseenStep DEF CloudInv
    <2>2. Uniform' /\ Checked' /\ Clean'
      BY UniformStep, CheckedStep, CleanStep DEF CloudInv
    <2>3. Placed' /\ Stays' /\ ReadTrue'
      BY PlacedStep, StaysStep, ReadTrueStep DEF CloudInv
    <2>4. Vanished' /\ MovedOnce'
      BY VanishedStep, MovedOnceStep DEF CloudInv
    <2>5. Chained' /\ AllSafe'
      BY ChainedStep, AllSafeStep DEF CloudInv
    <2> QED
      BY <2>1, <2>2, <2>3, <2>4, <2>5 DEF CloudInv
  <1> QED
    BY <1>1, CloudStutter DEF Next, StepOf

\* CloudInv is an invariant of every transfer, for any number of requests.
THEOREM CloudInvariance == Spec => []CloudInv
  <1>1. Init => CloudInv
    BY CloudInit
  <1>2. CloudInv /\ [Next]_vars => CloudInv'
    BY CloudStep
  <1> QED
    BY <1>1, <1>2, PTL DEF Spec

\* What a store garbled never gets a public name, however many requests find and
\* take along what others staged (transfer.go, client.go: the copy is read back).
THEOREM GarbledStaysPrivate == Spec => []OnlyVerifiedPublic
  <1>1. CloudInv => OnlyVerifiedPublic
    BY DEF CloudInv, Clean
  <1> QED
    BY <1>1, CloudInvariance, PTL

\* Original contents and contents reported as uploaded have a public name until
\* they are deleted, replaced on purpose, or overwritten or removed after the last
\* comparison: moves that run at the same time, also in a circle, never remove
\* each other's copy.
THEOREM ContentsKeepPublicName == Spec => []AllSafe
  <1>1. CloudInv => AllSafe
    BY DEF CloudInv
  <1> QED
    BY <1>1, CloudInvariance, PTL

\* So nothing is lost unless it is trampled.
THEOREM OnlyTramplingLoses == Spec => []LossNeedsTrampling
  <1>1. CloudInv => LossNeedsTrampling
    <2> SUFFICES ASSUME AllSafe
                 PROVE  LossNeedsTrampling
      BY DEF CloudInv
    <2>1. Name \subseteq Path
      BY DEF Path
    <2>2. \A c : Safe(c) => c \in Present \cup released \cup trampled
      BY <2>1 DEF Safe, Present, Kept
    <2> QED
      BY <2>2 DEF AllSafe, Delivered, LossNeedsTrampling
  <1> QED
    BY <1>1, CloudInvariance, PTL

\* Two moves of one object do not both report success, unless one trampled.
THEOREM MovesReportOnce == Spec => []MovedOnce
  <1>1. CloudInv => MovedOnce
    BY DEF CloudInv
  <1> QED
    BY <1>1, CloudInvariance, PTL

=============================================================================
