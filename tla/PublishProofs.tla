---------------------------- MODULE PublishProofs ----------------------------
(***************************************************************************)
(* Theorems about Publish, for any number of names, requests and files:    *)
(* what holds whatever is killed or written in place, what two requests    *)
(* for a name add, the refinement of AtomicReplace, and then the same for  *)
(* transfers, which share the steps of Publish, next to uploads and edits. *)
(***************************************************************************)
EXTENDS Transfer, PublishRefinement, TLAPS

USE PublishAssumption DEF PublishAssumption, Staging, Publishing, Transferring, Active, Place, Outcome

\* Every variable starts in its type.
LEMMA TypeInit == Init => TypeOK
  <1> SUFFICES ASSUME Init PROVE TypeOK
    OBVIOUS
  <1>1. /\ dir \in [Name -> Entry] /\ stamp \in [Entry -> 0 .. MaxTouches]
        /\ complete \subseteq File /\ deleted \subseteq File
    BY DEF Init, Entry, File
  <1>2. task \in [Worker -> Task]
    <2>1. (CHOOSE n \in Name : TRUE) \in Name
      OBVIOUS
    <2>2. NoRevision \in Entry \X (0 .. MaxTouches) /\ "upload" \in Kind
      BY DEF NoRevision, Entry, Kind
    <2> QED
      BY <2>1, <2>2 DEF Init, Task
  <1> QED
    BY <1>1, <1>2 DEF Init, TypeOK, Entry

\* Every step keeps every variable in its type.
LEMMA TypeStep == TypeOK /\ [Next]_vars => TypeOK'
  <1> SUFFICES ASSUME TypeOK, [Next]_vars PROVE TypeOK'
    OBVIOUS
  <1> USE DEF TypeOK, fsVars, workerVars, Goto, Return
  <1>1. ASSUME NEW w \in Worker, Request(w) PROVE TypeOK'
    <2>1. PICK k \in {"upload", "edit"}, n \in Name : \E e \in {NoRevision, Revision(dir[n])} :
            /\ task' = [task EXCEPT ![w] = [kind |-> k, name |-> n, expected |-> e]]
            /\ pc' = [pc EXCEPT ![w] = IF k = "edit" THEN "opening" ELSE "staging"]
      BY <1>1 DEF Request
    <2>2. NoRevision \in Entry \X (0 .. MaxTouches)
          /\ Revision(dir[n]) \in Entry \X (0 .. MaxTouches)
      BY DEF NoRevision, Revision, Entry
    <2>3. task' \in [Worker -> Task] /\ pc' \in [Worker -> Place]
      BY <2>1, <2>2 DEF Task, Kind
    <2> QED
      BY <1>1, <2>3 DEF Request
  <1>2. ASSUME NEW w \in Worker, OpenOriginal(w) PROVE TypeOK'
    BY <1>2 DEF OpenOriginal, Task
  <1>3. ASSUME NEW w \in Worker, LockOriginal(w) PROVE TypeOK'
    BY <1>3 DEF LockOriginal, Entry
  <1>4. ASSUME NEW w \in Worker, CreateStaging(w) PROVE TypeOK'
    BY <1>4 DEF CreateStaging, Entry, File
  <1>5. ASSUME NEW w \in Worker, WriteStaging(w) PROVE TypeOK'
    BY <1>5 DEF WriteStaging, WriteFailed, File
  <1>6. ASSUME NEW w \in Worker, FinalCheck(w) \/ Compare(w) \/ Verify(w) \/ Recheck(w)
        PROVE TypeOK'
    BY <1>6 DEF FinalCheck, Compare, Verify, Recheck, RightOne
  <1>7. ASSUME NEW w \in Worker, PublishNew(w) \/ Exchange(w) \/ Restore(w)
        PROVE TypeOK'
    <2>1. dir[task[w].name] \in Entry /\ stage[w] \in Entry
      BY <1>7 DEF Task
    <2>2. Swap(w) => dir' \in [Name -> Entry] /\ stage' \in [Worker -> Entry]
      BY <2>1 DEF Swap
    <2>3. CASE PublishNew(w)
      <3>1. dir' \in [Name -> Entry] /\ stage' \in [Worker -> Entry]
        BY <2>1, <2>3 DEF PublishNew, Entry
      <3>2. pc' \in [Worker -> Place]
        BY <2>3 DEF PublishNew
      <3>3. outcome' = outcome \/ outcome' = [outcome EXCEPT ![w] = "exists"]
        BY <2>3 DEF PublishNew
      <3> QED
        BY <2>3, <3>1, <3>2, <3>3 DEF PublishNew
    <2>4. CASE Exchange(w)
      <3>1. dir' \in [Name -> Entry] /\ stage' \in [Worker -> Entry]
        BY <2>2, <2>4 DEF Exchange
      <3>2. pc' \in [Worker -> Place]
        BY <2>4 DEF Exchange
      <3>3. outcome' = outcome \/ outcome' = [outcome EXCEPT ![w] = "failed"]
        BY <2>4 DEF Exchange
      <3> QED
        BY <2>4, <3>1, <3>2, <3>3 DEF Exchange
    <2>5. CASE Restore(w)
      <3>1. dir' \in [Name -> Entry] /\ stage' \in [Worker -> Entry]
        BY <2>2, <2>5 DEF Restore
      <3>2. pc' \in [Worker -> Place] /\ outcome' \in [Worker -> Outcome]
        BY <2>5 DEF Restore
      <3> QED
        BY <2>5, <3>1, <3>2 DEF Restore
    <2> QED
      BY <1>7, <2>3, <2>4, <2>5
  <1>8. ASSUME NEW w \in Worker, SyncParent(w) \/ Finish(w) PROVE TypeOK'
    BY <1>8 DEF SyncParent, Finish, Entry
  <1>9. ASSUME NEW w \in Worker, Cancel(w) \/ Kill(w) PROVE TypeOK'
    BY <1>9 DEF Cancel, Kill
  <1>10. ASSUME NEW n \in Name, Delete(n) PROVE TypeOK'
    BY <1>10 DEF Delete, Entry
  <1>11. ASSUME NEW f \in File, Touch(f) PROVE TypeOK'
    BY <1>11 DEF Touch, Entry
  <1>12. CASE UNCHANGED vars
    BY <1>12 DEF vars
  <1> QED
    BY <1>1, <1>2, <1>3, <1>4, <1>5, <1>6, <1>7, <1>8, <1>9, <1>10, <1>11, <1>12
    DEF Next, Step

\* Type correctness of the publish protocol.
THEOREM Typing == Spec => []TypeOK
  BY TypeInit, TypeStep, PTL DEF Spec

-----------------------------------------------------------------------------
(* Each part of IInv is kept by every step, given all of IInv before it. *)

\* The inductive invariant holds of a directory before any request.
LEMMA IInvInit == Init => IInv
  <1> SUFFICES ASSUME Init PROVE IInv
    OBVIOUS
  <1> USE DEF Init
  <1>1. OnlyBorn
    BY DEF OnlyBorn, Unborn, Expected, NoRevision
  <1>2. OnePlace
    BY DEF OnePlace
  <1>3. OnlyCompletePublic /\ EmptyRevision /\ Rivals /\ OnlyPreviousRetained
    BY DEF OnlyCompletePublic, EmptyRevision, Rivals, OnlyPreviousRetained,
           Expected, NoRevision, Won, Published, Entry
  <1>4. \A w \in Worker : OwnStage(w) /\ Displaced(w) /\ Occupied(w)
    BY DEF OwnStage, Displaced, Occupied, Won, Published
  <1>5. Conserved
    BY DEF Conserved, Out, Accounted, Linked, Won, Published
  <1> QED
    BY <1>1, <1>2, <1>3, <1>4, <1>5 DEF IInv, Base

\* A staged file is created once: nothing refers to it before its staging step.
LEMMA BornStep == TypeOK /\ Base /\ [Next]_vars => OnlyBorn'
  <1> SUFFICES ASSUME TypeOK, Base, [Next]_vars PROVE OnlyBorn'
    OBVIOUS
  <1> USE DEF Base, TypeOK, fsVars, workerVars, Goto, Return, Entry, File, OnlyBorn, Unborn, Expected, Task
  <1>1. ASSUME NEW w \in Worker, Request(w) PROVE OnlyBorn'
    BY <1>1 DEF Request, Revision, NoRevision
  <1>2. ASSUME NEW w \in Worker, OpenOriginal(w) PROVE OnlyBorn'
    BY <1>2 DEF OpenOriginal
  <1>3. ASSUME NEW w \in Worker, LockOriginal(w) PROVE OnlyBorn'
    BY <1>3 DEF LockOriginal
  <1>4. ASSUME NEW w \in Worker, CreateStaging(w) PROVE OnlyBorn'
    BY <1>4 DEF CreateStaging
  <1>5. ASSUME NEW w \in Worker, WriteStaging(w) PROVE OnlyBorn'
    BY <1>5 DEF WriteStaging, WriteFailed
  <1>6. ASSUME NEW w \in Worker, FinalCheck(w) PROVE OnlyBorn'
    BY <1>6 DEF FinalCheck
  <1>7. ASSUME NEW w \in Worker, PublishNew(w) PROVE OnlyBorn'
    BY <1>7 DEF PublishNew
  <1>8. ASSUME NEW w \in Worker, Compare(w) PROVE OnlyBorn'
    BY <1>8 DEF Compare
  <1>9. ASSUME NEW w \in Worker, Exchange(w) PROVE OnlyBorn'
    BY <1>9 DEF Exchange, Swap
  <1>10. ASSUME NEW w \in Worker, Verify(w) PROVE OnlyBorn'
    BY <1>10 DEF Verify, RightOne, Revision
  <1>11. ASSUME NEW w \in Worker, Recheck(w) PROVE OnlyBorn'
    BY <1>11 DEF Recheck
  <1>12. ASSUME NEW w \in Worker, Restore(w) PROVE OnlyBorn'
    BY <1>12 DEF Restore, Swap
  <1>13. ASSUME NEW w \in Worker, SyncParent(w) PROVE OnlyBorn'
    BY <1>13 DEF SyncParent
  <1>14. ASSUME NEW w \in Worker, Finish(w) PROVE OnlyBorn'
    BY <1>14 DEF Finish, Kept
  <1>15. ASSUME NEW w \in Worker, Cancel(w) PROVE OnlyBorn'
    BY <1>15 DEF Cancel
  <1>16. ASSUME NEW w \in Worker, Kill(w) PROVE OnlyBorn'
    BY <1>16 DEF Kill
  <1>17. ASSUME NEW n \in Name, Delete(n) PROVE OnlyBorn'
    BY <1>17 DEF Delete
  <1>18. ASSUME NEW f \in File, Touch(f) PROVE OnlyBorn'
    BY <1>18 DEF Touch
  <1>19. CASE UNCHANGED vars
    BY <1>19 DEF vars
  <1> QED
    BY <1>1, <1>2, <1>3, <1>4, <1>5, <1>6, <1>7, <1>8, <1>9, <1>10, <1>11, <1>12, <1>13, <1>14, <1>15,
       <1>16, <1>17, <1>18, <1>19 DEF Next, Step

\* An exchange only swaps two entries, so no file gets a second place.
LEMMA SwapOnePlace ==
  ASSUME TypeOK, OnePlace, NEW w \in Worker, Swap(w)
  PROVE  OnePlace'
  <1> DEFINE n == task[w].name
  <1> USE DEF TypeOK, OnePlace
  <1>1. n \in Name
    BY DEF Task
  <1>2. /\ dir' = [dir EXCEPT ![n] = stage[w]]
        /\ stage' = [stage EXCEPT ![w] = dir[n]]
    BY DEF Swap
  <1> HIDE DEF n
  <1>3. \A m \in Name : dir'[m] = IF m = n THEN stage[w] ELSE dir[m]
    BY <1>1, <1>2
  <1>4. \A v \in Worker : stage'[v] = IF v = w THEN dir[n] ELSE stage[v]
    BY <1>2
  <1>5. \A m, k \in Name : dir'[m] = dir'[k] /\ m # k => dir'[m] = NoFile
    BY <1>1, <1>3
  <1>6. \A v, u \in Worker : stage'[v] = stage'[u] /\ v # u => stage'[v] = NoFile
    BY <1>1, <1>4
  <1>7. \A m \in Name, v \in Worker : dir'[m] = stage'[v] => dir'[m] = NoFile
    BY <1>1, <1>3, <1>4
  <1> QED
    BY <1>5, <1>6, <1>7

\* Every step keeps each file in at most one place: no rename makes a second link.
LEMMA OnePlaceStep == TypeOK /\ Base /\ [Next]_vars => OnePlace'
  <1> SUFFICES ASSUME TypeOK, Base, [Next]_vars PROVE OnePlace'
    OBVIOUS
  <1> USE DEF Base, TypeOK, fsVars, workerVars, Goto, Return, Entry, File, OnePlace, OnlyBorn, Unborn,
              OwnStage
  <1>1. ASSUME NEW w \in Worker, Request(w) PROVE OnePlace'
    BY <1>1 DEF Request, Revision, NoRevision
  <1>2. ASSUME NEW w \in Worker, OpenOriginal(w) PROVE OnePlace'
    BY <1>2 DEF OpenOriginal
  <1>3. ASSUME NEW w \in Worker, LockOriginal(w) PROVE OnePlace'
    BY <1>3 DEF LockOriginal
  <1>4. ASSUME NEW w \in Worker, CreateStaging(w) PROVE OnePlace'
    BY <1>4 DEF CreateStaging
  <1>5. ASSUME NEW w \in Worker, WriteStaging(w) PROVE OnePlace'
    BY <1>5 DEF WriteStaging, WriteFailed
  <1>6. ASSUME NEW w \in Worker, FinalCheck(w) PROVE OnePlace'
    BY <1>6 DEF FinalCheck
  <1>7. ASSUME NEW w \in Worker, PublishNew(w) PROVE OnePlace'
    BY <1>7 DEF PublishNew
  <1>8. ASSUME NEW w \in Worker, Compare(w) PROVE OnePlace'
    BY <1>8 DEF Compare
  <1>9. ASSUME NEW w \in Worker, Exchange(w) PROVE OnePlace'
    BY <1>9, SwapOnePlace DEF Exchange
  <1>10. ASSUME NEW w \in Worker, Verify(w) PROVE OnePlace'
    BY <1>10 DEF Verify, RightOne, Revision
  <1>11. ASSUME NEW w \in Worker, Recheck(w) PROVE OnePlace'
    BY <1>11 DEF Recheck
  <1>12. ASSUME NEW w \in Worker, Restore(w) PROVE OnePlace'
    BY <1>12, SwapOnePlace DEF Restore
  <1>13. ASSUME NEW w \in Worker, SyncParent(w) PROVE OnePlace'
    BY <1>13 DEF SyncParent
  <1>14. ASSUME NEW w \in Worker, Finish(w) PROVE OnePlace'
    BY <1>14 DEF Finish, Kept
  <1>15. ASSUME NEW w \in Worker, Cancel(w) PROVE OnePlace'
    BY <1>15 DEF Cancel
  <1>16. ASSUME NEW w \in Worker, Kill(w) PROVE OnePlace'
    BY <1>16 DEF Kill
  <1>17. ASSUME NEW n \in Name, Delete(n) PROVE OnePlace'
    BY <1>17 DEF Delete
  <1>18. ASSUME NEW f \in File, Touch(f) PROVE OnePlace'
    BY <1>18 DEF Touch
  <1>19. CASE UNCHANGED vars
    BY <1>19 DEF vars
  <1> QED
    BY <1>1, <1>2, <1>3, <1>4, <1>5, <1>6, <1>7, <1>8, <1>9, <1>10, <1>11, <1>12, <1>13, <1>14, <1>15,
       <1>16, <1>17, <1>18, <1>19 DEF Next, Step

\* Files are completed before they are published.
LEMMA CompleteStep == TypeOK /\ Base /\ [Next]_vars => OnlyCompletePublic'
  <1> SUFFICES ASSUME TypeOK, Base, [Next]_vars PROVE OnlyCompletePublic'
    OBVIOUS
  <1> USE DEF Base, TypeOK, fsVars, workerVars, Goto, Return, Entry, File, Expected, OnlyCompletePublic,
              OwnStage
  <1>1. ASSUME NEW w \in Worker, Request(w) PROVE OnlyCompletePublic'
    BY <1>1 DEF Request, Revision, NoRevision
  <1>2. ASSUME NEW w \in Worker, OpenOriginal(w) PROVE OnlyCompletePublic'
    BY <1>2 DEF OpenOriginal
  <1>3. ASSUME NEW w \in Worker, LockOriginal(w) PROVE OnlyCompletePublic'
    BY <1>3 DEF LockOriginal
  <1>4. ASSUME NEW w \in Worker, CreateStaging(w) PROVE OnlyCompletePublic'
    BY <1>4 DEF CreateStaging
  <1>5. ASSUME NEW w \in Worker, WriteStaging(w) PROVE OnlyCompletePublic'
    BY <1>5 DEF WriteStaging, WriteFailed
  <1>6. ASSUME NEW w \in Worker, FinalCheck(w) PROVE OnlyCompletePublic'
    BY <1>6 DEF FinalCheck
  <1>7. ASSUME NEW w \in Worker, PublishNew(w) PROVE OnlyCompletePublic'
    BY <1>7 DEF PublishNew
  <1>8. ASSUME NEW w \in Worker, Compare(w) PROVE OnlyCompletePublic'
    BY <1>8 DEF Compare
  <1>9. ASSUME NEW w \in Worker, Exchange(w) PROVE OnlyCompletePublic'
    BY <1>9 DEF Exchange, Swap
  <1>10. ASSUME NEW w \in Worker, Verify(w) PROVE OnlyCompletePublic'
    BY <1>10 DEF Verify, RightOne, Revision
  <1>11. ASSUME NEW w \in Worker, Recheck(w) PROVE OnlyCompletePublic'
    BY <1>11 DEF Recheck
  <1>12. ASSUME NEW w \in Worker, Restore(w) PROVE OnlyCompletePublic'
    BY <1>12 DEF Restore, Swap
  <1>13. ASSUME NEW w \in Worker, SyncParent(w) PROVE OnlyCompletePublic'
    BY <1>13 DEF SyncParent
  <1>14. ASSUME NEW w \in Worker, Finish(w) PROVE OnlyCompletePublic'
    BY <1>14 DEF Finish, Kept
  <1>15. ASSUME NEW w \in Worker, Cancel(w) PROVE OnlyCompletePublic'
    BY <1>15 DEF Cancel
  <1>16. ASSUME NEW w \in Worker, Kill(w) PROVE OnlyCompletePublic'
    BY <1>16 DEF Kill
  <1>17. ASSUME NEW n \in Name, Delete(n) PROVE OnlyCompletePublic'
    BY <1>17 DEF Delete
  <1>18. ASSUME NEW f \in File, Touch(f) PROVE OnlyCompletePublic'
    BY <1>18 DEF Touch
  <1>19. CASE UNCHANGED vars
    BY <1>19 DEF vars
  <1> QED
    BY <1>1, <1>2, <1>3, <1>4, <1>5, <1>6, <1>7, <1>8, <1>9, <1>10, <1>11, <1>12, <1>13, <1>14, <1>15,
       <1>16, <1>17, <1>18, <1>19 DEF Next, Step

\* The empty revision stays empty.
LEMMA EmptyStep == TypeOK /\ Base /\ [Next]_vars => EmptyRevision'
  <1> SUFFICES ASSUME TypeOK, Base, [Next]_vars PROVE EmptyRevision'
    OBVIOUS
  <1> USE DEF Base, TypeOK, fsVars, workerVars, Goto, Return, Entry, File, Expected, EmptyRevision
  <1>1. ASSUME NEW w \in Worker, Request(w) PROVE EmptyRevision'
    BY <1>1 DEF Request, Revision, NoRevision
  <1>2. ASSUME NEW w \in Worker, OpenOriginal(w) PROVE EmptyRevision'
    BY <1>2 DEF OpenOriginal
  <1>3. ASSUME NEW w \in Worker, LockOriginal(w) PROVE EmptyRevision'
    BY <1>3 DEF LockOriginal
  <1>4. ASSUME NEW w \in Worker, CreateStaging(w) PROVE EmptyRevision'
    BY <1>4 DEF CreateStaging
  <1>5. ASSUME NEW w \in Worker, WriteStaging(w) PROVE EmptyRevision'
    BY <1>5 DEF WriteStaging, WriteFailed
  <1>6. ASSUME NEW w \in Worker, FinalCheck(w) PROVE EmptyRevision'
    BY <1>6 DEF FinalCheck
  <1>7. ASSUME NEW w \in Worker, PublishNew(w) PROVE EmptyRevision'
    BY <1>7 DEF PublishNew
  <1>8. ASSUME NEW w \in Worker, Compare(w) PROVE EmptyRevision'
    BY <1>8 DEF Compare
  <1>9. ASSUME NEW w \in Worker, Exchange(w) PROVE EmptyRevision'
    BY <1>9 DEF Exchange, Swap
  <1>10. ASSUME NEW w \in Worker, Verify(w) PROVE EmptyRevision'
    BY <1>10 DEF Verify, RightOne, Revision
  <1>11. ASSUME NEW w \in Worker, Recheck(w) PROVE EmptyRevision'
    BY <1>11 DEF Recheck
  <1>12. ASSUME NEW w \in Worker, Restore(w) PROVE EmptyRevision'
    BY <1>12 DEF Restore, Swap
  <1>13. ASSUME NEW w \in Worker, SyncParent(w) PROVE EmptyRevision'
    BY <1>13 DEF SyncParent
  <1>14. ASSUME NEW w \in Worker, Finish(w) PROVE EmptyRevision'
    BY <1>14 DEF Finish, Kept
  <1>15. ASSUME NEW w \in Worker, Cancel(w) PROVE EmptyRevision'
    BY <1>15 DEF Cancel
  <1>16. ASSUME NEW w \in Worker, Kill(w) PROVE EmptyRevision'
    BY <1>16 DEF Kill
  <1>17. ASSUME NEW n \in Name, Delete(n) PROVE EmptyRevision'
    BY <1>17 DEF Delete
  <1>18. ASSUME NEW f \in File, Touch(f) PROVE EmptyRevision'
    BY <1>18 DEF Touch
  <1>19. CASE UNCHANGED vars
    BY <1>19 DEF vars
  <1> QED
    BY <1>1, <1>2, <1>3, <1>4, <1>5, <1>6, <1>7, <1>8, <1>9, <1>10, <1>11, <1>12, <1>13, <1>14, <1>15,
       <1>16, <1>17, <1>18, <1>19 DEF Next, Step

\* What a worker holds matches the place of the protocol it is at.
LEMMA OwnStageStep == TypeOK /\ Base /\ [Next]_vars => \A u \in Worker : OwnStage(u)'
  <1> SUFFICES ASSUME TypeOK, Base, [Next]_vars, NEW u \in Worker PROVE OwnStage(u)'
    OBVIOUS
  <1> USE DEF Base, TypeOK, fsVars, workerVars, Goto, Return, Entry, File, Expected, Task,
              OnlyCompletePublic, OwnStage, OnlyBorn, Unborn, OnePlace, Won, Published
  <1>1. ASSUME NEW w \in Worker, Request(w) PROVE OwnStage(u)'
    BY <1>1 DEF Request, Revision, NoRevision
  <1>2. ASSUME NEW w \in Worker, OpenOriginal(w) PROVE OwnStage(u)'
    BY <1>2 DEF OpenOriginal
  <1>3. ASSUME NEW w \in Worker, LockOriginal(w) PROVE OwnStage(u)'
    BY <1>3 DEF LockOriginal
  <1>4. ASSUME NEW w \in Worker, CreateStaging(w) PROVE OwnStage(u)'
    BY <1>4 DEF CreateStaging
  <1>5. ASSUME NEW w \in Worker, WriteStaging(w) PROVE OwnStage(u)'
    BY <1>5 DEF WriteStaging, WriteFailed
  <1>6. ASSUME NEW w \in Worker, FinalCheck(w) PROVE OwnStage(u)'
    BY <1>6 DEF FinalCheck
  <1>7. ASSUME NEW w \in Worker, PublishNew(w) PROVE OwnStage(u)'
    BY <1>7 DEF PublishNew
  <1>8. ASSUME NEW w \in Worker, Compare(w) PROVE OwnStage(u)'
    BY <1>8 DEF Compare
  <1>9. ASSUME NEW w \in Worker, Exchange(w) PROVE OwnStage(u)'
    BY <1>9 DEF Exchange, Swap
  <1>10. ASSUME NEW w \in Worker, Verify(w) PROVE OwnStage(u)'
    BY <1>10 DEF Verify, RightOne, Revision, NoRevision
  <1>11. ASSUME NEW w \in Worker, Recheck(w) PROVE OwnStage(u)'
    BY <1>11 DEF Recheck
  <1>12. ASSUME NEW w \in Worker, Restore(w) PROVE OwnStage(u)'
    BY <1>12 DEF Restore, Swap
  <1>13. ASSUME NEW w \in Worker, SyncParent(w) PROVE OwnStage(u)'
    BY <1>13 DEF SyncParent
  <1>14. ASSUME NEW w \in Worker, Finish(w) PROVE OwnStage(u)'
    BY <1>14 DEF Finish, Kept
  <1>15. ASSUME NEW w \in Worker, Cancel(w) PROVE OwnStage(u)'
    BY <1>15 DEF Cancel
  <1>16. ASSUME NEW w \in Worker, Kill(w) PROVE OwnStage(u)'
    BY <1>16 DEF Kill
  <1>17. ASSUME NEW n \in Name, Delete(n) PROVE OwnStage(u)'
    BY <1>17 DEF Delete
  <1>18. ASSUME NEW f \in File, Touch(f) PROVE OwnStage(u)'
    BY <1>18 DEF Touch
  <1>19. CASE UNCHANGED vars
    BY <1>19 DEF vars
  <1> QED
    BY <1>1, <1>2, <1>3, <1>4, <1>5, <1>6, <1>7, <1>8, <1>9, <1>10, <1>11, <1>12, <1>13, <1>14, <1>15,
       <1>16, <1>17, <1>18, <1>19 DEF Next, Step

\* An exchange links nothing that was not linked, and does not touch the
\* staging folder of another worker.
LEMMA SwapLinked ==
  ASSUME TypeOK, NEW w \in Worker, Swap(w)
  PROVE  /\ \A f : Linked(f)' => Linked(f)
         /\ \A v \in Worker \ {w} : stage'[v] = stage[v]
  <1> DEFINE n == task[w].name
  <1>1. n \in Name
    BY DEF TypeOK, Task
  <1>2. /\ dir' = [dir EXCEPT ![n] = stage[w]]
        /\ stage' = [stage EXCEPT ![w] = dir[n]]
    BY DEF Swap
  <1> QED
    BY <1>1, <1>2 DEF TypeOK, Linked

\* What a successful replacement displaced is what its user agreed to replace.
LEMMA DisplacedStep == TypeOK /\ Base /\ [Next]_vars => \A u \in Worker : Displaced(u)'
  <1> SUFFICES ASSUME TypeOK, Base, [Next]_vars, NEW u \in Worker PROVE Displaced(u)'
    OBVIOUS
  <1> USE DEF Base, TypeOK, fsVars, workerVars, Goto, Return, Entry, File, Expected, Displaced, OwnStage,
              OnlyBorn, Unborn, OnePlace, Won, Published, Nowhere, Linked, EmptyRevision
  <1>1. ASSUME NEW w \in Worker, Request(w) PROVE Displaced(u)'
    BY <1>1 DEF Request, Revision, NoRevision
  <1>2. ASSUME NEW w \in Worker, OpenOriginal(w) PROVE Displaced(u)'
    BY <1>2 DEF OpenOriginal
  <1>3. ASSUME NEW w \in Worker, LockOriginal(w) PROVE Displaced(u)'
    BY <1>3 DEF LockOriginal
  <1>4. ASSUME NEW w \in Worker, CreateStaging(w) PROVE Displaced(u)'
    BY <1>4 DEF CreateStaging
  <1>5. ASSUME NEW w \in Worker, WriteStaging(w) PROVE Displaced(u)'
    BY <1>5 DEF WriteStaging, WriteFailed
  <1>6. ASSUME NEW w \in Worker, FinalCheck(w) PROVE Displaced(u)'
    BY <1>6 DEF FinalCheck
  <1>7. ASSUME NEW w \in Worker, PublishNew(w) PROVE Displaced(u)'
    BY <1>7 DEF PublishNew
  <1>8. ASSUME NEW w \in Worker, Compare(w) PROVE Displaced(u)'
    BY <1>8 DEF Compare
  <1>9. ASSUME NEW w \in Worker, Exchange(w) PROVE Displaced(u)'
    <2> HIDE DEF Linked
    <2>1. CASE u = w
      BY <1>9, <2>1 DEF Exchange
    <2>2. CASE u # w
      <3>1. pc'[u] = pc[u] /\ outcome'[u] = outcome[u] /\ task' = task
        BY <1>9, <2>2 DEF Exchange
      <3>2. CASE Swap(w)
        BY <2>2, <3>1, <3>2, SwapLinked
      <3>3. CASE UNCHANGED <<dir, stage>>
        BY <2>2, <3>1, <3>3 DEF Linked
      <3> QED
        BY <1>9, <3>2, <3>3 DEF Exchange
    <2> QED
      BY <2>1, <2>2
  <1>10. ASSUME NEW w \in Worker, Verify(w) PROVE Displaced(u)'
    BY <1>10 DEF Verify, RightOne, Revision
  <1>11. ASSUME NEW w \in Worker, Recheck(w) PROVE Displaced(u)'
    BY <1>11 DEF Recheck
  <1>12. ASSUME NEW w \in Worker, Restore(w) PROVE Displaced(u)'
    <2> HIDE DEF Linked
    <2>1. CASE u = w
      BY <1>12, <2>1 DEF Restore
    <2>2. CASE u # w
      <3>1. pc'[u] = pc[u] /\ outcome'[u] = outcome[u] /\ task' = task
        BY <1>12, <2>2 DEF Restore
      <3>2. CASE Swap(w)
        BY <2>2, <3>1, <3>2, SwapLinked
      <3>3. CASE UNCHANGED <<dir, stage>>
        BY <2>2, <3>1, <3>3 DEF Linked
      <3> QED
        BY <1>12, <3>2, <3>3 DEF Restore
    <2> QED
      BY <2>1, <2>2
  <1>13. ASSUME NEW w \in Worker, SyncParent(w) PROVE Displaced(u)'
    BY <1>13 DEF SyncParent
  <1>14. ASSUME NEW w \in Worker, Finish(w) PROVE Displaced(u)'
    BY <1>14 DEF Finish, Kept
  <1>15. ASSUME NEW w \in Worker, Cancel(w) PROVE Displaced(u)'
    BY <1>15 DEF Cancel
  <1>16. ASSUME NEW w \in Worker, Kill(w) PROVE Displaced(u)'
    BY <1>16 DEF Kill
  <1>17. ASSUME NEW n \in Name, Delete(n) PROVE Displaced(u)'
    BY <1>17 DEF Delete
  <1>18. ASSUME NEW f \in File, Touch(f) PROVE Displaced(u)'
    BY <1>18 DEF Touch
  <1>19. CASE UNCHANGED vars
    BY <1>19 DEF vars
  <1> QED
    BY <1>1, <1>2, <1>3, <1>4, <1>5, <1>6, <1>7, <1>8, <1>9, <1>10, <1>11, <1>12, <1>13, <1>14, <1>15,
       <1>16, <1>17, <1>18, <1>19 DEF Next, Step

\* A name that received a new file is not emptied by the protocol.
LEMMA OccupiedStep == TypeOK /\ IInv /\ [Next]_vars => \A u \in Worker : Occupied(u)'
  <1> SUFFICES ASSUME TypeOK, IInv, [Next]_vars, NEW u \in Worker PROVE Occupied(u)'
    OBVIOUS
  <1> USE DEF IInv, Base, TypeOK, fsVars, workerVars, Goto, Return, Entry, File, Expected, Task,
              Occupied, OwnStage, Won, Published, OnlyBorn
  <1>1. ASSUME NEW w \in Worker, Request(w) PROVE Occupied(u)'
    <2>1. UNCHANGED <<fsVars, holder, stage, opened, cancelled, outcome>> /\ pc[w] = "idle"
      BY <1>1 DEF Request
    <2>2. /\ \A v \in Worker : v # w => task'[v] = task[v] /\ pc'[v] = pc[v]
          /\ pc'[w] \in {"opening", "staging"}
      BY <1>1 DEF Request
    <2>3. CASE u = w
      BY <2>1, <2>2, <2>3
    <2>4. CASE u # w
      BY <2>1, <2>2, <2>4
    <2> QED
      BY <2>3, <2>4
  <1>2. ASSUME NEW w \in Worker, OpenOriginal(w) PROVE Occupied(u)'
    BY <1>2 DEF OpenOriginal
  <1>3. ASSUME NEW w \in Worker, LockOriginal(w) PROVE Occupied(u)'
    BY <1>3 DEF LockOriginal
  <1>4. ASSUME NEW w \in Worker, CreateStaging(w) PROVE Occupied(u)'
    BY <1>4 DEF CreateStaging
  <1>5. ASSUME NEW w \in Worker, WriteStaging(w) PROVE Occupied(u)'
    BY <1>5 DEF WriteStaging, WriteFailed
  <1>6. ASSUME NEW w \in Worker, FinalCheck(w) PROVE Occupied(u)'
    BY <1>6 DEF FinalCheck
  <1>7. ASSUME NEW w \in Worker, PublishNew(w) PROVE Occupied(u)'
    BY <1>7 DEF PublishNew
  <1>8. ASSUME NEW w \in Worker, Compare(w) PROVE Occupied(u)'
    BY <1>8 DEF Compare
  <1>9. ASSUME NEW w \in Worker, Exchange(w) PROVE Occupied(u)'
    BY <1>9 DEF Exchange, Swap
  <1>10. ASSUME NEW w \in Worker, Verify(w) PROVE Occupied(u)'
    <2>1. UNCHANGED <<dir, deleted, task, outcome>> /\ \A v \in Worker \ {w} : pc'[v] = pc[v]
      BY <1>10 DEF Verify
    <2>2. pc'[w] = "syncing" => Expected(w) # NoRevision
      BY <1>10 DEF Verify, RightOne, Revision, NoRevision
    <2>3. pc[w] = "verifying" /\ pc'[w] \in {"syncing", "rechecking"} /\ outcome[w] = "none"
      BY <1>10 DEF Verify
    <2> QED
      BY <2>1, <2>2, <2>3
  <1>11. ASSUME NEW w \in Worker, Recheck(w) PROVE Occupied(u)'
    BY <1>11 DEF Recheck
  <1>12. ASSUME NEW w \in Worker, Restore(w) PROVE Occupied(u)'
    BY <1>12 DEF Restore, Swap
  <1>13. ASSUME NEW w \in Worker, SyncParent(w) PROVE Occupied(u)'
    BY <1>13 DEF SyncParent
  <1>14. ASSUME NEW w \in Worker, Finish(w) PROVE Occupied(u)'
    BY <1>14 DEF Finish, Kept
  <1>15. ASSUME NEW w \in Worker, Cancel(w) PROVE Occupied(u)'
    BY <1>15 DEF Cancel
  <1>16. ASSUME NEW w \in Worker, Kill(w) PROVE Occupied(u)'
    BY <1>16 DEF Kill
  <1>17. ASSUME NEW n \in Name, Delete(n) PROVE Occupied(u)'
    BY <1>17 DEF Delete
  <1>18. ASSUME NEW f \in File, Touch(f) PROVE Occupied(u)'
    BY <1>18 DEF Touch
  <1>19. CASE UNCHANGED vars
    BY <1>19 DEF vars
  <1> QED
    BY <1>1, <1>2, <1>3, <1>4, <1>5, <1>6, <1>7, <1>8, <1>9, <1>10, <1>11, <1>12, <1>13, <1>14, <1>15,
       <1>16, <1>17, <1>18, <1>19 DEF Next, Step

\* A second success for a revision would need a second copy of the same file.
LEMMA RivalsStep == TypeOK /\ IInv /\ [Next]_vars => Rivals'
  <1> SUFFICES ASSUME TypeOK, IInv, [Next]_vars PROVE Rivals'
    OBVIOUS
  <1> USE DEF IInv, Base, TypeOK, fsVars, workerVars, Goto, Return, Entry, File, Expected, Rivals,
              Displaced, OwnStage, OnlyBorn, OnePlace, Won, Published, Nowhere, Linked, EmptyRevision,
              Occupied
  <1>1. ASSUME NEW w \in Worker, Request(w) PROVE Rivals'
    BY <1>1 DEF Request, Revision, NoRevision
  <1>2. ASSUME NEW w \in Worker, OpenOriginal(w) PROVE Rivals'
    BY <1>2 DEF OpenOriginal
  <1>3. ASSUME NEW w \in Worker, LockOriginal(w) PROVE Rivals'
    BY <1>3 DEF LockOriginal
  <1>4. ASSUME NEW w \in Worker, CreateStaging(w) PROVE Rivals'
    BY <1>4 DEF CreateStaging
  <1>5. ASSUME NEW w \in Worker, WriteStaging(w) PROVE Rivals'
    BY <1>5 DEF WriteStaging, WriteFailed
  <1>6. ASSUME NEW w \in Worker, FinalCheck(w) PROVE Rivals'
    BY <1>6 DEF FinalCheck
  <1>7. ASSUME NEW w \in Worker, PublishNew(w) PROVE Rivals'
    BY <1>7 DEF PublishNew
  <1>8. ASSUME NEW w \in Worker, Compare(w) PROVE Rivals'
    BY <1>8 DEF Compare
  <1>9. ASSUME NEW w \in Worker, Exchange(w) PROVE Rivals'
    BY <1>9 DEF Exchange, Swap
  <1>10. ASSUME NEW w \in Worker, Verify(w) PROVE Rivals'
    <2>1. CASE Revision(stage[w]) # Expected(w)
      BY <1>10, <2>1 DEF Verify, RightOne
    <2>2. CASE Revision(stage[w]) = Expected(w)
      <3>1. stage[w] = Expected(w)[1] /\ stage[w] # NoFile /\ pc[w] = "verifying"
        BY <1>10, <2>2 DEF Verify, RightOne, Revision
      <3>2. Expected(w) # NoRevision
        BY <3>1 DEF NoRevision
      <3>3. ASSUME NEW v \in Worker, v # w, Won(v), Expected(v) = Expected(w)
            PROVE  FALSE
        BY <3>1, <3>2, <3>3
      <3> QED
        BY <1>10, <2>2, <3>3 DEF Verify, RightOne
    <2> QED
      BY <2>1, <2>2
  <1>11. ASSUME NEW w \in Worker, Recheck(w) PROVE Rivals'
    BY <1>11 DEF Recheck
  <1>12. ASSUME NEW w \in Worker, Restore(w) PROVE Rivals'
    BY <1>12 DEF Restore, Swap
  <1>13. ASSUME NEW w \in Worker, SyncParent(w) PROVE Rivals'
    BY <1>13 DEF SyncParent
  <1>14. ASSUME NEW w \in Worker, Finish(w) PROVE Rivals'
    BY <1>14 DEF Finish, Kept
  <1>15. ASSUME NEW w \in Worker, Cancel(w) PROVE Rivals'
    BY <1>15 DEF Cancel
  <1>16. ASSUME NEW w \in Worker, Kill(w) PROVE Rivals'
    BY <1>16 DEF Kill
  <1>17. ASSUME NEW n \in Name, Delete(n) PROVE Rivals'
    BY <1>17 DEF Delete
  <1>18. ASSUME NEW f \in File, Touch(f) PROVE Rivals'
    BY <1>18 DEF Touch
  <1>19. CASE UNCHANGED vars
    BY <1>19 DEF vars
  <1> QED
    BY <1>1, <1>2, <1>3, <1>4, <1>5, <1>6, <1>7, <1>8, <1>9, <1>10, <1>11, <1>12, <1>13, <1>14, <1>15,
       <1>16, <1>17, <1>18, <1>19 DEF Next, Step

\* A staging folder is left behind only with displaced data in it.
LEMMA RetainedStep == TypeOK /\ Base /\ OnlyPreviousRetained /\ [Next]_vars => OnlyPreviousRetained'
  <1> SUFFICES ASSUME TypeOK, Base, OnlyPreviousRetained, [Next]_vars PROVE OnlyPreviousRetained'
    OBVIOUS
  <1> USE DEF Base, TypeOK, fsVars, workerVars, Goto, Return, Entry, File, Expected,
              OnlyPreviousRetained, OwnStage, Won, Published, Kept, OnlyBorn, Unborn
  <1>1. ASSUME NEW w \in Worker, Request(w) PROVE OnlyPreviousRetained'
    BY <1>1 DEF Request, Revision, NoRevision
  <1>2. ASSUME NEW w \in Worker, OpenOriginal(w) PROVE OnlyPreviousRetained'
    BY <1>2 DEF OpenOriginal
  <1>3. ASSUME NEW w \in Worker, LockOriginal(w) PROVE OnlyPreviousRetained'
    BY <1>3 DEF LockOriginal
  <1>4. ASSUME NEW w \in Worker, CreateStaging(w) PROVE OnlyPreviousRetained'
    BY <1>4 DEF CreateStaging
  <1>5. ASSUME NEW w \in Worker, WriteStaging(w) PROVE OnlyPreviousRetained'
    BY <1>5 DEF WriteStaging, WriteFailed
  <1>6. ASSUME NEW w \in Worker, FinalCheck(w) PROVE OnlyPreviousRetained'
    BY <1>6 DEF FinalCheck
  <1>7. ASSUME NEW w \in Worker, PublishNew(w) PROVE OnlyPreviousRetained'
    BY <1>7 DEF PublishNew
  <1>8. ASSUME NEW w \in Worker, Compare(w) PROVE OnlyPreviousRetained'
    BY <1>8 DEF Compare
  <1>9. ASSUME NEW w \in Worker, Exchange(w) PROVE OnlyPreviousRetained'
    BY <1>9 DEF Exchange, Swap
  <1>10. ASSUME NEW w \in Worker, Verify(w) PROVE OnlyPreviousRetained'
    BY <1>10 DEF Verify, RightOne, Revision
  <1>11. ASSUME NEW w \in Worker, Recheck(w) PROVE OnlyPreviousRetained'
    BY <1>11 DEF Recheck
  <1>12. ASSUME NEW w \in Worker, Restore(w) PROVE OnlyPreviousRetained'
    BY <1>12 DEF Restore, Swap
  <1>13. ASSUME NEW w \in Worker, SyncParent(w) PROVE OnlyPreviousRetained'
    BY <1>13 DEF SyncParent
  <1>14. ASSUME NEW w \in Worker, Finish(w) PROVE OnlyPreviousRetained'
    <2>1. ASSUME pc[w] = "cleaning", outcome[w] = "unsynced"
          PROVE  stage[w] = Expected(w)[1]
      BY <2>1 DEF Displaced, NoRevision
    <2> QED
      BY <1>14, <2>1 DEF Finish
  <1>15. ASSUME NEW w \in Worker, Cancel(w) PROVE OnlyPreviousRetained'
    BY <1>15 DEF Cancel
  <1>16. ASSUME NEW w \in Worker, Kill(w) PROVE OnlyPreviousRetained'
    BY <1>16 DEF Kill
  <1>17. ASSUME NEW n \in Name, Delete(n) PROVE OnlyPreviousRetained'
    BY <1>17 DEF Delete
  <1>18. ASSUME NEW f \in File, Touch(f) PROVE OnlyPreviousRetained'
    BY <1>18 DEF Touch
  <1>19. CASE UNCHANGED vars
    BY <1>19 DEF vars
  <1> QED
    BY <1>1, <1>2, <1>3, <1>4, <1>5, <1>6, <1>7, <1>8, <1>9, <1>10, <1>11, <1>12, <1>13, <1>14, <1>15,
       <1>16, <1>17, <1>18, <1>19 DEF Next, Step

\* Once published, a request stays published and keeps its task.
LEMMA PublishedStep ==
  ASSUME TypeOK, Base, [Next]_vars, NEW v \in Worker, Published(v)
  PROVE  Published(v)' /\ Expected(v)' = Expected(v)
  <1>1. pc[v] \in {"cleaning", "done", "killed"}
    BY DEF Base, OwnStage, Published
  <1> USE DEF Published, Expected, Goto, Return, fsVars, workerVars, TypeOK
  <1>2. ASSUME NEW w \in Worker, Request(w) PROVE Published(v)' /\ Expected(v)' = Expected(v)
    BY <1>1, <1>2 DEF Request
  <1>3. ASSUME NEW w \in Worker, Step(w) PROVE Published(v)' /\ Expected(v)' = Expected(v)
    BY <1>1, <1>3 DEF Step, OpenOriginal, LockOriginal, CreateStaging, WriteStaging,
         WriteFailed, FinalCheck, PublishNew, Compare, Exchange, Verify, Recheck,
         Restore, SyncParent, Finish
  <1>4. ASSUME NEW w \in Worker, Cancel(w) \/ Kill(w)
        PROVE Published(v)' /\ Expected(v)' = Expected(v)
    BY <1>4 DEF Cancel, Kill
  <1>5. ASSUME NEW n \in Name, Delete(n) PROVE Published(v)' /\ Expected(v)' = Expected(v)
    BY <1>5 DEF Delete
  <1>6. ASSUME NEW f \in File, Touch(f) PROVE Published(v)' /\ Expected(v)' = Expected(v)
    BY <1>6 DEF Touch
  <1>7. CASE UNCHANGED vars
    BY <1>7 DEF vars
  <1> QED
    BY <1>2, <1>3, <1>4, <1>5, <1>6, <1>7 DEF Next

\* A step that leaves every entry where it is unlinks nothing.
LEMMA StillLinked ==
  ASSUME NEW f, Linked(f), dir' = dir, stage' = stage
  PROVE  Linked(f)'
  BY DEF Linked

\* A step unlinks a file only by a deletion, or by removing a staging folder.
LEMMA LinkedStep ==
  ASSUME TypeOK, Base, [Next]_vars, NEW f \in File, Linked(f)
  PROVE  \/ Linked(f)'
         \/ f \in deleted'
         \/ \E w \in Worker : Finish(w) /\ ~Kept(w) /\ stage[w] = f
  <1> DEFINE Goal == \/ Linked(f)'
                     \/ f \in deleted'
                     \/ \E w \in Worker : Finish(w) /\ ~Kept(w) /\ stage[w] = f
  <1> USE DEF fsVars, workerVars
  <1>1. ASSUME NEW w \in Worker,
               \/ Request(w) \/ OpenOriginal(w) \/ LockOriginal(w) \/ WriteStaging(w)
               \/ FinalCheck(w) \/ Compare(w) \/ Verify(w) \/ Recheck(w)
               \/ SyncParent(w) \/ Cancel(w) \/ Kill(w)
        PROVE  Goal
    <2>1. dir' = dir /\ stage' = stage
      BY <1>1 DEF Request, OpenOriginal, LockOriginal, WriteStaging, FinalCheck,
           Compare, Verify, Recheck, SyncParent, Cancel, Kill
    <2> QED
      BY <2>1, StillLinked
  <1>2. ASSUME NEW w \in Worker, Swap(w) PROVE Goal
    <2>1. task[w].name \in Name
      BY DEF TypeOK, Task
    <2> QED
      BY <1>2, <2>1 DEF Swap, Linked, TypeOK
  <1>3. ASSUME NEW w \in Worker, CreateStaging(w) PROVE Goal
    <2>1. stage[w] = NoFile
      BY <1>3 DEF CreateStaging, Goto, Base, OnlyBorn, Unborn
    <2>2. dir' = dir /\ (stage' = stage \/ stage' = [stage EXCEPT ![w] = w])
      BY <1>3 DEF CreateStaging
    <2> QED
      BY <2>1, <2>2 DEF Linked, TypeOK, File
  <1>4. ASSUME NEW w \in Worker, PublishNew(w) PROVE Goal
    <2>1. task[w].name \in Name
      BY DEF TypeOK, Task
    <2>2. CASE dir' = dir /\ stage' = stage
      BY <2>2, StillLinked
    <2>3. CASE /\ dir[task[w].name] = NoFile
               /\ dir' = [dir EXCEPT ![task[w].name] = stage[w]]
               /\ stage' = [stage EXCEPT ![w] = NoFile]
      BY <2>1, <2>3 DEF Linked, TypeOK, File
    <2> QED
      BY <1>4, <2>2, <2>3 DEF PublishNew
  <1>5. ASSUME NEW w \in Worker, Exchange(w) \/ Restore(w) PROVE Goal
    <2>1. Swap(w) \/ (dir' = dir /\ stage' = stage)
      BY <1>5 DEF Exchange, Restore
    <2> QED
      BY <2>1, <1>2, StillLinked
  <1>6. ASSUME NEW w \in Worker, Finish(w) PROVE Goal
    <2>1. CASE Kept(w)
      BY <1>6, <2>1, StillLinked DEF Finish
    <2>2. CASE ~Kept(w) /\ stage[w] # f
      BY <1>6, <2>2 DEF Finish, Linked, TypeOK
    <2> QED
      BY <1>6, <2>1, <2>2
  <1>7. ASSUME NEW n \in Name, Delete(n) PROVE Goal
    BY <1>7 DEF Delete, Linked, TypeOK
  <1>8. ASSUME NEW g \in File, Touch(g) PROVE Goal
    BY <1>8, StillLinked DEF Touch
  <1>9. CASE UNCHANGED vars
    BY <1>9, StillLinked DEF vars
  <1> QED
    BY <1>1, <1>3, <1>4, <1>5, <1>6, <1>7, <1>8, <1>9 DEF Next, Step

\* As long as a request that has rolled back has its own file back, an accounted file stays
\* accounted.
LEMMA AccountedStep ==
  ASSUME TypeOK, TypeOK', Base, [Next]_vars,
         \A w \in Worker : outcome[w] = "rolledback" => stage[w] \in {w, NoFile},
         NEW f \in File, f \in Original \/ (f \in Worker /\ Out(f)), Accounted(f)
  PROVE  Accounted(f)'
  <1>1. ASSUME NEW v \in Worker, Published(v), Expected(v)[1] = f
        PROVE  Accounted(f)'
    BY <1>1, PublishedStep DEF Accounted
  <1>2. deleted \subseteq deleted'
    BY DEF Next, Step, vars, fsVars, Request, OpenOriginal, LockOriginal,
       CreateStaging, WriteStaging, FinalCheck, PublishNew, Compare, Exchange,
       Verify, Recheck, Restore, SyncParent, Finish, Cancel, Kill, Delete, Touch
  <1>3. ASSUME NEW w \in Worker, Finish(w), ~Kept(w), stage[w] = f
        PROVE  Accounted(f)'
    <2>1. pc[w] = "cleaning" /\ outcome'[w] = outcome[w] /\ outcome[w] \in Outcome
      BY <1>3 DEF Finish, Goto, TypeOK
    <2>2. outcome[w] \notin {"none", "uncertain"}
      BY <1>3, <2>1 DEF Base, OwnStage, Kept
    <2>3. f # NoFile
      BY DEF File
    <2>4. CASE Published(w)
      <3>1. Expected(w) # NoRevision
        BY <1>3, <2>3, <2>4 DEF Base, OwnStage, Won, Published
      <3>2. stage[w] = Expected(w)[1]
        BY <2>1, <2>4, <3>1 DEF Base, Displaced, Won, Published
      <3> QED
        BY <1>1, <1>3, <2>4, <3>2
    <2>5. CASE ~Published(w)
      <3>1. f = w
        BY <1>3, <2>1, <2>2, <2>3, <2>5 DEF Base, OwnStage, Published, Kept, Outcome
      <3>2. ~Out(w)
        BY <1>3, <2>1, <2>5 DEF Out, Won, Published, Kept
      <3> QED
        BY <3>1, <3>2
    <2> QED
      BY <2>4, <2>5
  <1>4. CASE Linked(f)
    BY <1>2, <1>3, <1>4, LinkedStep DEF Accounted
  <1>5. CASE f \in deleted
    BY <1>2, <1>5 DEF Accounted
  <1> QED
    BY <1>1, <1>4, <1>5 DEF Accounted

\* A request whose file has just become public has a linked file.
LEMMA OutStep ==
  ASSUME TypeOK, Base, [Next]_vars, NEW u \in Worker, ~Out(u), Out(u)'
  PROVE  Linked(u)'
  <1> USE DEF Out, Won, Published, TypeOK, fsVars, workerVars, Goto, Return
  <1>1. ASSUME NEW w \in Worker, PublishNew(w) \/ Exchange(w) PROVE Linked(u)'
    <2>1. task[w].name \in Name
      BY DEF Task
    <2>2. u = w
      BY <1>1 DEF PublishNew, Exchange
    <2>3. stage[w] = w
      BY <1>1 DEF Base, OwnStage, PublishNew, Exchange
    <2>4. dir' = [dir EXCEPT ![task[w].name] = stage[w]]
      BY <1>1, <2>2 DEF PublishNew, Exchange, Swap
    <2> QED
      BY <2>1, <2>2, <2>3, <2>4 DEF Linked
  <1>2. ASSUME NEW w \in Worker,
               \/ Request(w) \/ OpenOriginal(w) \/ LockOriginal(w) \/ CreateStaging(w)
               \/ WriteStaging(w) \/ FinalCheck(w) \/ Compare(w) \/ Cancel(w) \/ Kill(w)
        PROVE  FALSE
    BY <1>2 DEF Request, OpenOriginal, LockOriginal, CreateStaging, WriteStaging,
         WriteFailed, FinalCheck, Compare, Cancel, Kill
  <1>3. ASSUME NEW w \in Worker,
               Verify(w) \/ Recheck(w) \/ Restore(w) \/ SyncParent(w) \/ Finish(w)
        PROVE  FALSE
    BY <1>3 DEF Verify, Recheck, Restore, SyncParent, Finish
  <1>4. ASSUME NEW n \in Name, Delete(n) PROVE FALSE
    BY <1>4 DEF Delete
  <1>5. ASSUME NEW f \in File, Touch(f) PROVE FALSE
    BY <1>5 DEF Touch
  <1>6. CASE UNCHANGED vars
    BY <1>6 DEF vars
  <1> QED
    BY <1>1, <1>2, <1>3, <1>4, <1>5, <1>6 DEF Next, Step

\* A rollback is never unsaid.
LEMMA RollbackStep ==
  ASSUME TypeOK, IInv, [Next]_vars, \A w \in Worker : outcome'[w] # "rolledback"
  PROVE  \A w \in Worker : outcome[w] # "rolledback"
  <1> SUFFICES ASSUME NEW u \in Worker, outcome[u] = "rolledback" PROVE FALSE
    OBVIOUS
  <1>1. pc[u] \in {"cleaning", "done", "killed"}
    BY DEF IInv, Base, OwnStage
  <1> USE DEF Goto, Return, fsVars, workerVars, TypeOK
  <1>2. ASSUME NEW w \in Worker, Request(w) \/ Cancel(w) \/ Kill(w) PROVE FALSE
    BY <1>1, <1>2 DEF Request, Cancel, Kill
  <1>3. ASSUME NEW w \in Worker, Step(w) PROVE FALSE
    BY <1>1, <1>3 DEF Step, OpenOriginal, LockOriginal, CreateStaging, WriteStaging,
         WriteFailed, FinalCheck, PublishNew, Compare, Exchange, Verify, Recheck,
         Restore, SyncParent, Finish
  <1>4. ASSUME NEW n \in Name, Delete(n) PROVE FALSE
    BY <1>4 DEF Delete
  <1>5. ASSUME NEW f \in File, Touch(f) PROVE FALSE
    BY <1>5 DEF Touch
  <1>6. CASE UNCHANGED vars
    BY <1>6 DEF vars
  <1> QED
    BY <1>2, <1>3, <1>4, <1>5, <1>6 DEF Next

\* Unless some request has rolled back, no file is lost.
LEMMA ConservedStep == TypeOK /\ TypeOK' /\ IInv /\ [Next]_vars => Conserved'
  <1> SUFFICES ASSUME TypeOK, TypeOK', IInv, [Next]_vars,
                      \A w \in Worker : outcome'[w] # "rolledback"
               PROVE  /\ \A f \in Original : Accounted(f)'
                      /\ \A w \in Worker : Out(w)' => Accounted(w)'
    BY DEF Conserved, Out
  <1>1. /\ \A w \in Worker : outcome[w] # "rolledback"
        /\ \A f \in Original : Accounted(f)
        /\ \A w \in Worker : Out(w) => Accounted(w)
    BY RollbackStep DEF IInv, Conserved, Out
  <1>b. Base
    BY DEF IInv
  <1>2. \A f \in Original : Accounted(f)'
    BY <1>1, <1>b, AccountedStep DEF File
  <1>3. ASSUME NEW w \in Worker, Out(w)' PROVE Accounted(w)'
    <2>1. CASE Out(w)
      BY <1>1, <1>b, <2>1, AccountedStep DEF File
    <2>2. CASE ~Out(w)
      BY <1>3, <1>b, <2>2, OutStep DEF Accounted
    <2> QED
      BY <2>1, <2>2
  <1> QED
    BY <1>2, <1>3

\* The inductive invariant holds in every reachable state.
THEOREM Invariance == Spec => []IInv
  <1>1. TypeOK /\ TypeOK' /\ IInv /\ [Next]_vars => IInv'
    BY BornStep, OnePlaceStep, CompleteStep, EmptyStep, OwnStageStep, DisplacedStep,
       OccupiedStep, RivalsStep, RetainedStep, ConservedStep DEF IInv, Base
  <1> QED
    BY IInvInit, Typing, <1>1, PTL DEF Spec

\* Of any number of requests to replace one revision, one succeeds at most.
THEOREM OneWinnerEver == Spec => []OneWinner
  <1>1. IInv => OneWinner
    BY DEF IInv, Rivals, OneWinner, Won, Published
  <1> QED
    BY <1>1, Invariance, PTL

\* A file can be lost only when some request has rolled its exchange back,
\* whatever is killed, deleted or written in place meanwhile.
THEOREM LossOnlyByRollback == Spec => []LossNeedsRollback
  <1>1. IInv => LossNeedsRollback
    BY DEF IInv, Conserved, Out, LossNeedsRollback, NothingLost, Won, Published
  <1> QED
    BY <1>1, Invariance, PTL

\* A public name never shows a partial upload.
THEOREM PublicIsComplete == Spec => []OnlyCompletePublic
  BY Invariance, PTL DEF IInv, Base

\* What a finished request leaves in a staging folder is displaced data.
THEOREM RetainedIsPrevious == Spec => []OnlyPreviousRetained
  BY Invariance, PTL DEF IInv, Base

-----------------------------------------------------------------------------
(* Two requests for a name, and any number of names and requests. *)

\* Before a request has settled on a name.
Early == {"idle", "inspecting", "resolving"}
USE DEF Early

\* v puts, or has put, its file at the name that w is to put one at.
Rival(v, w) == v # w /\ pc[v] \notin Early /\ task[v].name = task[w].name

\* Three requests share a name: what the theorems on pairs leave out.
Crowded == \E u, v, w \in Worker : pc[w] \notin Early /\ u # v /\ Rival(u, w) /\ Rival(v, w)

\* w changes no name any more, and what it displaced is what it was to replace.
Spent(w) == Won(w) \/ pc[w] = "killed" \/ (pc[w] = "verifying" /\ RightOne(w))
Beaten(w) == \E v \in Worker : Rival(v, w) /\ Spent(v)

\* The exchange of w brings back a wrong file only when a rival has been there before; its
\* rollback then finds its own file, unless that was deleted.
Duel(w) ==
  /\ pc[w] = "exchanging" => dir[task[w].name] \in {Expected(w)[1], NoFile} \/ Beaten(w)
  /\ Displacing(w) => Beaten(w)
  /\ pc[w] = "restoring" => dir[task[w].name] \in {w, NoFile}
  /\ outcome[w] = "rolledback" => stage[w] \in {w, NoFile}

\* The file of w is at the name it was asked for, or displaced from there.
Home(w) ==
  /\ \A n \in Name : dir[n] = w => task[w].name = n
  /\ \A v \in Worker \ {w} : stage[v] = w => task[v].name = task[w].name

\* Nobody but w has the file of w.
Private(w) == (\A n \in Name : dir[n] # w) /\ (\A v \in Worker \ {w} : stage[v] # w)
Fruitless(w) ==
  outcome[w] \in {"busy", "failed", "cancelled", "changed", "exists", "rolledback"}

\* A request is about to roll back a name that holds somebody else's file by now.
StaleRollback == \E w \in Worker : pc[w] = "restoring" /\ dir[task[w].name] \notin {w, NoFile}

\* A request that rolled back took its own file back.
Undone(w) == outcome[w] = "rolledback" => stage[w] \in {w, NoFile}

Found ==
  /\ \A f \in Original : Accounted(f)
  /\ \A w \in Worker : Out(w) => Accounted(w)

PairInv ==
  /\ \A w \in Worker : Home(w)
  /\ Crowded \/ ((\A w \in Worker : Duel(w)) /\ Found /\ FailureHarmless)

\* A request keeps its task, and is never idle again.
LEMMA TaskKept ==
  ASSUME TypeOK, [Next]_vars, NEW u \in Worker, pc[u] \notin Early
  PROVE  pc'[u] \notin Early /\ task'[u] = task[u]
  <1> USE DEF TypeOK, fsVars, workerVars, Goto, Return
  <1>1. ASSUME NEW w \in Worker, Request(w) \/ Cancel(w) \/ Kill(w)
        PROVE  pc'[u] \notin Early /\ task'[u] = task[u]
    BY <1>1 DEF Request, Cancel, Kill
  <1>2. ASSUME NEW w \in Worker, Step(w) PROVE pc'[u] \notin Early /\ task'[u] = task[u]
    BY <1>2 DEF Step, OpenOriginal, LockOriginal, CreateStaging, WriteStaging,
         WriteFailed, FinalCheck, PublishNew, Compare, Exchange, Verify, Recheck,
         Restore, SyncParent, Finish
  <1>3. ASSUME NEW n \in Name, Delete(n) PROVE pc'[u] \notin Early /\ task'[u] = task[u]
    BY <1>3 DEF Delete
  <1>4. ASSUME NEW f \in File, Touch(f) PROVE pc'[u] \notin Early /\ task'[u] = task[u]
    BY <1>4 DEF Touch
  <1>5. CASE UNCHANGED vars
    BY <1>5 DEF vars
  <1> QED
    BY <1>1, <1>2, <1>3, <1>4, <1>5 DEF Next

\* Three requests for one name stay three requests for it.
LEMMA CrowdStep == ASSUME TypeOK, [Next]_vars, Crowded PROVE Crowded'
  <1>1. PICK u, v, w \in Worker : pc[w] \notin Early /\ u # v /\ Rival(u, w) /\ Rival(v, w)
    BY DEF Crowded
  <1>2. \A x \in {u, v, w} : pc'[x] \notin Early /\ task'[x] = task[x]
    BY <1>1, TaskKept DEF Rival
  <1>3. Rival(u, w)' /\ Rival(v, w)'
    BY <1>1, <1>2 DEF Rival
  <1> QED
    BY <1>1, <1>2, <1>3 DEF Crowded

\* While no other program writes in place, a revision is an inode.
LEMMA Quiet ==
  ASSUME TypeOK, MaxTouches = 0
  PROVE  /\ \A f \in Entry : stamp[f] = 0
         /\ \A w \in Worker : Expected(w)[2] = 0 /\ Expected(w) = <<Expected(w)[1], 0>>
         /\ \A f \in File : ~Touch(f)
  <1>1. \A f \in Entry : stamp[f] = 0
    BY DEF TypeOK
  <1>2. \A w \in Worker : Expected(w) \in Entry \X (0 .. MaxTouches)
    BY DEF TypeOK, Task, Expected
  <1> QED
    BY <1>1, <1>2 DEF Touch, Entry

\* An exchange that brought back the expected file stays right.
LEMMA SpentStep ==
  ASSUME TypeOK, Base, [Next]_vars, MaxTouches = 0, NEW u \in Worker, Spent(u)
  PROVE  Spent(u)'
  <1>1. pc[u] \in {"verifying", "syncing", "comparing", "equating", "removing", "cleaning", "done",
                   "killed"}
    BY DEF Base, OwnStage, Spent, Won
  <1> USE DEF Spent, Won, Published, RightOne, Revision, Expected, Goto, Return, fsVars, workerVars, TypeOK
  <1>2. ASSUME NEW w \in Worker, Request(w) \/ Cancel(w) \/ Kill(w) PROVE Spent(u)'
    BY <1>1, <1>2 DEF Request, Cancel, Kill
  <1>3. ASSUME NEW w \in Worker,
               \/ OpenOriginal(w) \/ LockOriginal(w) \/ CreateStaging(w) \/ WriteStaging(w)
               \/ FinalCheck(w) \/ PublishNew(w) \/ Compare(w)
        PROVE  Spent(u)'
    BY <1>1, <1>3 DEF OpenOriginal, LockOriginal, CreateStaging, WriteStaging,
         WriteFailed, FinalCheck, PublishNew, Compare
  <1>4. ASSUME NEW w \in Worker,
               \/ Exchange(w) \/ Verify(w) \/ Recheck(w) \/ Restore(w) \/ SyncParent(w) \/ Finish(w)
        PROVE  Spent(u)'
    BY <1>1, <1>4 DEF Exchange, Verify, Recheck, Restore, SyncParent, Finish, Swap
  <1>5. ASSUME NEW n \in Name, Delete(n) PROVE Spent(u)'
    BY <1>5 DEF Delete
  <1>6. ASSUME NEW f \in File, Touch(f) PROVE Spent(u)'
    BY <1>6, Quiet
  <1>7. CASE UNCHANGED vars
    BY <1>7 DEF vars
  <1> QED
    BY <1>2, <1>3, <1>4, <1>5, <1>6, <1>7 DEF Next, Step

\* A request that another one was ahead of stays so.
LEMMA BeatenStep ==
  ASSUME TypeOK, Base, [Next]_vars, MaxTouches = 0, NEW u \in Worker, pc[u] \notin Early, Beaten(u)
  PROVE  Beaten(u)'
  <1>1. PICK v \in Worker : Rival(v, u) /\ Spent(v)
    BY DEF Beaten
  <1>2. Spent(v)'
    BY <1>1, SpentStep
  <1>3. /\ pc'[v] \notin Early /\ task'[v] = task[v]
        /\ task'[u] = task[u]
    BY <1>1, TaskKept DEF Rival
  <1>4. Rival(v, u)'
    BY <1>1, <1>3 DEF Rival
  <1> QED
    BY <1>2, <1>4 DEF Beaten

\* A swap leaves every request's file with the name it asked for.
LEMMA SwapHome ==
  ASSUME TypeOK, NEW w \in Worker, Swap(w), task' = task, \A v \in Worker : Home(v),
         NEW u \in Worker, stage[w] = w \/ Displacing(w)
  PROVE  Home(u)'
  <1> DEFINE n == task[w].name
  <1>1. n \in Name
    BY DEF TypeOK, Task
  <1>2. /\ \A m \in Name : dir'[m] = IF m = n THEN stage[w] ELSE dir[m]
        /\ \A v \in Worker : stage'[v] = IF v = w THEN dir[n] ELSE stage[v]
    BY <1>1 DEF Swap, TypeOK
  <1>3. stage[w] = u => task[u].name = n
    BY DEF Home
  <1>4. dir[n] = u => task[u].name = n
    BY <1>1 DEF Home
  <1> HIDE DEF n
  <1>5. \A m \in Name : dir'[m] = u => task[u].name = m
    BY <1>2, <1>3 DEF Home
  <1>6. ASSUME NEW v \in Worker \ {u}, stage'[v] = u PROVE task[v].name = task[u].name
    <2>1. CASE v = w
      BY <1>2, <1>4, <1>6, <2>1 DEF n
    <2>2. CASE v # w
      BY <1>2, <1>6, <2>2 DEF Home
    <2> QED
      BY <2>1, <2>2
  <1> QED
    BY <1>5, <1>6 DEF Home

\* A file that a request staged is at the name it asked for, or in the folder of a request
\* for the same name.
LEMMA HomeStep ==
  ASSUME TypeOK, Base, [Next]_vars, \A w \in Worker : Home(w)
  PROVE  \A u \in Worker : Home(u)'
  <1> SUFFICES ASSUME NEW u \in Worker PROVE Home(u)'
    OBVIOUS
  <1>t. \A w \in Worker : task[w].name \in Name
    BY DEF TypeOK, Task
  <1>n. NoFile # u
    BY PublishAssumption
  <1>0. Home(u) /\ NoFile # u /\ \A w \in Worker : task[w].name \in Name
    BY <1>t, <1>n
  <1> USE DEF fsVars, workerVars, Goto, Return, TypeOK
  <1>1. ASSUME NEW w \in Worker, Request(w) PROVE Home(u)'
    <2>1. pc[w] = "idle" /\ UNCHANGED <<dir, stage>> /\ \A v \in Worker \ {w} : task'[v] = task[v]
      BY <1>1 DEF Request
    <2>2. (\A n \in Name : dir[n] # w) /\ (\A v \in Worker : stage[v] # w) /\ stage[w] = NoFile
      BY <2>1 DEF Base, OnlyBorn, Unborn
    <2>3. CASE u = w
      BY <2>1, <2>2, <2>3 DEF Home
    <2> QED
      BY <1>0, <2>1, <2>2, <2>3 DEF Home
  <1>2. ASSUME NEW w \in Worker,
               \/ OpenOriginal(w) \/ LockOriginal(w) \/ WriteStaging(w) \/ FinalCheck(w)
               \/ Compare(w) \/ Verify(w) \/ Recheck(w) \/ SyncParent(w) \/ Cancel(w) \/ Kill(w)
        PROVE  Home(u)'
    <2>1. UNCHANGED <<dir, stage, task>>
      BY <1>2 DEF OpenOriginal, LockOriginal, WriteStaging, FinalCheck, Compare, Verify,
           Recheck, SyncParent, Cancel, Kill
    <2> QED
      BY <1>0, <2>1 DEF Home
  <1>3. ASSUME NEW w \in Worker, CreateStaging(w) PROVE Home(u)'
    BY <1>0, <1>3 DEF CreateStaging, Home
  <1>4. ASSUME NEW w \in Worker, PublishNew(w) PROVE Home(u)'
    <2>1. stage[w] = w
      BY <1>4 DEF PublishNew, Base, OwnStage
    <2> QED
      BY <1>0, <1>4, <2>1 DEF PublishNew, Home
  <1>5. ASSUME NEW w \in Worker, Exchange(w) \/ Restore(w) PROVE Home(u)'
    <2>1. task' = task /\ (Swap(w) \/ UNCHANGED <<dir, stage>>)
      BY <1>5 DEF Exchange, Restore
    <2>2. stage[w] = w \/ Displacing(w)
      BY <1>5 DEF Exchange, Restore, Base, OwnStage, Displacing
    <2> QED
      BY <1>0, <2>1, <2>2, SwapHome DEF Home
  <1>6. ASSUME NEW w \in Worker, Finish(w) PROVE Home(u)'
    BY <1>0, <1>6 DEF Finish, Home
  <1>7. ASSUME NEW n \in Name, Delete(n) PROVE Home(u)'
    BY <1>0, <1>7 DEF Delete, Home
  <1>8. ASSUME NEW f \in File, Touch(f) PROVE Home(u)'
    BY <1>0, <1>8 DEF Touch, Home
  <1>9. CASE UNCHANGED vars
    BY <1>0, <1>9 DEF vars, Home
  <1> QED
    BY <1>1, <1>2, <1>3, <1>4, <1>5, <1>6, <1>7, <1>8, <1>9 DEF Next, Step

\* Of two requests for a name, the one that is under way itself is not ahead of the other, and
\* nobody else is.
LEMMA NotBeaten ==
  ASSUME ~Crowded, NEW u \in Worker, NEW w \in Worker, pc[u] \notin Early,
         Rival(w, u), ~Spent(w)
  PROVE  ~Beaten(u)
  <1> SUFFICES ASSUME NEW v \in Worker, Rival(v, u), Spent(v) PROVE FALSE
    BY DEF Beaten
  <1>1. v # w
    OBVIOUS
  <1> QED
    BY <1>1 DEF Crowded

\* With two requests for a name, the one that comes second finds out, and undoes what it did
\* undisturbed.
LEMMA DuelStep ==
  ASSUME TypeOK, Base, [Next]_vars, MaxTouches = 0, ~Crowded, \A w \in Worker : Duel(w)
  PROVE  \A u \in Worker : Duel(u)'
  <1> SUFFICES ASSUME NEW u \in Worker PROVE Duel(u)'
    OBVIOUS
  <1>0. \A w \in Worker : Duel(w) /\ OwnStage(w) /\ task[w].name \in Name
    BY DEF TypeOK, Task, Base
  <1>q. /\ \A f \in Entry : stamp[f] = 0
        /\ \A w \in Worker : Expected(w) = <<Expected(w)[1], 0>>
        /\ \A f \in File : ~Touch(f)
    BY Quiet
  <1>b. ASSUME pc[u] \notin Early, Beaten(u) PROVE Beaten(u)'
    BY <1>b, BeatenStep
  <1>d. ASSUME NEW w \in Worker, w # u, PublishNew(w) \/ Exchange(w) \/ Restore(w),
               pc[u] \in {"exchanging", "restoring"}, task[w].name = task[u].name
        PROVE  ~Beaten(u)
    <2>1. ~Spent(w) /\ pc[w] \notin Early
      BY <1>0, <1>d DEF PublishNew, Exchange, Restore, Goto, Return, Spent, OwnStage, Won, Published
    <2> QED
      BY <1>d, <2>1, NotBeaten DEF Rival

  <1> USE DEF TypeOK, Goto, Return, fsVars, workerVars
  \* A step of another request that leaves every entry of u alone.
  <1>s. ASSUME pc'[u] = pc[u], task'[u] = task[u], outcome'[u] = outcome[u], stage'[u] = stage[u],
               stamp' = stamp, \/ dir'[task[u].name] = dir[task[u].name]
                               \/ dir'[task[u].name] = NoFile
        PROVE  Duel(u)'
    <2>1. pc[u] \in {"exchanging", "restoring"} => pc[u] \notin Early
      OBVIOUS
    <2>2. Displacing(u)' <=> Displacing(u)
      BY <1>s DEF Displacing, Revision, Expected
    <2>3. Displacing(u) => pc[u] \notin Early
      BY DEF Displacing
    <2> QED
      BY <1>0, <1>b, <1>s, <2>1, <2>2, <2>3 DEF Duel, Expected
  <1>1. ASSUME NEW w \in Worker,
               \/ Request(w) \/ OpenOriginal(w) \/ LockOriginal(w) \/ CreateStaging(w)
               \/ WriteStaging(w) \/ FinalCheck(w) \/ Cancel(w) \/ Kill(w) \/ SyncParent(w)
        PROVE  Duel(u)'
    <2>1. UNCHANGED <<dir, stamp>> /\ \A v \in Worker \ {w} : /\ pc'[v] = pc[v] /\ task'[v] = task[v]
                                                /\ outcome'[v] = outcome[v] /\ stage'[v] = stage[v]
      BY <1>1 DEF Request, OpenOriginal, LockOriginal, CreateStaging, WriteStaging, WriteFailed,
           FinalCheck, Cancel, Kill, SyncParent
    <2>2. CASE u # w
      BY <1>s, <2>1, <2>2
    <2>3. CASE u = w
      <3>1. CASE Cancel(w)
        BY <1>s, <2>1, <2>3, <3>1 DEF Cancel
      <3>2. CASE ~Cancel(w)
        <4>1. pc'[u] \notin {"exchanging", "restoring", "verifying", "rechecking"}
          BY <1>1, <2>3, <3>2 DEF Request, OpenOriginal, LockOriginal, CreateStaging, WriteStaging,
            WriteFailed, FinalCheck, Kill, SyncParent
        <4>2. outcome'[u] = "rolledback" => outcome[u] = "rolledback" /\ stage'[u] = stage[u]
          BY <1>0, <1>1, <2>3, <3>2 DEF Request, OpenOriginal, LockOriginal, CreateStaging, WriteStaging,
            WriteFailed, FinalCheck, Kill, SyncParent, OwnStage
        <4> QED
          BY <1>0, <4>1, <4>2 DEF Duel, Displacing
      <3> QED
        BY <3>1, <3>2
    <2> QED
      BY <2>2, <2>3
  <1>2. ASSUME NEW w \in Worker, Compare(w) PROVE Duel(u)'
    <2>1. CASE u # w
      BY <1>2, <1>s, <2>1 DEF Compare
    <2>2. CASE u = w
      <3>1. pc'[u] = "exchanging" => dir'[task'[u].name] = Expected(u)'[1]
        BY <1>0, <1>2, <2>2 DEF Compare, Revision, Expected
      <3>2. pc'[u] \in {"exchanging", "cleaning"} /\ outcome'[u] # "rolledback"
        BY <1>0, <1>2, <2>2 DEF Compare, OwnStage
      <3> QED
        BY <3>1, <3>2 DEF Duel, Displacing
    <2> QED
      BY <2>1, <2>2
  <1>3. ASSUME NEW w \in Worker, PublishNew(w) PROVE Duel(u)'
    <2>1. CASE u = w
      <3>1. pc'[u] \in {"syncing", "cleaning"} /\ outcome'[u] # "rolledback"
        BY <1>0, <1>3, <2>1 DEF PublishNew, OwnStage
      <3> QED
        BY <3>1 DEF Duel, Displacing
    <2>2. CASE u # w
      <3>1. /\ pc'[u] = pc[u] /\ task' = task /\ outcome'[u] = outcome[u] /\ stage'[u] = stage[u]
            /\ stamp' = stamp
        BY <1>3, <2>2 DEF PublishNew
      <3>2. CASE dir'[task[u].name] = dir[task[u].name]
        BY <1>s, <3>1, <3>2
      <3>3. CASE dir'[task[u].name] # dir[task[u].name]
        <4>1. task[w].name = task[u].name /\ pc'[w] = "syncing"
          BY <1>0, <1>3, <3>3 DEF PublishNew
        <4>2. Rival(w, u)' /\ Spent(w)'
          BY <2>2, <3>1, <4>1 DEF Rival, Spent, Won
        <4>3. Beaten(u)'
          BY <4>2 DEF Beaten
        <4>4. pc[u] # "restoring"
          BY <1>0, <1>3, <1>d, <2>2, <4>1 DEF Duel, Displacing
        <4> QED
          BY <1>0, <3>1, <4>3, <4>4 DEF Duel
      <3> QED
        BY <3>2, <3>3
    <2> QED
      BY <2>1, <2>2
  <1>4. ASSUME NEW w \in Worker, Exchange(w) PROVE Duel(u)'
    <2>0. /\ task' = task /\ stamp' = stamp
          /\ \A v \in Worker \ {w} : /\ pc'[v] = pc[v] /\ outcome'[v] = outcome[v]
                                     /\ stage'[v] = stage[v]
      BY <1>4 DEF Exchange, Swap
    <2>1. CASE u = w
      <3>1. CASE pc'[u] = "cleaning"
        <4>1. outcome'[u] # "rolledback"
          BY <1>0, <1>4, <2>1, <3>1 DEF Exchange
        <4> QED
          BY <3>1, <4>1 DEF Duel, Displacing
      <3>2. CASE pc'[u] # "cleaning"
        <4>1. /\ pc[u] = "exchanging" /\ pc'[u] = "verifying" /\ outcome'[u] = outcome[u]
              /\ stage'[u] = dir[task[u].name] /\ dir[task[u].name] # NoFile
          BY <1>4, <2>1, <3>2 DEF Exchange, Swap
        <4>2. outcome'[u] # "rolledback"
          BY <1>0, <4>1 DEF OwnStage
        <4>3. Displacing(u)' => stage'[u] # Expected(u)[1]
          <5>1. stage'[u] \in Entry
            BY <1>0, <4>1
          <5>2. Revision(stage[u])' = <<stage'[u], 0>> /\ Expected(u)' = <<Expected(u)[1], 0>>
            BY <1>q, <2>0, <5>1 DEF Revision, Expected
          <5> QED
            BY <4>1, <5>2 DEF Displacing
        <4>4. Displacing(u)' => Beaten(u)'
          BY <1>0, <1>b, <4>1, <4>3 DEF Duel
        <4> QED
          BY <4>1, <4>2, <4>4 DEF Duel
      <3> QED
        BY <3>1, <3>2
    <2>2. CASE u # w
      <3>2. CASE dir'[task[u].name] = dir[task[u].name]
        BY <1>s, <2>0, <2>2, <3>2
      <3>3. CASE dir'[task[u].name] # dir[task[u].name]
        <4>1. /\ task[w].name = task[u].name /\ pc[w] = "exchanging" /\ pc'[w] = "verifying"
              /\ stage'[w] = dir[task[w].name] /\ dir[task[w].name] # NoFile
          BY <1>0, <1>4, <3>3 DEF Exchange, Swap
        <4>2. pc[u] # "restoring"
          BY <1>0, <1>4, <1>d, <2>2, <4>1 DEF Duel, Displacing
        <4>3. ASSUME pc[u] = "exchanging" PROVE Beaten(u)'
          <5>1. Rival(u, w) /\ ~Spent(u)
            BY <1>0, <2>2, <4>1, <4>3 DEF Rival, Spent, Won, Published, OwnStage
          <5>2. ~Beaten(w)
            BY <4>1, <5>1, NotBeaten
          <5>3. stage'[w] = Expected(w)[1]
            BY <1>0, <4>1, <5>2 DEF Duel
          <5>4. stage'[w] \in Entry /\ stamp'[stage'[w]] = 0
            BY <1>0, <1>q, <2>0, <4>1
          <5>5. RightOne(w)'
            BY <1>q, <2>0, <5>3, <5>4 DEF RightOne, Revision, Expected
          <5>6. Rival(w, u)' /\ Spent(w)'
            BY <2>0, <2>2, <4>1, <5>5 DEF Rival, Spent
          <5> QED
            BY <5>6 DEF Beaten
        <4>4. Displacing(u)' => Beaten(u)'
          <5>1. Displacing(u)' => Displacing(u)
            BY <2>0, <2>2 DEF Displacing, Revision, Expected
          <5> QED
            BY <1>0, <1>b, <5>1 DEF Displacing, Duel
        <4> QED
          BY <1>0, <2>0, <2>2, <4>2, <4>3, <4>4 DEF Duel
      <3> QED
        BY <3>2, <3>3
    <2> QED
      BY <2>1, <2>2
  <1>5. ASSUME NEW w \in Worker, Verify(w) \/ Recheck(w) PROVE Duel(u)'
    <2>0. UNCHANGED <<task, stamp, dir, stage>>
      BY <1>5 DEF Verify, Recheck
    <2>1. CASE u # w
      BY <1>5, <1>s, <2>0, <2>1 DEF Verify, Recheck
    <2>2. CASE u = w
      <3>1. Displacing(u)' => Displacing(u)
        BY <1>5, <2>0, <2>2 DEF Verify, Recheck, Displacing, RightOne, Revision, Expected
      <3>2. Displacing(u)' => Beaten(u)'
        BY <1>0, <1>b, <3>1 DEF Displacing, Duel
      <3>3. pc'[u] = "restoring" => dir'[task'[u].name] = u
        BY <1>5, <2>0, <2>2 DEF Verify, Recheck, Revision, Staged
      <3>4. pc'[u] # "exchanging" /\ outcome'[u] # "rolledback"
        BY <1>0, <1>5, <2>2 DEF Verify, Recheck, OwnStage
      <3> QED
        BY <3>2, <3>3, <3>4 DEF Duel
    <2> QED
      BY <2>1, <2>2
  <1>6. ASSUME NEW w \in Worker, Restore(w) PROVE Duel(u)'
    <2>0. /\ task' = task /\ stamp' = stamp /\ pc'[w] = "cleaning" /\ pc[w] = "restoring"
          /\ \A v \in Worker \ {w} : /\ pc'[v] = pc[v] /\ outcome'[v] = outcome[v]
                                     /\ stage'[v] = stage[v]
      BY <1>6 DEF Restore, Swap
    <2>1. CASE u = w
      <3>1. outcome'[u] = "rolledback" => dir[task[u].name] # NoFile /\ stage'[u] = dir[task[u].name]
        BY <1>6, <2>1 DEF Restore, Swap
      <3>2. outcome'[u] = "rolledback" => stage'[u] = u
        BY <1>0, <2>0, <2>1, <3>1 DEF Duel
      <3> QED
        BY <2>0, <2>1, <3>2 DEF Duel, Displacing
    <2>2. CASE u # w
      <3>2. CASE dir'[task[u].name] = dir[task[u].name]
        BY <1>s, <2>0, <2>2, <3>2
      <3>3. CASE dir'[task[u].name] # dir[task[u].name]
        <4>1. task[w].name = task[u].name
          BY <1>0, <1>6, <3>3 DEF Restore, Swap
        <4>2. pc[u] # "restoring"
          BY <1>0, <1>6, <1>d, <2>2, <4>1 DEF Duel, Displacing
        <4>3. pc[u] # "exchanging"
          <5>1. ASSUME pc[u] = "exchanging" PROVE Rival(u, w) /\ ~Spent(u)
            BY <1>0, <2>2, <4>1, <5>1 DEF Rival, Spent, Won, Published, OwnStage
          <5>2. Beaten(w)
            BY <1>0, <2>0 DEF Duel, Displacing
          <5> QED
            BY <2>0, <5>1, <5>2, NotBeaten
        <4>4. Displacing(u)' => Beaten(u)'
          <5>1. Displacing(u)' => Displacing(u)
            BY <2>0, <2>2 DEF Displacing, Revision, Expected
          <5> QED
            BY <1>0, <1>b, <5>1 DEF Displacing, Duel
        <4> QED
          BY <1>0, <2>0, <2>2, <4>2, <4>3, <4>4 DEF Duel
      <3> QED
        BY <3>2, <3>3
    <2> QED
      BY <2>1, <2>2
  <1>7. ASSUME NEW w \in Worker, Finish(w) PROVE Duel(u)'
    <2>1. CASE u # w
      BY <1>7, <1>s, <2>1 DEF Finish
    <2>2. CASE u = w
      BY <1>0, <1>7, <2>2 DEF Finish, Duel, Displacing
    <2> QED
      BY <2>1, <2>2
  <1>8. ASSUME NEW n \in Name, Delete(n) PROVE Duel(u)'
    BY <1>0, <1>8, <1>s DEF Delete
  <1>9. CASE UNCHANGED vars
    BY <1>9, <1>s DEF vars
  <1> QED
    BY <1>q, <1>1, <1>2, <1>3, <1>4, <1>5, <1>6, <1>7, <1>8, <1>9 DEF Next, Step

\* While a request has not published, and after it has undone that, its file is not in
\* anybody else's hands.
LEMMA PrivateStep ==
  ASSUME TypeOK, Base, [Next]_vars, NEW u \in Worker, Private(u), ~(PublishNew(u) \/ Exchange(u))
  PROVE  Private(u)'
  <1>t. NoFile # u /\ OwnStage(u)
    BY PublishAssumption DEF Base
  <1>n. \A w \in Worker : task[w].name \in Name
    BY DEF TypeOK, Task
  <1> USE DEF TypeOK, Private, fsVars, workerVars
  <1>1. ASSUME NEW w \in Worker, w # u, PublishNew(w) \/ Exchange(w) \/ Restore(w)
        PROVE  Private(u)'
    <2>1. \/ UNCHANGED <<dir, stage>> \/ Swap(w)
          \/ /\ dir' = [dir EXCEPT ![task[w].name] = stage[w]]
             /\ stage' = [stage EXCEPT ![w] = NoFile]
      BY <1>1 DEF PublishNew, Exchange, Restore
    <2> QED
      BY <1>n, <1>t, <1>1, <2>1 DEF Swap
  <1>2. CASE Restore(u)
    <2>1. stage[u] # u
      BY <1>t, <1>2 DEF Restore, Return, Goto, OwnStage
    <2> QED
      BY <1>n, <1>t, <1>2, <2>1 DEF Restore, Swap
  <1>3. ASSUME NEW w \in Worker, CreateStaging(w) PROVE Private(u)'
    BY <1>3 DEF CreateStaging
  <1>4. ASSUME NEW w \in Worker, Finish(w) PROVE Private(u)'
    BY <1>t, <1>4 DEF Finish
  <1>5. ASSUME NEW w \in Worker,
               \/ Request(w) \/ OpenOriginal(w) \/ LockOriginal(w) \/ WriteStaging(w) \/ FinalCheck(w)
               \/ Compare(w) \/ Verify(w) \/ Recheck(w) \/ SyncParent(w) \/ Cancel(w) \/ Kill(w)
        PROVE  Private(u)'
    <2>1. UNCHANGED <<dir, stage>>
      BY <1>5 DEF Request, OpenOriginal, LockOriginal, WriteStaging, FinalCheck, Compare, Verify,
           Recheck, SyncParent, Cancel, Kill
    <2> QED
      BY <2>1
  <1>6. ASSUME NEW n \in Name, Delete(n) PROVE Private(u)'
    BY <1>t, <1>6 DEF Delete
  <1>7. ASSUME NEW f \in File, Touch(f) PROVE Private(u)'
    BY <1>7 DEF Touch
  <1>8. CASE UNCHANGED vars
    BY <1>8 DEF vars
  <1> QED
    BY <1>1, <1>2, <1>3, <1>4, <1>5, <1>6, <1>7, <1>8 DEF Next, Step

\* A file that does not exist yet, or is in its own staging folder, is nowhere else.
LEMMA OwnIsPrivate ==
  ASSUME OnlyBorn, OnePlace, NEW u \in Worker, u \in Unborn \/ stage[u] = u
  PROVE  Private(u)
  BY PublishAssumption DEF OnlyBorn, OnePlace, Private

\* A request that gives up, or undoes its exchange, has its file for itself.
LEMMA HarmlessStep ==
  ASSUME TypeOK, Base, OnlyBorn', OnePlace', [Next]_vars, FailureHarmless, ~StaleRollback
  PROVE  FailureHarmless'
  <1> SUFFICES ASSUME NEW u \in Worker, Fruitless(u)' PROVE Private(u)'
    BY DEF FailureHarmless, Fruitless, Private
  <1>0. OwnStage(u)
    BY DEF Base
  <1>1. CASE Fruitless(u)
    <2>1. Private(u)
      BY <1>1 DEF FailureHarmless, Fruitless, Private
    <2>2. ~(PublishNew(u) \/ Exchange(u))
      BY <1>0, <1>1 DEF PublishNew, Exchange, OwnStage, Fruitless, Goto, Return
    <2> QED
      BY <2>1, <2>2, PrivateStep
  <1>2. CASE ~Fruitless(u)
    <2> USE DEF Fruitless, TypeOK, Goto, Return, fsVars, workerVars
    <2>1. outcome'[u] # outcome[u]
      BY <1>2
    <2>2. ASSUME stage'[u] = u PROVE Private(u)'
      <3>1. (OnlyBorn /\ OnePlace /\ stage[u] = u => Private(u))'
        BY PublishAssumption DEF OnlyBorn, OnePlace, Private
      <3> QED
        BY <2>2, <3>1
    <2>3. ASSUME u \in Unborn, UNCHANGED <<dir, stage>> PROVE Private(u)'
      <3>1. Private(u)
        BY <2>3, OwnIsPrivate DEF Base
      <3> QED
        BY <2>3, <3>1 DEF Private
    <2>4. ASSUME OpenOriginal(u) \/ LockOriginal(u) \/ CreateStaging(u) PROVE Private(u)'
      BY <2>1, <2>3, <2>4 DEF OpenOriginal, LockOriginal, CreateStaging, Unborn
    <2>5. ASSUME WriteStaging(u) \/ FinalCheck(u) \/ Compare(u) PROVE Private(u)'
      BY <1>0, <2>1, <2>2, <2>5 DEF WriteStaging, WriteFailed, FinalCheck, Compare, OwnStage
    <2>6. ASSUME PublishNew(u) PROVE Private(u)'
      BY <1>0, <2>1, <2>2, <2>6 DEF PublishNew, OwnStage
    <2>7. ASSUME Exchange(u) PROVE Private(u)'
      BY <1>0, <2>1, <2>2, <2>7 DEF Exchange, OwnStage
    <2>8. ASSUME Restore(u) PROVE Private(u)'
      <3>1. dir[task[u].name] # NoFile /\ stage'[u] = dir[task[u].name]
        BY <1>0, <2>1, <2>8 DEF Restore, Swap
      <3>2. stage'[u] = u
        BY <1>0, <2>8, <3>1 DEF Restore, StaleRollback
      <3> QED
        BY <2>2, <3>2
    <2>9. ASSUME Recheck(u) \/ SyncParent(u) PROVE FALSE
      BY <1>0, <2>1, <2>9 DEF Recheck, SyncParent
    <2>10. ASSUME Request(u) \/ Verify(u) \/ Finish(u) \/ Cancel(u) \/ Kill(u) PROVE FALSE
      BY <2>1, <2>10 DEF Request, Verify, Finish, Cancel, Kill
    <2>11. ASSUME NEW w \in Worker, w # u, Request(w) \/ Step(w) \/ Cancel(w) \/ Kill(w) PROVE FALSE
      BY <2>1, <2>11 DEF Request, Step, OpenOriginal, LockOriginal, CreateStaging, WriteStaging,
         WriteFailed, FinalCheck, PublishNew, Compare, Exchange, Verify, Recheck, Restore,
         SyncParent, Finish, Cancel, Kill
    <2>12. ASSUME NEW n \in Name, Delete(n) PROVE FALSE
      BY <2>1, <2>12 DEF Delete
    <2>13. ASSUME NEW f \in File, Touch(f) PROVE FALSE
      BY <2>1, <2>13 DEF Touch
    <2>14. CASE UNCHANGED vars
      BY <2>1, <2>14 DEF vars
    <2> QED
      BY <2>4, <2>5, <2>6, <2>7, <2>8, <2>9, <2>10, <2>11, <2>12, <2>13, <2>14 DEF Next, Step
  <1> QED
    BY <1>1, <1>2

\* No step loses a file of which another one was not ahead.
LEMMA FoundStep ==
  ASSUME TypeOK, TypeOK', Base, [Next]_vars, Found, \A w \in Worker : Undone(w)
  PROVE  Found'
  <1>0. \A w \in Worker : outcome[w] = "rolledback" => stage[w] \in {w, NoFile}
    BY DEF Undone
  <1>1. \A f \in Original : Accounted(f)'
    BY <1>0, AccountedStep DEF File, Found
  <1>2. ASSUME NEW w \in Worker, Out(w)' PROVE Accounted(w)'
    <2>1. CASE Out(w)
      BY <1>0, <2>1, AccountedStep DEF File, Found
    <2>2. CASE ~Out(w)
      BY <1>2, <2>2, OutStep DEF Accounted
    <2> QED
      BY <2>1, <2>2
  <1> QED
    BY <1>1, <1>2 DEF Found, Out

\* A rollback of a name that still holds the request's own file takes that back.
LEMMA UndoneStep ==
  ASSUME TypeOK, Base, [Next]_vars, ~StaleRollback, \A w \in Worker : Undone(w)
  PROVE  \A u \in Worker : Undone(u)'
  <1> SUFFICES ASSUME NEW u \in Worker, outcome'[u] = "rolledback" PROVE stage'[u] \in {u, NoFile}
    BY DEF Undone
  <1>0. Undone(u) /\ OwnStage(u)
    BY DEF Base
  <1> USE DEF TypeOK, Goto, Return, fsVars, workerVars, Undone
  <1>1. CASE Restore(u)
    <2>1. pc[u] = "restoring" /\ dir[task[u].name] # NoFile /\ stage'[u] = dir[task[u].name]
      BY <1>0, <1>1 DEF Restore, Swap, OwnStage
    <2> QED
      BY <2>1 DEF StaleRollback
  <1>2. ASSUME NEW w \in Worker, Request(w) \/ Cancel(w) \/ Kill(w) \/ (Step(w) /\ w # u)
        PROVE  stage'[u] \in {u, NoFile}
    BY <1>0, <1>2 DEF Request, Cancel, Kill, Step, OpenOriginal, LockOriginal, CreateStaging,
       WriteStaging, WriteFailed, FinalCheck, PublishNew, Compare, Exchange, Verify, Recheck, Restore,
       SyncParent, Finish, Swap
  <1>3. ASSUME Step(u), ~Restore(u) PROVE stage'[u] \in {u, NoFile}
    BY <1>0, <1>3 DEF Step, OpenOriginal, LockOriginal, CreateStaging, WriteStaging, WriteFailed,
       FinalCheck, PublishNew, Compare, Exchange, Verify, Recheck, SyncParent, Finish, OwnStage
  <1>4. ASSUME NEW n \in Name, Delete(n) PROVE stage'[u] \in {u, NoFile}
    BY <1>0, <1>4 DEF Delete
  <1>5. ASSUME NEW f \in File, Touch(f) PROVE stage'[u] \in {u, NoFile}
    BY <1>0, <1>5 DEF Touch
  <1>6. CASE UNCHANGED vars
    BY <1>0, <1>6 DEF vars
  <1> QED
    BY <1>1, <1>2, <1>3, <1>4, <1>5, <1>6 DEF Next

\* With any number of requests, crashes, deletions and programs that write in place, nothing is
\* lost and no failure leaves anything behind, as long as no rollback is made at a name that
\* has got another file since its recheck (publish, transfer.go:285-286, exchanges back
\* without looking at what comes back).
THEOREM OnlyStaleRollbacksHarm == Spec /\ []~StaleRollback => [](NothingLost /\ FailureHarmless)
  <1> DEFINE Clean == Found /\ FailureHarmless /\ \A w \in Worker : Undone(w)
  <1>1. Init => Clean
    <2> SUFFICES ASSUME Init PROVE Clean
      OBVIOUS
    <2>1. \A w \in Worker : pc[w] = "idle" /\ outcome[w] = "none"
      BY DEF Init
    <2>2. \A f \in Original : Accounted(f)
      BY DEF Init, Accounted, Linked
    <2>3. \A w \in Worker : Undone(w) /\ ~Out(w)
      BY <2>1 DEF Undone, Out, Won
    <2> QED
      BY <2>1, <2>2, <2>3 DEF Found, FailureHarmless
  <1>2. TypeOK /\ TypeOK' /\ IInv /\ IInv' /\ Clean /\ ~StaleRollback /\ [Next]_vars => Clean'
    <2> SUFFICES ASSUME TypeOK, TypeOK', IInv, IInv', Clean, ~StaleRollback, [Next]_vars PROVE Clean'
      OBVIOUS
    <2>1. Base /\ OnlyBorn' /\ OnePlace'
      BY DEF IInv, Base
    <2> QED
      BY <2>1, UndoneStep, FoundStep, HarmlessStep
  <1>3. Clean => NothingLost /\ FailureHarmless
    BY DEF Found, NothingLost, Out, Won, Published
  <1> QED
    BY <1>1, <1>2, <1>3, Typing, Invariance, PTL DEF Spec

\* The invariant of two requests for a name.
LEMMA PairInvariance == ASSUME MaxTouches = 0 PROVE Spec => []PairInv
  <1>1. Init => PairInv
    <2> SUFFICES ASSUME Init PROVE PairInv
      OBVIOUS
    <2>1. \A w \in Worker : pc[w] = "idle" /\ outcome[w] = "none" /\ stage[w] = NoFile
      BY DEF Init
    <2>2. \A w \in Worker, n \in Name : dir[n] # w
      BY PublishAssumption DEF Init
    <2>3. \A f \in Original : Accounted(f)
      BY DEF Init, Accounted, Linked
    <2>4. \A w \in Worker : Home(w) /\ Duel(w) /\ ~Out(w)
      BY PublishAssumption, <2>1, <2>2 DEF Home, Duel, Out, Won, Published, Displacing
    <2> QED
      BY <2>1, <2>3, <2>4 DEF PairInv, Found, FailureHarmless
  <1>2. TypeOK /\ TypeOK' /\ IInv /\ IInv' /\ PairInv /\ [Next]_vars => PairInv'
    <2> SUFFICES ASSUME TypeOK, TypeOK', IInv, IInv', PairInv, [Next]_vars, ~Crowded'
                 PROVE  /\ \A w \in Worker : Home(w)' /\ Duel(w)'
                        /\ Found' /\ FailureHarmless'
      BY HomeStep DEF PairInv, IInv
    <2>1. ~Crowded
      BY CrowdStep
    <2>2. (\A w \in Worker : Home(w) /\ Duel(w)) /\ Found /\ FailureHarmless
      BY <2>1 DEF PairInv
    <2>3. Base /\ OnlyBorn' /\ OnePlace'
      BY DEF IInv, Base
    <2>4. ~StaleRollback /\ \A w \in Worker : Undone(w)
      BY <2>2 DEF Duel, StaleRollback, Undone
    <2> QED
      BY <2>1, <2>2, <2>3, <2>4, HomeStep, DuelStep, FoundStep, HarmlessStep
  <1> QED
    BY <1>1, <1>2, Typing, Invariance, PTL DEF Spec

\* While no name has more than two requests and no other program writes in place, no file that
\* was there or was reported as uploaded is lost, whatever is killed, cancelled or deleted:
\* the rollback of the one that comes second meets nobody (publish, transfer.go:266-292).
THEOREM PairLosesNothing == ASSUME MaxTouches = 0 PROVE Spec => [](Crowded \/ NothingLost)
  <1>1. PairInv => Crowded \/ NothingLost
    BY DEF PairInv, Found, NothingLost, Out, Won, Published
  <1> QED
    BY <1>1, PairInvariance, PTL

\* Under the same conditions a request that reports a failure, a cancellation or a rollback
\* has left nothing of its own at a public name or in another request's staging folder.
THEOREM PairFailsHarmlessly == ASSUME MaxTouches = 0 PROVE Spec => [](Crowded \/ FailureHarmless)
  <1>1. PairInv => Crowded \/ FailureHarmless
    BY DEF PairInv
  <1> QED
    BY <1>1, PairInvariance, PTL

\* The file a reader will find is the file at the name, unless that was put there in error.
LEMMA SettledIs ==
  ASSUME NEW n \in Name
  PROVE  /\ \A w \in Worker : Displacing(w) /\ dir[n] = w => Settled(n) = stage[w]
         /\ (\A w \in Worker : dir[n] = w => ~Displacing(w)) => Settled(n) = dir[n]
  <1>1. ASSUME NEW w \in Worker, Displacing(w), dir[n] = w PROVE Settled(n) = stage[w]
    <2>1. (CHOOSE v \in Worker : Displacing(v) /\ dir[n] = v) = w
      BY <1>1
    <2> QED
      BY <1>1, <2>1 DEF Settled
  <1>2. (\A w \in Worker : dir[n] = w => ~Displacing(w)) => Settled(n) = dir[n]
    BY DEF Settled
  <1> QED
    BY <1>1, <1>2

\* The same after a step.
LEMMA SettledNext ==
  ASSUME NEW n \in Name
  PROVE  /\ \A w \in Worker : Displacing(w)' /\ dir'[n] = w => Settled(n)' = stage'[w]
         /\ (\A w \in Worker : dir'[n] = w => ~Displacing(w)') => Settled(n)' = dir'[n]
  <1>1. ASSUME NEW w \in Worker, Displacing(w)', dir'[n] = w PROVE Settled(n)' = stage'[w]
    <2>1. (CHOOSE v \in Worker : Displacing(v)' /\ dir'[n] = v) = w
      BY <1>1
    <2> QED
      BY <1>1, <2>1 DEF Settled
  <1>2. (\A w \in Worker : dir'[n] = w => ~Displacing(w)') => Settled(n)' = dir'[n]
    BY DEF Settled
  <1> QED
    BY <1>1, <1>2

\* A name keeps its settled file while its entry and what displaced it stay.
LEMMA SettledSame ==
  ASSUME NEW n \in Name, dir'[n] = dir[n],
         \A v \in Worker : dir[n] = v => /\ Displacing(v)' <=> Displacing(v)
                                         /\ Displacing(v) => stage'[v] = stage[v]
  PROVE  Settled(n)' = Settled(n)
  <1>1. CASE \E v \in Worker : dir[n] = v /\ Displacing(v)
    BY <1>1, SettledIs, SettledNext
  <1>2. CASE ~ \E v \in Worker : dir[n] = v /\ Displacing(v)
    BY <1>2, SettledIs, SettledNext
  <1> QED
    BY <1>1, <1>2

\* Nothing is said about a request that takes no step.
LEMMA OtherSame ==
  ASSUME NEW v \in Worker, pc'[v] = pc[v], task'[v] = task[v], outcome'[v] = outcome[v],
         stage'[v] = stage[v], stamp' = stamp
  PROVE  /\ Asked(v)' = Asked(v) /\ Verdict(v)' = Verdict(v)
         /\ Displacing(v)' <=> Displacing(v)
  <1>1. Displacing(v)' <=> Displacing(v)
    BY DEF Displacing, Revision, Expected
  <1>2. Asked(v)' = Asked(v)
    BY DEF Asked, Expected
  <1>3. Published(v)' <=> Published(v)
    BY DEF Published
  <1> QED
    BY <1>1, <1>2, <1>3 DEF Verdict

\* The registers start with the files of the names, and nobody has asked for anything.
LEMMA RegisterInit == Init => Register!Init
  <1> SUFFICES ASSUME Init PROVE Register!Init
    OBVIOUS
  <1>1. \A w \in Worker : pc[w] = "idle" /\ ~Displacing(w)
    BY DEF Init, Displacing
  <1>2. \A n \in Name : Settled(n) = dir[n]
    BY <1>1, SettledIs
  <1>3. \A w \in Worker : Asked(w) = Register!NotAsked /\ Verdict(w) = "open"
    BY <1>1 DEF Asked, Verdict, Register!NotAsked, Displacing
  <1> QED
    BY <1>2, <1>3 DEF Init, Register!Init

\* What the registers may do when one request moves, and only its verdict or one register changes.
LEMMA RegisterMoves ==
  ASSUME NEW w \in Worker, \A v \in Worker : Asked(v)' = Asked(v),
         \A v \in Worker \ {w} : Verdict(v)' = Verdict(v)
  PROVE  /\ /\ \A n \in Name : Settled(n)' = Settled(n)
            /\ Verdict(w)' = Verdict(w)
            => UNCHANGED Register!avars
         /\ /\ \A n \in Name : Settled(n)' = Settled(n)
            /\ Asked(w) # Register!NotAsked /\ Verdict(w) = "open" /\ Verdict(w)' = "lost"
            => Register!Lose(w)
         /\ /\ Asked(w) # Register!NotAsked /\ Verdict(w) = "open" /\ Verdict(w)' = "won"
            /\ Asked(w).name \in Name
            /\ \A n \in Name \ {Asked(w).name} : Settled(n)' = Settled(n)
            /\ Settled(Asked(w).name) = Asked(w).expects
            /\ Settled(Asked(w).name)' = w
            => Register!Win(w)
  <1> DEFINE cur == [n \in Name |-> Settled(n)]
             ask == [v \in Worker |-> Asked(v)]
             ver == [v \in Worker |-> Verdict(v)]
  <1>1. ask' = ask
    OBVIOUS
  <1>2. (\A n \in Name : Settled(n)' = Settled(n)) => cur' = cur
    OBVIOUS
  <1>3. ver' = [ver EXCEPT ![w] = Verdict(w)']
    OBVIOUS
  <1>4. Verdict(w)' = Verdict(w) => ver' = ver
    OBVIOUS
  <1>5. ask[w] = Asked(w) /\ ver[w] = Verdict(w)
    OBVIOUS
  <1>6. ASSUME Asked(w).name \in Name, \A n \in Name \ {Asked(w).name} : Settled(n)' = Settled(n),
               Settled(Asked(w).name)' = w
        PROVE  /\ cur' = [cur EXCEPT ![Asked(w).name] = w]
               /\ cur[Asked(w).name] = Settled(Asked(w).name)
    BY <1>6
  <1> HIDE DEF cur, ask, ver
  <1> QED
    BY <1>1, <1>2, <1>3, <1>4, <1>5, <1>6 DEF Register!avars, Register!Lose, Register!Win, cur, ask, ver

\* A request under way was asked something, and its task is what it was asked.
LEMMA AskedTask ==
  ASSUME NoFile \notin Name, TypeOK, NEW w \in Worker, pc[w] # "idle"
  PROVE  /\ Asked(w).name = task[w].name /\ Asked(w).name \in Name
         /\ Asked(w).expects = Expected(w)[1]
         /\ Asked(w) # Register!NotAsked
  <1>1. task[w].name \in Name
    BY DEF TypeOK, Task
  <1> QED
    BY <1>1 DEF Asked, Register!NotAsked

\* The step of a request that has nothing of its own at a name, and puts nothing there.
LEMMA RegisterQuiet ==
  ASSUME NoFile \notin Name, TypeOK, NEW w \in Worker, pc[w] # "idle", pc'[w] # "idle",
         dir' = dir, stamp' = stamp, task' = task,
         \A v \in Worker \ {w} : pc'[v] = pc[v] /\ outcome'[v] = outcome[v] /\ stage'[v] = stage[v],
         \/ ~Displacing(w) /\ ~Displacing(w)'
         \/ \A n \in Name : dir[n] # w
         \/ stage'[w] = stage[w] /\ (Displacing(w)' <=> Displacing(w)),
         \/ Verdict(w)' = Verdict(w)
         \/ Verdict(w) = "open" /\ Verdict(w)' = "lost"
  PROVE  Register!Next \/ UNCHANGED Register!avars
  <1>1. \A v \in Worker \ {w} : /\ Asked(v)' = Asked(v) /\ Verdict(v)' = Verdict(v)
                                /\ Displacing(v)' <=> Displacing(v)
    BY OtherSame
  <1>2. Asked(w)' = Asked(w)
    BY DEF Asked, Expected
  <1>3. \A n \in Name : Settled(n)' = Settled(n)
    BY <1>1, SettledSame
  <1>4. UNCHANGED Register!avars \/ Register!Lose(w)
    BY <1>1, <1>2, <1>3, AskedTask, RegisterMoves
  <1> QED
    BY <1>4 DEF Register!Next

\* A request puts its file in place of the one it was to replace, or of none.
LEMMA RegisterWins ==
  ASSUME NoFile \notin Name, TypeOK, TypeOK', NEW w \in Worker, pc[w] # "idle", pc'[w] # "idle",
         stamp' = stamp, task' = task,
         \A v \in Worker \ {w} : pc'[v] = pc[v] /\ outcome'[v] = outcome[v] /\ stage'[v] = stage[v],
         dir' = [dir EXCEPT ![task[w].name] = w],
         ~Displacing(w), ~Displacing(w)',
         Verdict(w) = "open", Verdict(w)' = "won",
         dir[task[w].name] = Expected(w)[1],
         \A v \in Worker : dir[task[w].name] = v => ~Displacing(v)
  PROVE  Register!Next
  <1> DEFINE n == task[w].name
  <1>0. n \in Name /\ dir'[n] = w /\ \A m \in Name \ {n} : dir'[m] = dir[m]
    BY DEF TypeOK, Task
  <1>1. \A v \in Worker \ {w} : /\ Asked(v)' = Asked(v) /\ Verdict(v)' = Verdict(v)
                                /\ Displacing(v)' <=> Displacing(v)
    BY OtherSame
  <1>2. Asked(w)' = Asked(w)
    BY DEF Asked, Expected
  <1>3. \A m \in Name \ {n} : Settled(m)' = Settled(m)
    BY <1>0, <1>1, SettledSame
  <1>4. Settled(n) = Expected(w)[1]
    BY <1>0, SettledIs
  <1>5. Settled(n)' = w
    BY <1>0, SettledNext
  <1>6. Register!Win(w)
    BY <1>0, <1>1, <1>2, <1>3, <1>4, <1>5, AskedTask, RegisterMoves
  <1> QED
    BY <1>6 DEF Register!Next

\* An exchange that displaced the wrong file, or its rollback: who reads the name finds what
\* it found before.
LEMMA RegisterErrs ==
  ASSUME NoFile \notin Name, TypeOK, NEW w \in Worker, pc[w] # "idle", pc'[w] # "idle",
         stamp' = stamp, task' = task, Swap(w),
         \A v \in Worker \ {w} : pc'[v] = pc[v] /\ outcome'[v] = outcome[v],
         \A n \in Name : dir[n] = w => n = task[w].name,
         \/ stage[w] = w /\ Displacing(w)' /\ ~Displacing(w)
            /\ (\A v \in Worker : dir[task[w].name] = v => ~Displacing(v))
         \/ dir[task[w].name] = w /\ Displacing(w) /\ ~Displacing(w)'
            /\ (\A v \in Worker : stage[w] = v => ~Displacing(v)),
         \/ Verdict(w)' = Verdict(w)
         \/ Verdict(w) = "open" /\ Verdict(w)' = "lost"
  PROVE  Register!Next \/ UNCHANGED Register!avars
  <1> DEFINE n == task[w].name
  <1>0. n \in Name /\ dir'[n] = stage[w] /\ \A m \in Name \ {n} : dir'[m] = dir[m]
    BY DEF TypeOK, Task, Swap
  <1>s. stage'[w] = dir[n] /\ \A v \in Worker \ {w} : stage'[v] = stage[v]
    BY DEF TypeOK, Swap
  <1>1. \A v \in Worker \ {w} : /\ Asked(v)' = Asked(v) /\ Verdict(v)' = Verdict(v)
                                /\ Displacing(v)' <=> Displacing(v)
    BY <1>s, OtherSame
  <1>2. Asked(w)' = Asked(w)
    BY DEF Asked, Expected
  <1>3. \A m \in Name \ {n} : Settled(m)' = Settled(m)
    BY <1>0, <1>s, <1>1, SettledSame
  <1>4. Settled(n)' = Settled(n)
    <2>1. CASE stage[w] = w /\ Displacing(w)' /\ ~Displacing(w)
               /\ (\A v \in Worker : dir[n] = v => ~Displacing(v))
      BY <1>0, <1>s, <2>1, SettledIs, SettledNext
    <2>2. CASE dir[n] = w /\ Displacing(w) /\ ~Displacing(w)'
               /\ (\A v \in Worker : stage[w] = v => ~Displacing(v))
      <3>1. Settled(n) = stage[w]
        BY <1>0, <2>2, SettledIs
      <3>2. \A v \in Worker : dir'[n] = v => ~Displacing(v)'
        BY <1>0, <1>1, <2>2
      <3> QED
        BY <1>0, <3>1, <3>2, SettledNext
    <2> QED
      BY <2>1, <2>2
  <1>5. UNCHANGED Register!avars \/ Register!Lose(w)
    BY <1>1, <1>2, <1>3, <1>4, AskedTask, RegisterMoves
  <1> QED
    BY <1>5 DEF Register!Next

\* What a name shows is the file of a request under way only while its request is in error.
LEMMA NobodyErrs ==
  ASSUME TypeOK, Base, ~Crowded, \A v \in Worker : Duel(v) /\ Home(v), NEW w \in Worker,
         pc[w] \in {"publishing", "exchanging", "rechecking", "restoring"} \/ Displacing(w)
  PROVE  \A v \in Worker \ {w} : task[v].name = task[w].name => ~Displacing(v)
  <1> SUFFICES ASSUME NEW v \in Worker, v # w, task[v].name = task[w].name, Displacing(v) PROVE FALSE
    OBVIOUS
  <1>1. pc[v] \notin Early /\ pc[w] \notin Early /\ Beaten(v)
    BY DEF Displacing, Duel
  <1>2. ~Spent(w)
    BY DEF Base, OwnStage, Spent, Won, Published, Displacing, RightOne
  <1> QED
    BY <1>1, <1>2, NotBeaten DEF Rival

\* Every step of two requests for a name is a step of the registers, or changes none of them.
LEMMA RegisterStep ==
  ASSUME NoFile \notin Name, MaxTouches = 0, ~Crashes,
         TypeOK, TypeOK', Base, PairInv, ~Crowded, [Next]_vars
  PROVE  [Register!Next]_Register!avars
  <1> SUFFICES Register!Next \/ UNCHANGED Register!avars
    OBVIOUS
  <1>0. \A w \in Worker : Duel(w) /\ Home(w) /\ OwnStage(w) /\ task[w].name \in Name
    BY DEF TypeOK, Task, Base, PairInv
  <1>q. /\ \A f \in Entry : stamp[f] = 0
        /\ \A w \in Worker : Expected(w) = <<Expected(w)[1], 0>>
        /\ \A f \in File : ~Touch(f)
    BY Quiet
  <1>n. ASSUME NEW w \in Worker, NEW v \in Worker, NEW n \in Name, dir[n] = v, n = task[w].name,
               pc[w] \in {"publishing", "exchanging"}
        PROVE  ~Displacing(v)
    BY <1>0, <1>n, NobodyErrs DEF Home, Displacing
  <1> USE DEF TypeOK, Goto, Return, fsVars, workerVars
  <1>1. ASSUME NEW w \in Worker, Request(w) PROVE Register!Next
    <2>1. PICK k \in {"upload", "edit"}, n \in Name : \E e \in {NoRevision, Revision(dir[n])} :
            /\ task' = [task EXCEPT ![w] = [kind |-> k, name |-> n, expected |-> e]]
            /\ Goto(w, "idle", IF k = "edit" THEN "opening" ELSE "staging")
      BY <1>1 DEF Request
    <2>2. PICK e \in {NoRevision, Revision(dir[n])} :
            task' = [task EXCEPT ![w] = [kind |-> k, name |-> n, expected |-> e]]
      BY <2>1
    <2>3. UNCHANGED <<dir, stage, stamp, outcome>> /\ pc[w] = "idle" /\ pc'[w] \in {"opening", "staging"}
          /\ \A v \in Worker \ {w} : pc'[v] = pc[v] /\ task'[v] = task[v]
      BY <1>1 DEF Request
    <2>4. \A v \in Worker \ {w} : /\ Asked(v)' = Asked(v) /\ Verdict(v)' = Verdict(v)
                                  /\ Displacing(v)' <=> Displacing(v)
      BY <2>3, OtherSame
    <2>5. ~Displacing(w) /\ ~Displacing(w)' /\ Verdict(w) = "open" /\ Verdict(w)' = "open"
      BY <2>3 DEF Displacing, Verdict
    <2>6. \A m \in Name : Settled(m)' = Settled(m)
      BY <2>3, <2>4, <2>5, SettledSame
    <2>7. Asked(w) = Register!NotAsked /\ Asked(w)' = [name |-> n, expects |-> e[1]]
      BY <2>2, <2>3 DEF Asked, Register!NotAsked, Expected
    <2>8. e[1] \in Entry
      BY DEF NoRevision, Revision, Entry
    <2>9. Register!Ask(w)
      <3>1. [v \in Worker |-> Asked(v)'] = [[v \in Worker |-> Asked(v)] EXCEPT ![w] = Asked(w)']
        BY <2>4
      <3>2. [v \in Worker |-> Verdict(v)'] = [v \in Worker |-> Verdict(v)]
        BY <2>4, <2>5
      <3>3. [m \in Name |-> Settled(m)'] = [m \in Name |-> Settled(m)]
        BY <2>6
      <3>4. e[1] \in Register!Entry
        BY <2>8 DEF Register!Entry, Register!File, Entry, File
      <3>6. [v \in Worker |-> Asked(v)'] = [[v \in Worker |-> Asked(v)] EXCEPT ![w] = [name |-> n, expects |-> e[1]]]
        BY <2>7, <3>1
      <3>5. [v \in Worker |-> Asked(v)][w] = Register!NotAsked
        BY <2>7
      <3> QED
        BY <3>2, <3>3, <3>4, <3>5, <3>6 DEF Register!Ask
    <2> QED
      BY <2>9 DEF Register!Next
  <1>2. ASSUME NEW w \in Worker,
               \/ OpenOriginal(w) \/ LockOriginal(w) \/ CreateStaging(w) \/ WriteStaging(w)
               \/ FinalCheck(w) \/ Compare(w) \/ Cancel(w)
        PROVE  Register!Next \/ UNCHANGED Register!avars
    <2>1. /\ UNCHANGED <<dir, stamp, task>>
          /\ \A v \in Worker \ {w} : pc'[v] = pc[v] /\ outcome'[v] = outcome[v] /\ stage'[v] = stage[v]
      BY <1>2 DEF OpenOriginal, LockOriginal, CreateStaging, WriteStaging, WriteFailed, FinalCheck,
         Compare, Cancel
    <2>2. CASE Cancel(w)
      <3>1. UNCHANGED <<pc, stage, outcome>> /\ pc[w] # "idle"
        BY <2>2 DEF Cancel
      <3> QED
        BY <2>1, <3>1, OtherSame, RegisterQuiet
    <2>3. CASE ~Cancel(w)
      <3>1. /\ pc[w] \in {"opening", "locking", "staging", "writing", "checking", "publishing"}
            /\ outcome[w] = "none"
        BY <1>0, <1>2, <2>3 DEF OpenOriginal, LockOriginal, CreateStaging, WriteStaging, WriteFailed,
           FinalCheck, Compare, OwnStage
      <3>2. \/ /\ pc'[w] \in {"locking", "staging", "writing", "checking", "publishing", "exchanging"}
            \/ /\ pc'[w] \in {"cleaning", "done"}
               /\ outcome'[w] \in {"failed", "busy", "changed", "cancelled"}
        BY <1>2, <2>3 DEF OpenOriginal, LockOriginal, CreateStaging, WriteStaging, WriteFailed,
           FinalCheck, Compare
      <3>3. ~Displacing(w) /\ ~Displacing(w)' /\ Verdict(w) = "open" /\ Verdict(w)' \in {"open", "lost"}
        BY <3>1, <3>2 DEF Displacing, Verdict, Published
      <3> QED
        BY <2>1, <3>1, <3>2, <3>3, RegisterQuiet
    <2> QED
      BY <2>2, <2>3
  <1>3. ASSUME NEW w \in Worker, PublishNew(w) PROVE Register!Next \/ UNCHANGED Register!avars
    <2>1. /\ UNCHANGED <<stamp, task>> /\ pc[w] = "publishing" /\ stage[w] = w /\ outcome[w] = "none"
          /\ \A v \in Worker \ {w} : pc'[v] = pc[v] /\ outcome'[v] = outcome[v] /\ stage'[v] = stage[v]
      BY <1>0, <1>3 DEF PublishNew, OwnStage
    <2>2. CASE pc'[w] = "cleaning"
      <3>1. dir' = dir /\ outcome'[w] = "exists"
        BY <1>3, <2>2 DEF PublishNew
      <3>2. ~Displacing(w) /\ ~Displacing(w)' /\ Verdict(w) = "open" /\ Verdict(w)' = "lost"
        BY <2>1, <2>2, <3>1 DEF Displacing, Verdict, Published
      <3> QED
        BY <2>1, <2>2, <3>1, <3>2, RegisterQuiet
    <2>3. CASE pc'[w] # "cleaning"
      <3>1. /\ pc'[w] = "syncing" /\ dir[task[w].name] = NoFile /\ Expected(w) = NoRevision
            /\ dir' = [dir EXCEPT ![task[w].name] = w]
        BY <1>3, <2>1, <2>3 DEF PublishNew
      <3>2. ~Displacing(w) /\ ~Displacing(w)' /\ Verdict(w) = "open" /\ Verdict(w)' = "won"
        BY <2>1, <3>1 DEF Displacing, Verdict
      <3>3. Expected(w)[1] = NoFile
        BY <3>1 DEF NoRevision
      <3>4. \A v \in Worker : v # NoFile
        BY PublishAssumption
      <3> QED
        BY <2>1, <3>1, <3>2, <3>3, <3>4, RegisterWins
    <2> QED
      BY <2>2, <2>3
  <1>4. ASSUME NEW w \in Worker, Exchange(w) PROVE Register!Next \/ UNCHANGED Register!avars
    <2>1. /\ UNCHANGED <<stamp, task>> /\ pc[w] = "exchanging" /\ stage[w] = w /\ outcome[w] = "none"
          /\ \A v \in Worker \ {w} : pc'[v] = pc[v] /\ outcome'[v] = outcome[v] /\ stage'[v] = stage[v]
      BY <1>0, <1>4 DEF Exchange, OwnStage, Swap
    <2>d. ~Displacing(w) /\ Verdict(w) = "open"
      BY <2>1 DEF Displacing, Verdict
    <2>2. CASE pc'[w] = "cleaning"
      <3>1. dir' = dir /\ outcome'[w] = "failed"
        BY <1>4, <2>2 DEF Exchange
      <3>2. ~Displacing(w)' /\ Verdict(w)' = "lost"
        BY <2>2, <3>1 DEF Displacing, Verdict, Published
      <3> QED
        BY <2>1, <2>2, <2>d, <3>1, <3>2, RegisterQuiet
    <2>3. CASE pc'[w] # "cleaning"
      <3>1. /\ pc'[w] = "verifying" /\ dir[task[w].name] # NoFile /\ Swap(w)
            /\ dir' = [dir EXCEPT ![task[w].name] = w] /\ stage'[w] = dir[task[w].name]
        BY <1>4, <2>1, <2>3 DEF Exchange, Swap
      <3>2. \A v \in Worker : dir[task[w].name] = v => ~Displacing(v)
        BY <1>0, <1>n, <2>1
      <3>3. Revision(stage[w])' = <<dir[task[w].name], 0>> /\ Expected(w)' = <<Expected(w)[1], 0>>
        <4>1. dir[task[w].name] \in Entry
          BY <1>0
        <4> QED
          BY <1>q, <2>1, <3>1, <4>1 DEF Revision, Expected
      <3>4. CASE dir[task[w].name] = Expected(w)[1]
        <4>1. ~Displacing(w)' /\ Verdict(w)' = "won"
          BY <3>1, <3>3, <3>4 DEF Displacing, Verdict
        <4> QED
          BY <2>1, <2>d, <3>1, <3>2, <3>4, <4>1, RegisterWins
      <3>5. CASE dir[task[w].name] # Expected(w)[1]
        <4>1. Displacing(w)' /\ Verdict(w)' = "open"
          BY <3>1, <3>3, <3>5 DEF Displacing, Verdict
        <4>2. \A n \in Name : dir[n] = w => n = task[w].name
          BY <1>0 DEF Home
        <4> QED
          BY <2>1, <2>d, <3>1, <3>2, <4>1, <4>2, RegisterErrs
      <3> QED
        BY <3>4, <3>5
    <2> QED
      BY <2>2, <2>3
  <1>5. ASSUME NEW w \in Worker, Verify(w) PROVE Register!Next \/ UNCHANGED Register!avars
    <2>1. /\ UNCHANGED <<dir, stamp, task, stage, outcome>> /\ pc[w] = "verifying"
          /\ pc'[w] = IF RightOne(w) THEN "syncing" ELSE "rechecking"
          /\ \A v \in Worker \ {w} : pc'[v] = pc[v]
      BY <1>5 DEF Verify
    <2>2. Displacing(w) <=> ~RightOne(w)
      BY <2>1 DEF Displacing, RightOne
    <2>3. Displacing(w)' <=> ~RightOne(w)
      BY <2>1 DEF Displacing
    <2>4. Verdict(w)' = Verdict(w)
      BY <2>1, <2>2 DEF Verdict
    <2> QED
      BY <2>1, <2>2, <2>3, <2>4, RegisterQuiet
  <1>6. ASSUME NEW w \in Worker, Recheck(w) PROVE Register!Next \/ UNCHANGED Register!avars
    <2>1. /\ UNCHANGED <<dir, stamp, task, stage>> /\ pc[w] = "rechecking"
          /\ \A v \in Worker \ {w} : pc'[v] = pc[v] /\ outcome'[v] = outcome[v]
      BY <1>6 DEF Recheck
    <2>d. Displacing(w) /\ Verdict(w) = "open"
      BY <2>1 DEF Displacing, Verdict
    <2>2. CASE pc'[w] = "restoring"
      <3>1. Displacing(w)' /\ Verdict(w)' = "open"
        BY <2>2 DEF Displacing, Verdict
      <3> QED
        BY <2>1, <2>2, <2>d, <3>1, RegisterQuiet
    <2>3. CASE pc'[w] # "restoring"
      <3>1. pc'[w] = "cleaning" /\ outcome'[w] = "uncertain" /\ Revision(dir[task[w].name]) # Staged(w)
        BY <1>6, <2>3 DEF Recheck
      <3>2. dir[task[w].name] # w
        <4>1. w \in Entry
          BY DEF Entry, File
        <4> QED
          BY <1>q, <3>1, <4>1 DEF Revision, Staged
      <3>3. \A n \in Name : dir[n] # w
        BY <1>0, <3>2 DEF Home
      <3>4. Verdict(w)' = "lost"
        BY <3>1 DEF Verdict, Published, Displacing
      <3> QED
        BY <2>1, <2>d, <3>1, <3>3, <3>4, RegisterQuiet
    <2> QED
      BY <2>2, <2>3
  <1>7. ASSUME NEW w \in Worker, Restore(w) PROVE Register!Next \/ UNCHANGED Register!avars
    <2>1. /\ UNCHANGED <<stamp, task>> /\ pc[w] = "restoring" /\ pc'[w] = "cleaning"
          /\ outcome'[w] \in {"rolledback", "uncertain"}
          /\ \A v \in Worker \ {w} : pc'[v] = pc[v] /\ outcome'[v] = outcome[v] /\ stage'[v] = stage[v]
      BY <1>7 DEF Restore, Swap
    <2>d. Displacing(w) /\ Verdict(w) = "open" /\ ~Displacing(w)' /\ Verdict(w)' = "lost"
      BY <2>1 DEF Displacing, Verdict, Published
    <2>2. CASE dir[task[w].name] = NoFile
      <3>1. UNCHANGED <<dir, stage>>
        BY <1>7, <2>2 DEF Restore
      <3>2. \A n \in Name : dir[n] # w
        BY <1>0, <2>2, PublishAssumption DEF Home
      <3> QED
        BY <2>1, <2>d, <3>1, <3>2, RegisterQuiet
    <2>3. CASE dir[task[w].name] # NoFile
      <3>1. Swap(w) /\ dir[task[w].name] = w
        BY <1>0, <1>7, <2>1, <2>3 DEF Restore, Duel
      <3>2. \A n \in Name : dir[n] = w => n = task[w].name
        BY <1>0 DEF Home
      <3>3. \A v \in Worker : stage[w] = v => ~Displacing(v)
        <4>1. stage[w] # w
          BY <1>0, <2>1 DEF OwnStage
        <4>2. ASSUME NEW v \in Worker, stage[w] = v PROVE task[v].name = task[w].name
          BY <1>0, <4>1, <4>2 DEF Home
        <4> QED
          BY <1>0, <2>1, <4>1, <4>2, NobodyErrs
      <3> QED
        BY <2>1, <2>d, <3>1, <3>2, <3>3, RegisterErrs
    <2> QED
      BY <2>2, <2>3
  <1>8. ASSUME NEW w \in Worker, SyncParent(w) \/ Finish(w) PROVE Register!Next \/ UNCHANGED Register!avars
    <2>1. /\ UNCHANGED <<dir, stamp, task>>
          /\ \A v \in Worker \ {w} : pc'[v] = pc[v] /\ outcome'[v] = outcome[v] /\ stage'[v] = stage[v]
      BY <1>8 DEF SyncParent, Finish
    <2>2. CASE SyncParent(w)
      <3>1. pc[w] = "syncing" /\ pc'[w] = "cleaning" /\ outcome'[w] \in {"ok", "unsynced"}
        BY <2>2 DEF SyncParent
      <3>2. ~Displacing(w) /\ ~Displacing(w)' /\ Verdict(w) = "won" /\ Verdict(w)' = "won"
        BY <3>1 DEF Displacing, Verdict, Published
      <3> QED
        BY <2>1, <3>1, <3>2, RegisterQuiet
    <2>3. CASE Finish(w)
      <3>1. pc[w] = "cleaning" /\ pc'[w] = "done" /\ outcome' = outcome
        BY <2>3 DEF Finish
      <3>2. ~Displacing(w) /\ ~Displacing(w)' /\ Verdict(w)' = Verdict(w)
        BY <3>1 DEF Displacing, Verdict, Published
      <3> QED
        BY <2>1, <3>1, <3>2, RegisterQuiet
    <2> QED
      BY <1>8, <2>2, <2>3
  <1>9. ASSUME NEW n \in Name, Delete(n) PROVE Register!Next
    <2>1. /\ UNCHANGED <<pc, task, outcome, stage, stamp>> /\ dir'[n] = NoFile
          /\ \A m \in Name \ {n} : dir'[m] = dir[m]
      BY <1>9 DEF Delete
    <2>2. \A v \in Worker : /\ Asked(v)' = Asked(v) /\ Verdict(v)' = Verdict(v)
                            /\ Displacing(v)' <=> Displacing(v)
      BY <2>1, OtherSame
    <2>3. \A m \in Name \ {n} : Settled(m)' = Settled(m)
      BY <2>1, <2>2, SettledSame
    <2>4. Settled(n)' = NoFile
      <3>1. \A v \in Worker : dir'[n] # v
        BY <2>1, PublishAssumption
      <3> QED
        BY <2>1, <3>1, SettledNext
    <2>5. Register!Delete(n)
      BY <2>2, <2>3, <2>4 DEF Register!Delete
    <2> QED
      BY <2>5 DEF Register!Next
  <1>10. ASSUME NEW w \in Worker, Kill(w) PROVE FALSE
    BY <1>10 DEF Kill
  <1>11. CASE UNCHANGED vars
    <2>1. UNCHANGED <<dir, pc, task, outcome, stage, stamp>>
      BY <1>11 DEF vars
    <2>2. \A v \in Worker : /\ Asked(v)' = Asked(v) /\ Verdict(v)' = Verdict(v)
                            /\ Displacing(v)' <=> Displacing(v)
      BY <2>1, OtherSame
    <2>3. \A m \in Name : Settled(m)' = Settled(m)
      BY <2>1, <2>2, SettledSame
    <2> QED
      BY <2>2, <2>3 DEF Register!avars
  <1> QED
    BY <1>q, <1>1, <1>2, <1>3, <1>4, <1>5, <1>6, <1>7, <1>8, <1>9, <1>10, <1>11 DEF Next, Step

\* Publishing is an atomic compare-and-replace per name, as long as no three requests share a
\* name: the replacement takes effect at the exchange, and an exchange that brought back
\* something else is as if it had never been (publish, transfer.go:266-292).
THEOREM PublishIsAtomic ==
  ASSUME NoFile \notin Name, MaxTouches = 0, ~Crashes
  PROVE  Spec /\ []~Crowded => Atomic
  <1>1. /\ TypeOK /\ TypeOK' /\ IInv /\ PairInv /\ ~Crowded /\ [Next]_vars
        => [Register!Next]_Register!avars
    BY RegisterStep DEF IInv
  <1> QED
    BY <1>1, RegisterInit, Typing, Invariance, PairInvariance, PTL DEF Spec, Atomic, Register!Spec

-----------------------------------------------------------------------------
(* Transfers. *)

TransferTypes == TypeOK /\ source \in [Worker -> Name] /\ Mover \subseteq Worker

\* A shared step is a step of Publish.
LEMMA PublishStepIsPublish ==
  ASSUME NEW w \in Worker, PublishStep(w)
  PROVE  Next /\ UNCHANGED transferVars
  BY DEF PublishStep, Next, Step

\* Settling on a name and a revision changes the request of one worker.
LEMMA AimedTask ==
  ASSUME TypeOK, NEW w \in Worker, NEW n \in Name, NEW e \in Entry \X (0 .. MaxTouches),
         task' = [task EXCEPT ![w].name = n, ![w].expected = e]
  PROVE  task' \in [Worker -> Task] /\ \A v \in Worker \ {w} : task'[v] = task[v]
  <1>1. task \in [Worker -> Task]
    BY DEF TypeOK
  <1>2. DOMAIN task' = Worker /\ \A v \in Worker \ {w} : task'[v] = task[v]
    BY <1>1
  <1>3. task'[w] = [task[w] EXCEPT !.name = n, !.expected = e]
    BY <1>1
  <1>4. task'[w] \in Task
    BY <1>1, <1>3 DEF Task
  <1>5. task' = [v \in Worker |-> task'[v]]
    BY <1>1
  <1> QED
    BY <1>1, <1>2, <1>4, <1>5

\* A conflict leaves the request as it is, or settles on a name and a revision.
LEMMA ResolvedTask ==
  ASSUME TypeOK, NEW w \in Worker, ResolveDestination(w)
  PROVE  task' \in [Worker -> Task] /\ \A v \in Worker \ {w} : task'[v] = task[v]
  <1>1. /\ task[w].name \in Name
        /\ Revision(dir[task[w].name]) \in Entry \X (0 .. MaxTouches)
        /\ NoRevision \in Entry \X (0 .. MaxTouches)
    BY PublishAssumption DEF NoRevision, Revision, Task, TypeOK, Entry
  <1>2. \/ task' = task
        \/ task' = [task EXCEPT ![w].name = task[w].name, ![w].expected = NoRevision]
        \/ \E n \in Name : task' = [task EXCEPT ![w].name = n, ![w].expected = NoRevision]
        \/ task' = [task EXCEPT ![w].name = task[w].name,
                              ![w].expected = Revision(dir[task[w].name])]
    BY Zenon DEF ResolveDestination
  <1> QED
    BY <1>1, <1>2, AimedTask DEF TypeOK

\* A transfer has no staged file of its own yet.
LEMMA TransferTypeInit == TInit => TransferTypes
  BY TypeInit, PublishAssumption, TransferAssumption DEF TInit, TransferTypes

\* Every step of a transfer, and every step it shares with uploads, keeps the types.
LEMMA TransferTypeStep == TransferTypes /\ [TNext]_tvars => TransferTypes'
  <1> SUFFICES ASSUME TransferTypes, [TNext]_tvars
               PROVE  TransferTypes'
    OBVIOUS
  <1> USE DEF TransferTypes
  <1>1. ASSUME NEW w \in Worker, PublishStep(w) PROVE TransferTypes'
    BY <1>1, PublishStepIsPublish, TypeStep DEF transferVars
  <1>2. ASSUME NEW n \in Name, Delete(n), UNCHANGED transferVars PROVE TransferTypes'
    BY <1>2, TypeStep DEF transferVars, Next
  <1>3. ASSUME NEW f \in File, Touch(f), UNCHANGED transferVars PROVE TransferTypes'
    BY <1>3, TypeStep DEF transferVars, Next
  <1>4. ASSUME NEW w \in Worker, TransferStep(w) PROVE TransferTypes'
    <2> USE DEF TypeOK, Goto, Return, Place, Active, Staging, Publishing, Transferring, Outcome,
                fsVars, transferVars
    <2>0. Entry = File \cup {NoFile} /\ NoFile \in Entry
      BY DEF Entry
    <2>1. CASE RequestTransfer(w)
      <3>1. PICK k \in {"copy", "move"}, s \in Name, n \in Name :
              \E e \in {NoRevision, Revision(dir[n])} :
                /\ source' = [source EXCEPT ![w] = s]
                /\ task' = [task EXCEPT ![w] = [kind |-> k, name |-> n, expected |-> e]]
        BY <2>1 DEF RequestTransfer
      <3>2. NoRevision \in Entry \X (0 .. MaxTouches) /\ Revision(dir[n]) \in Entry \X (0 .. MaxTouches)
        BY <2>0, PublishAssumption DEF NoRevision, Revision
      <3>3. task' \in [Worker -> Task]
        BY <3>1, <3>2 DEF Task, Kind
      <3> QED
        BY <2>1, <3>1, <3>3 DEF RequestTransfer
    <2>2. CASE InspectSource(w)
      BY <2>2 DEF InspectSource
    <2>3. CASE ResolveDestination(w)
      <3>3. task' \in [Worker -> Task]
        BY <2>3, ResolvedTask
      <3>4. pc' \in [Worker -> Place] /\ outcome' \in [Worker -> Outcome]
        BY <2>3 DEF ResolveDestination
      <3> QED
        BY <2>3, <3>3, <3>4 DEF ResolveDestination
    <2>4. CASE RenameSource(w)
      <3>1. dir' \in [Name -> Entry]
        BY <2>0, <2>4 DEF RenameSource, Src
      <3> QED
        BY <2>4, <3>1 DEF RenameSource
    <2>5. CASE CopySource(w)
      BY <2>5 DEF CopySource, File, WriteFailed
    <2>6. CASE SyncTransfer(w)
      BY <2>6 DEF SyncTransfer
    <2>7. CASE CompareSource(w)
      BY <2>7 DEF CompareSource
    <2>8. CASE EquateTrees(w)
      BY <2>8 DEF EquateTrees
    <2>9. CASE RemoveSource(w)
      <3>1. dir' \in [Name -> Entry]
        BY <2>0, <2>9 DEF RemoveSource
      <3> QED
        BY <2>9, <3>1 DEF RemoveSource, SourceGone
    <2> QED
      BY <1>4, <2>1, <2>2, <2>3, <2>4, <2>5, <2>6, <2>7, <2>8, <2>9 DEF TransferStep
  <1>5. CASE UNCHANGED tvars
    BY <1>5, TypeStep DEF tvars, transferVars
  <1> QED
    BY <1>1, <1>2, <1>3, <1>4, <1>5 DEF TNext
-----------------------------------------------------------------------------

\* The places at which the staging folder of w is there.
Holding == {"writing", "checking", "publishing", "exchanging", "verifying", "rechecking",
            "restoring", "syncing", "comparing", "equating", "removing"}

\* From its publication on, what w displaced is the file it was to replace and is in its
\* folder; that stays so when it reports trouble, whatever others do.
Recoverable(w) ==
  /\ pc[w] \in Holding => w \in holder
  /\ outcome[w] = "kept" => pc[w] \in {"cleaning", "done", "killed"}
  /\ pc[w] \in {"syncing", "comparing", "equating", "removing"} \/ outcome[w] = "kept" =>
       /\ w \in holder
       /\ Expected(w) # NoRevision => stage[w] = Expected(w)[1]

TransferInv == TransferTypes /\ \A w \in Worker : Recoverable(w)

\* No step of its own, and no step of anybody else, takes that away.
LEMMA RecoverableStep ==
  TransferTypes /\ (\A w \in Worker : Recoverable(w)) /\ [TNext]_tvars
    => \A w \in Worker : Recoverable(w)'
  <1> SUFFICES ASSUME TransferTypes, \A w \in Worker : Recoverable(w), [TNext]_tvars,
                      NEW u \in Worker
               PROVE  Recoverable(u)'
    OBVIOUS
  <1>0. Recoverable(u) /\ TypeOK
    BY DEF TransferTypes
  <1>1. ASSUME UNCHANGED <<pc, outcome, holder, task, stage>> PROVE Recoverable(u)'
    BY <1>0, <1>1 DEF Recoverable, Expected
  <1>2. ASSUME NEW w \in Worker, PublishStep(w) PROVE Recoverable(u)'
    <2> USE DEF TypeOK, Recoverable, Expected, Goto, Return, Holding, fsVars
    <2>1. CASE Request(w)
      BY <1>0, <2>1 DEF Request
    <2>2. CASE OpenOriginal(w) \/ LockOriginal(w) \/ FinalCheck(w) \/ Compare(w) \/ Recheck(w)
      BY <1>0, <2>2 DEF OpenOriginal, LockOriginal, FinalCheck, Compare, Recheck
    <2>3. CASE CreateStaging(w)
      BY <1>0, <2>3 DEF CreateStaging
    <2>4. CASE WriteStaging(w) \/ SyncParent(w)
      BY <1>0, <2>4 DEF WriteStaging, WriteFailed, SyncParent
    <2>5. CASE PublishNew(w)
      BY <1>0, <2>5 DEF PublishNew
    <2>6. CASE Exchange(w) \/ Restore(w)
      BY <1>0, <2>6 DEF Exchange, Restore, Swap
    <2>7. CASE Verify(w)
      BY <1>0, <2>7 DEF Verify, RightOne, Revision
    <2>8. CASE Finish(w)
      BY <1>0, <2>8 DEF Finish, Kept
    <2>9. CASE Cancel(w) \/ Kill(w)
      BY <1>0, <2>9 DEF Cancel, Kill
    <2> QED
      BY <1>2, <2>1, <2>2, <2>3, <2>4, <2>5, <2>6, <2>7, <2>8, <2>9 DEF PublishStep
  <1>3. ASSUME NEW w \in Worker, TransferStep(w) PROVE Recoverable(u)'
    <2> USE DEF TypeOK, Recoverable, Expected, Goto, Return, Holding, fsVars, transferVars
    <2>1. CASE RequestTransfer(w)
      BY <1>0, <2>1 DEF RequestTransfer
    <2>2. CASE InspectSource(w) \/ CopySource(w)
      BY <1>0, <2>2 DEF InspectSource, CopySource, WriteFailed
    <2>3. CASE ResolveDestination(w)
      <3>1. /\ pc[w] = "resolving" /\ UNCHANGED <<holder, stage>>
            /\ \/ pc' \in {[pc EXCEPT ![w] = a] : a \in {"renaming", "staging"}} /\ UNCHANGED outcome
               \/ /\ pc' = [pc EXCEPT ![w] = "cleaning"]
                  /\ outcome' \in {[outcome EXCEPT ![w] = r] : r \in {"changed", "failed", "skipped", "exists"}}
        BY <2>3 DEF ResolveDestination
      <3>2. \A v \in Worker \ {w} : task'[v] = task[v]
        BY <1>0, <2>3, ResolvedTask
      <3> QED
        BY <1>0, <3>1, <3>2
    <2>4. CASE RenameSource(w)
      BY <1>0, <2>4 DEF RenameSource
    <2>5. CASE SyncTransfer(w) \/ CompareSource(w) \/ EquateTrees(w)
      BY <1>0, <2>5 DEF SyncTransfer, CompareSource, EquateTrees
    <2>6. CASE RemoveSource(w)
      BY <1>0, <2>6 DEF RemoveSource, SourceGone
    <2> QED
      BY <1>3, <2>1, <2>2, <2>3, <2>4, <2>5, <2>6 DEF TransferStep
  <1> QED
    BY <1>1, <1>2, <1>3 DEF TNext, tvars, vars, workerVars, Delete, Touch

\* Whatever races it, a copy or move that reports trouble after its publication leaves its
\* folder, and in it the very file that it was to replace (transfer.go, "both copies
\* preserved"; the journal is what keeps the folder).
THEOREM TroubleIsRecoverable == TSpec => []TroubleKeepsAll
  <1>1. TInit => TransferInv
    BY TransferTypeInit DEF TInit, Init, Recoverable, Holding, TransferInv
  <1>2. TransferInv /\ [TNext]_tvars => TransferInv'
    BY TransferTypeStep, RecoverableStep DEF TransferInv
  <1>3. TransferInv => TroubleKeepsAll
    BY DEF TransferInv, TransferTypes, Recoverable, TroubleKeepsAll
  <1> QED
    BY <1>1, <1>2, <1>3, PTL DEF TSpec

-----------------------------------------------------------------------------
(* What transfers have in common with uploads and edits. *)

\* Every step of an upload or an edit keeps what transfers rely on.
LEMMA BaseStep == TypeOK /\ Base /\ [Next]_vars => Base'
  BY BornStep, OnePlaceStep, CompleteStep, EmptyStep, OwnStageStep, DisplacedStep DEF Base

\* How a conflict is resolved.
ResolvedTo(w) ==
  /\ pc[w] = "resolving" /\ UNCHANGED <<fsVars, holder, stage, opened, cancelled, transferVars>>
  /\ \A v \in Worker \ {w} : task'[v] = task[v]
  /\ task'[w].kind = task[w].kind
  /\ \/ /\ pc' \in {[pc EXCEPT ![w] = a] : a \in {"renaming", "staging"}}
        /\ UNCHANGED outcome
     \/ /\ pc' = [pc EXCEPT ![w] = "cleaning"] /\ UNCHANGED task
        /\ outcome' \in {[outcome EXCEPT ![w] = r] :
                           r \in {"changed", "failed", "skipped", "exists"}}
  /\ pc'[w] = "renaming" => Expected(w)' = NoRevision
  /\ \/ Expected(w)' = Expected(w)
     \/ Expected(w)' = NoRevision
     \/ /\ Expected(w)' = Revision(dir[task[w].name]) /\ dir[task[w].name] # NoFile
  /\ \/ task'[w].name = task[w].name
     \/ dir[task'[w].name] = NoFile
  /\ IsMove(w) /\ pc'[w] # "cleaning" /\ Expected(w)' = NoRevision => pc'[w] = "renaming"
  /\ task'[w].name # task[w].name => Expected(w)' = NoRevision

\* Which the code does in six ways.
LEMMA Resolved ==
  ASSUME TypeOK, NEW w \in Worker, ResolveDestination(w)
  PROVE  ResolvedTo(w)
  <1>1. task \in [Worker -> Task] /\ pc[w] = "resolving"
    BY DEF TypeOK, ResolveDestination, Goto, Return
  <1>2. \A n \in Name, e \in Entry \X (0 .. MaxTouches) :
          task' = [task EXCEPT ![w].name = n, ![w].expected = e] =>
            /\ task'[w].kind = task[w].kind /\ task'[w].name = n /\ task'[w].expected = e
    BY <1>1 DEF Task
  <1>3. /\ task[w].name \in Name
        /\ Revision(dir[task[w].name]) \in Entry \X (0 .. MaxTouches)
        /\ NoRevision \in Entry \X (0 .. MaxTouches)
    BY PublishAssumption DEF NoRevision, Revision, Task, TypeOK, Entry
  <1>4. \A v \in Worker \ {w} : task'[v] = task[v]
    BY ResolvedTask
  <1> HIDE PublishAssumption DEF PublishAssumption
  <1> DEFINE n == task[w].name
             old == Revision(dir[n])
             aim(m, e) == /\ task' = [task EXCEPT ![w].name = m, ![w].expected = e]
                          /\ Goto(w, "resolving", IF IsMove(w) /\ e = NoRevision
                                                  THEN "renaming" ELSE "staging")
                          /\ UNCHANGED outcome
             give(r) == Return(w, "resolving", r) /\ UNCHANGED task
  <1>5. UNCHANGED <<fsVars, holder, stage, opened, cancelled, transferVars>>
    BY DEF ResolveDestination
  <1>6. \/ aim(n, NoRevision)
        \/ \E m \in Name : dir[m] = NoFile /\ aim(m, NoRevision)
        \/ dir[n] # NoFile /\ aim(n, old)
        \/ \E r \in {"changed", "failed", "skipped", "exists"} : give(r)
    BY ZenonT(60) DEF ResolveDestination
  <1>7. ASSUME NEW m \in Name, NEW e \in Entry \X (0 .. MaxTouches), aim(m, e),
               e = NoRevision \/ (e = old /\ dir[n] # NoFile), m = n \/ (e = NoRevision /\ dir[m] = NoFile)
        PROVE  ResolvedTo(w)
    BY <1>1, <1>2, <1>4, <1>5, <1>7 DEF Goto, Expected, TypeOK, ResolvedTo
  <1>8. ASSUME NEW r \in {"changed", "failed", "skipped", "exists"}, give(r) PROVE ResolvedTo(w)
    BY <1>1, <1>4, <1>5, <1>8 DEF Return, Goto, Expected, TypeOK, ResolvedTo
  <1> QED
    BY <1>3, <1>6, <1>7, <1>8

\* A transfer's own step moves or removes files, but links none anew and leaves no second link.
LEMMA TransferMoves ==
  ASSUME TransferTypes, Base, NEW w \in Worker, TransferStep(w)
  PROVE  /\ UNCHANGED <<stamp, deleted, holder, stage, opened, cancelled>>
         /\ OnePlace'
         /\ \A f \in File : Linked(f)' => Linked(f)
         /\ \A n \in Name : dir'[n] # NoFile => \E m \in Name : dir[m] = dir'[n]
         /\ complete \subseteq complete'
  <1> USE DEF TransferTypes, TypeOK, Base, OnePlace, fsVars
  <1>0. source[w] \in Name /\ task[w].name \in Name
    BY DEF Task
  <1>f. \A f \in File : f # NoFile
    BY PublishAssumption DEF File
  <1>1. CASE RenameSource(w)
    <2>1. UNCHANGED <<stamp, complete, deleted, holder, stage, opened, cancelled>>
      BY <1>1 DEF RenameSource
    <2>2. CASE dir' = dir
      BY <2>1, <2>2 DEF Linked
    <2>3. CASE dir' # dir
      <3>1. /\ dir[source[w]] # NoFile /\ dir[task[w].name] = NoFile
            /\ dir' = [dir EXCEPT ![task[w].name] = dir[source[w]], ![source[w]] = NoFile]
        BY <1>1, <2>3 DEF RenameSource, Src
      <3> DEFINE n == task[w].name
                 s == source[w]
      <3>2. n # s
        BY <3>1
      <3>3. \A m \in Name : dir'[m] = IF m = s THEN NoFile ELSE IF m = n THEN dir[s] ELSE dir[m]
        BY <1>0, <3>1, <3>2
      <3>4. n \in Name /\ s \in Name
        BY <1>0
      <3> HIDE DEF n, s
      <3>5. OnePlace'
        BY <2>1, <3>3, <3>4
      <3>6. \A f \in File : Linked(f)' => Linked(f)
        BY <1>f, <2>1, <3>3, <3>4 DEF Linked
      <3>7. \A m \in Name : dir'[m] # NoFile => \E k \in Name : dir[k] = dir'[m]
        BY <3>3, <3>4
      <3> QED
        BY <2>1, <3>5, <3>6, <3>7
    <2> QED
      BY <2>2, <2>3
  <1>2. CASE RemoveSource(w)
    <2>1. UNCHANGED <<stamp, complete, deleted, holder, stage, opened, cancelled>>
          /\ dir' \in {dir, [dir EXCEPT ![source[w]] = NoFile]}
      BY <1>2 DEF RemoveSource, SourceGone
    <2> QED
      BY <1>0, <1>f, <2>1 DEF Linked
  <1>3. CASE ~RenameSource(w) /\ ~RemoveSource(w)
    <2>1. UNCHANGED <<dir, stamp, deleted, holder, stage, opened, cancelled>> /\ complete \subseteq complete'
      BY <1>3, Resolved DEF TransferStep, RequestTransfer, InspectSource, ResolvedTo, CopySource,
         SyncTransfer, CompareSource, EquateTrees
    <2> QED
      BY <2>1 DEF Linked
  <1> QED
    BY <1>1, <1>2, <1>3

\* Where a request gets by a transfer's own step, and what it replies.
Advanced(w) ==
  \/ /\ outcome' = outcome
     /\ <<pc[w], pc'[w]>> \in
          {<<"idle", "inspecting">>, <<"inspecting", "resolving">>, <<"resolving", "renaming">>,
           <<"resolving", "staging">>, <<"renaming", "staging">>, <<"writing", "checking">>,
           <<"syncing", "comparing">>, <<"comparing", "equating">>, <<"equating", "removing">>}
     /\ pc[w] \in {"writing", "syncing"} => w \in Mover
     /\ pc[w] = "syncing" => IsMove(w)
     /\ pc[w] # "resolving" => UNCHANGED dir
  \/ /\ pc'[w] = "cleaning"
     /\ \/ /\ pc[w] \in {"inspecting", "resolving", "renaming", "writing"} /\ UNCHANGED dir
           /\ outcome'[w] \in {"cancelled", "failed", "changed", "exists", "skipped"}
        \/ /\ pc[w] = "renaming" /\ dir[source[w]] # NoFile
           /\ dir[task[w].name] = NoFile /\ dir'[source[w]] = NoFile
           /\ outcome'[w] \in {"ok", "unsynced"}
        \/ /\ pc[w] = "syncing" /\ ~IsMove(w) /\ outcome'[w] = "ok" /\ w \in Mover
        \/ /\ pc[w] = "removing" /\ dir[source[w]] # NoFile /\ dir'[source[w]] = NoFile
           /\ outcome'[w] = "ok"
        \/ /\ pc[w] \in {"syncing", "comparing", "equating", "removing"} /\ outcome'[w] = "kept"

\* A transfer's own step moves no other request, and chooses its task only at the start.
LEMMA TransferPlaces ==
  ASSUME TransferTypes, NEW w \in Worker, TransferStep(w)
  PROVE  /\ \A v \in Worker \ {w} : pc'[v] = pc[v] /\ outcome'[v] = outcome[v] /\ task'[v] = task[v]
         /\ pc[w] \notin {"idle", "resolving"} => task' = task
         /\ Advanced(w)
  <1> USE DEF TypeOK, TransferTypes, Goto, Return, Advanced
  <1>0. source[w] \in Name /\ task[w].name \in Name
    BY DEF Task
  <1>1. CASE RequestTransfer(w)
    BY <1>1 DEF RequestTransfer, fsVars
  <1>2. CASE InspectSource(w)
    BY <1>2 DEF InspectSource, fsVars
  <1>3. CASE ResolveDestination(w)
    <2>1. ResolvedTo(w)
      BY <1>3, Resolved
    <2> QED
      BY <2>1 DEF ResolvedTo, fsVars
  <1>4. CASE RenameSource(w)
    BY <1>0, <1>4 DEF RenameSource, Src
  <1>5. CASE CopySource(w)
    BY <1>5 DEF CopySource, WriteFailed
  <1>6. CASE SyncTransfer(w) \/ CompareSource(w) \/ EquateTrees(w)
    BY <1>6 DEF SyncTransfer, CompareSource, EquateTrees, fsVars
  <1>7. CASE RemoveSource(w)
    BY <1>0, <1>7 DEF RemoveSource, SourceGone, Src
  <1> QED
    BY <1>1, <1>2, <1>3, <1>4, <1>5, <1>6, <1>7 DEF TransferStep

\* What a transfer's own step makes of the revision it may replace: nothing, or one that is there.
LEMMA TransferExpects ==
  ASSUME TransferTypes, NEW w \in Worker, TransferStep(w)
  PROVE  \/ Expected(w)' \in {Expected(w), NoRevision}
         \/ \E n \in Name : Expected(w)' = Revision(dir[n])
  <1> USE DEF TypeOK, TransferTypes
  <1>1. CASE RequestTransfer(w)
    BY <1>1 DEF RequestTransfer, Expected
  <1>2. CASE ResolveDestination(w)
    <2>1. ResolvedTo(w) /\ task[w].name \in Name
      BY <1>2, Resolved DEF Task
    <2> QED
      BY <2>1 DEF ResolvedTo
  <1>3. CASE ~RequestTransfer(w) /\ ~ResolveDestination(w)
    <2>1. task' = task
      BY <1>3 DEF TransferStep, InspectSource, RenameSource, CopySource, SyncTransfer, CompareSource,
         EquateTrees, RemoveSource
    <2> QED
      BY <2>1 DEF Expected
  <1> QED
    BY <1>1, <1>2, <1>3

\* A transfer's own step keeps what uploads and edits rely on.
LEMMA TransferBaseStep ==
  ASSUME TransferTypes, TransferTypes', Base, NEW w \in Worker, TransferStep(w)
  PROVE  Base'
  <1>m. /\ UNCHANGED <<stamp, deleted, holder, stage, opened, cancelled>>
        /\ OnePlace'
        /\ \A f \in File : Linked(f)' => Linked(f)
        /\ \A n \in Name : dir'[n] # NoFile => \E m \in Name : dir[m] = dir'[n]
        /\ complete \subseteq complete'
    BY TransferMoves
  <1>p. /\ \A v \in Worker \ {w} : pc'[v] = pc[v] /\ outcome'[v] = outcome[v] /\ task'[v] = task[v]
        /\ pc[w] \notin {"idle", "resolving"} => task' = task
        /\ Advanced(w)
    BY TransferPlaces
  <1>e. \/ Expected(w)' \in {Expected(w), NoRevision}
        \/ \E n \in Name : Expected(w)' = Revision(dir[n])
    BY TransferExpects
  <1>b. OnlyBorn /\ OnePlace /\ OnlyCompletePublic /\ EmptyRevision
        /\ \A v \in Worker : OwnStage(v) /\ Displaced(v)
    BY DEF Base
  <1>n. NoFile \notin Worker /\ NoFile \notin File
    BY PublishAssumption DEF File
  <1>1. OnlyBorn'
    <2>1. Unborn' \subseteq Unborn
      BY <1>p DEF Advanced, Unborn
    <2>2. \A v \in Worker : Expected(v)'[1] \notin Unborn
      <3>1. \A v \in Worker \ {w} : Expected(v)' = Expected(v)
        BY <1>p DEF Expected
      <3>2. Expected(w)'[1] \notin Unborn
        BY <1>e, <1>b, <1>n DEF Revision, NoRevision, OnlyBorn, Unborn
      <3> QED
        BY <1>b, <3>1, <3>2 DEF OnlyBorn
    <2>3. \A n \in Name : dir'[n] \notin Unborn
      BY <1>b, <1>m, <1>n DEF OnlyBorn, Unborn
    <2>4. \A v \in Worker : stage'[v] \notin Unborn
      BY <1>b, <1>m DEF OnlyBorn
    <2>5. \A v \in Unborn : stage'[v] = NoFile
      BY <1>b, <1>m DEF OnlyBorn
    <2> QED
      BY <2>1, <2>2, <2>3, <2>4, <2>5 DEF OnlyBorn
  <1>2. OnlyCompletePublic'
    BY <1>b, <1>m DEF OnlyCompletePublic
  <1>3. EmptyRevision'
    <2>1. stamp'[NoFile] = 0
      BY <1>b, <1>m DEF EmptyRevision
    <2>2. \A v \in Worker \ {w} : Expected(v)'[1] = NoFile => Expected(v)' = NoRevision
      BY <1>b, <1>p DEF EmptyRevision, Expected
    <2>3. Expected(w)'[1] = NoFile => Expected(w)' = NoRevision
      BY <1>b, <1>e DEF EmptyRevision, Revision, NoRevision
    <2> QED
      BY <2>1, <2>2, <2>3 DEF EmptyRevision
  <1>4. ASSUME NEW u \in Worker, u # w PROVE OwnStage(u)'
    <2>1. OwnStage(u) /\ Expected(u)' = Expected(u) /\ pc'[u] = pc[u] /\ outcome'[u] = outcome[u]
      BY <1>b, <1>p, <1>4 DEF Expected
    <2> QED
      BY <1>m, <2>1 DEF OwnStage, Won
  <1>5. OwnStage(w)'
    <2>0. /\ pc[w] = "resolving" => ResolveDestination(w)
          /\ pc[w] = "writing" => CopySource(w)
      <3>1. ResolveDestination(w) => pc[w] = "resolving"
        BY Resolved DEF ResolvedTo, TransferTypes
      <3> QED
        BY <3>1 DEF TransferStep, RequestTransfer, InspectSource, RenameSource, CopySource,
           SyncTransfer, CompareSource, EquateTrees, RemoveSource, SourceGone, WriteFailed, Goto, Return
    <2>1. pc[w] = "writing" /\ pc'[w] = "checking" => w \in complete'
      BY <2>0 DEF CopySource, WriteFailed, Goto, Return, TransferTypes, TypeOK
    <2>2. /\ pc'[w] = "renaming" => Expected(w)' = NoRevision
          /\ pc[w] \notin {"idle", "resolving"} => Expected(w)' = Expected(w)
      <3>1. CASE pc[w] = "resolving"
        BY <2>0, <3>1, Resolved DEF ResolvedTo, TransferTypes
      <3>2. CASE pc[w] # "resolving"
        <4>1. pc'[w] # "renaming"
          BY <1>p, <3>2 DEF Advanced
        <4> QED
          BY <1>p, <4>1 DEF Expected
      <3> QED
        BY <3>1, <3>2
    <2>3. OwnStage(w) /\ (w \in Unborn => stage[w] = NoFile)
      BY <1>b DEF OnlyBorn
    <2>4. stage'[w] = stage[w] /\ complete \subseteq complete'
      BY <1>m
    <2>5. stage[w] \notin {w, NoFile} => stage'[w] \in complete'
      BY <2>3, <2>4 DEF OwnStage
    <2>6. CASE /\ outcome' = outcome
               /\ <<pc[w], pc'[w]>> \in
                    {<<"idle", "inspecting">>, <<"inspecting", "resolving">>, <<"resolving", "renaming">>,
                     <<"resolving", "staging">>, <<"renaming", "staging">>}
      <3>1. stage[w] = NoFile
        BY <2>3, <2>6 DEF Unborn
      <3>2. outcome[w] = "none" /\ pc'[w] \in {"inspecting", "resolving", "renaming", "staging"}
        BY <2>3, <2>6 DEF OwnStage
      <3>3. outcome' = outcome
        BY <2>6
      <3> QED
        BY <1>n, <2>2, <2>4, <3>1, <3>2, <3>3 DEF OwnStage, Won, Publishing
    <2>7. CASE /\ outcome' = outcome /\ <<pc[w], pc'[w]>> = <<"writing", "checking">>
      BY <1>n, <2>1, <2>3, <2>4, <2>7 DEF OwnStage, Won, Publishing
    <2>8. CASE /\ outcome' = outcome
               /\ <<pc[w], pc'[w]>> \in
                    {<<"syncing", "comparing">>, <<"comparing", "equating">>, <<"equating", "removing">>}
      <3>1. Expected(w)' = Expected(w) /\ outcome[w] = "none" /\ pc'[w] \in {"comparing", "equating", "removing"}
            /\ pc[w] \in {"syncing", "comparing", "equating"}
        BY <2>2, <2>3, <2>8 DEF OwnStage
      <3> QED
        BY <2>3, <2>4, <2>8, <3>1 DEF OwnStage, Won, Publishing
    <2>9. CASE pc'[w] = "cleaning"
      <3>1. CASE pc[w] \in {"inspecting", "resolving", "renaming", "writing"}
                 /\ outcome'[w] \in {"cancelled", "failed", "changed", "exists", "skipped"}
        <4>1. stage[w] \in {w, NoFile}
          BY <2>3, <3>1 DEF OwnStage, Unborn
        <4> QED
          BY <2>4, <2>9, <3>1, <4>1 DEF OwnStage, Won, Publishing
      <3>2. CASE pc[w] = "renaming" /\ outcome'[w] \in {"ok", "unsynced"}
        <4>1. stage[w] = NoFile
          BY <2>3, <3>2 DEF Unborn
        <4> QED
          BY <1>n, <2>4, <2>9, <3>2, <4>1 DEF OwnStage, Won, Publishing
      <3>3. CASE pc[w] \in {"syncing", "comparing", "equating", "removing"}
                 /\ outcome'[w] \in {"ok", "kept"}
        <4>1. Expected(w)' = Expected(w) /\ stage[w] # w /\ (Expected(w) = NoRevision => stage[w] = NoFile)
          BY <2>2, <2>3, <3>3 DEF OwnStage, Won, Publishing
        <4> QED
          BY <2>4, <2>5, <2>9, <3>3, <4>1 DEF OwnStage, Won, Publishing
      <3> QED
        BY <1>p, <2>9, <3>1, <3>2, <3>3 DEF Advanced
    <2> QED
      BY <1>p, <2>6, <2>7, <2>8, <2>9 DEF Advanced
  <1>6. ASSUME NEW u \in Worker PROVE Displaced(u)'
    <2>1. CASE Won(u) /\ Expected(u)' = Expected(u)
      <3>1. Displaced(u)
        BY <1>b
      <3>2. pc[u] = "done" => pc'[u] = "done"
        BY <1>p DEF Advanced
      <3>3. Expected(u)[1] \in Entry
        BY DEF TransferTypes, TypeOK, Task, Expected
      <3>4. Expected(u)[1] = NoFile => Expected(u) = NoRevision
        BY <1>b DEF EmptyRevision
      <3> QED
        BY <1>m, <2>1, <3>1, <3>2, <3>3, <3>4 DEF Displaced, Nowhere, Entry
    <2>2. CASE ~Won(u)
      <3>1. Won(u)' => u = w /\ pc[w] = "renaming" /\ task' = task
        BY <1>p, <2>2 DEF Won, Advanced
      <3>2. Won(u)' => Expected(u)' = NoRevision
        BY <1>b, <3>1 DEF OwnStage, Expected
      <3> QED
        BY <3>2 DEF Displaced
    <2>3. CASE Won(u) /\ Expected(u)' # Expected(u)
      <3>1. u = w /\ pc[w] \in {"idle", "resolving"}
        BY <1>p, <2>3 DEF Expected
      <3>2. OwnStage(u)
        BY <1>b
      <3> QED
        BY <2>3, <3>1, <3>2 DEF OwnStage, Won, Publishing
    <2> QED
      BY <2>1, <2>2, <2>3
  <1> QED
    BY <1>m, <1>1, <1>2, <1>3, <1>4, <1>5, <1>6 DEF Base

\* What transfers remember of files.
Seen == Entry \X (0 .. MaxTouches)
History == before \in [Worker -> Seen] /\ copied \in [Worker -> Seen] /\ removed \in [Worker -> Seen]

\* What a transfer records of the revisions it saw stays in its type.
LEMMA HistoryStep ==
  ASSUME TransferTypes, History, [TNext]_tvars
  PROVE  History'
  <1> USE DEF TransferTypes, TypeOK, History
  <1>r. \A f \in Entry : Revision(f) \in Seen
    BY DEF Revision, Seen
  <1>e. NoFile \in Entry /\ Worker \subseteq Entry
    BY DEF Entry, File
  <1>c. \A f \in Entry : Contents(f) \in Seen
    BY <1>r DEF Contents
  <1>1. ASSUME UNCHANGED <<before, copied, removed>> PROVE History'
    BY <1>1
  <1>2. ASSUME NEW w \in Worker, InspectSource(w) PROVE History'
    <2>1. Revision(Src(w)) \in Seen
      BY <1>r DEF Src
    <2> QED
      BY <1>2, <2>1 DEF InspectSource
  <1>3. ASSUME NEW w \in Worker, CopySource(w) PROVE History'
    <2>1. Contents(Src(w)) \in Seen
      BY <1>c DEF Src
    <2> QED
      BY <1>3, <2>1 DEF CopySource
  <1>4. ASSUME NEW w \in Worker, RemoveSource(w) PROVE History'
    <2>1. Revision(Src(w)) \in Seen
      BY <1>r DEF Src
    <2> QED
      BY <1>4, <2>1 DEF RemoveSource
  <1>5. ASSUME NEW w \in Worker, TransferStep(w), ~InspectSource(w), ~CopySource(w), ~RemoveSource(w)
        PROVE  UNCHANGED <<before, copied, removed>>
    <2>1. ResolveDestination(w) => UNCHANGED transferVars
      BY DEF ResolveDestination
    <2> QED
      BY <1>5, <2>1 DEF TransferStep, RequestTransfer, RenameSource, SyncTransfer, CompareSource,
         EquateTrees, transferVars
  <1> QED
    BY <1>1, <1>2, <1>3, <1>4, <1>5 DEF TNext, PublishStep, transferVars, tvars

\* The state of a transfer: the types, and what it has in common with uploads and edits.
TransferBase == TransferTypes /\ History /\ Base

\* Types, history and Base hold in every reachable state of uploads, edits and transfers.
LEMMA TransferBaseInvariance == TSpec => []TransferBase
  <1>1. TInit => TransferBase
    <2> SUFFICES ASSUME TInit PROVE TransferBase
      OBVIOUS
    <2>1. TransferTypes /\ Base
      BY TransferTypeInit, IInvInit DEF TInit, IInv
    <2>2. NoRevision \in Seen
      BY PublishAssumption DEF NoRevision, Seen, Entry
    <2> QED
      BY <2>1, <2>2 DEF TInit, History, TransferBase
  <1>2. TransferBase /\ [TNext]_tvars => TransferBase'
    <2> SUFFICES ASSUME TransferBase, [TNext]_tvars PROVE TransferBase'
      OBVIOUS
    <2>1. TransferTypes' /\ History'
      BY TransferTypeStep, HistoryStep DEF TransferBase
    <2>2. ASSUME [Next]_vars PROVE Base'
      BY <2>2, BaseStep DEF TransferBase, TransferTypes
    <2>3. ASSUME NEW w \in Worker, TransferStep(w) PROVE Base'
      BY <2>1, <2>3, TransferBaseStep DEF TransferBase
    <2>4. ASSUME NEW w \in Worker, PublishStep(w) PROVE Base'
      BY <2>2, <2>4, PublishStepIsPublish
    <2> QED
      BY <2>1, <2>2, <2>3, <2>4 DEF TNext, Next, tvars, TransferBase
  <1> QED
    BY <1>1, <1>2, PTL DEF TSpec

\* Whatever copies and moves run next to uploads and edits, and whatever is killed, cancelled or
\* deleted under them, only complete and synced files are at public names (transfer.go
\* publishes a copy only after its source was found unchanged).
THEOREM TransferPublicIsComplete == TSpec => []OnlyCompletePublic
  <1>1. TransferBase => OnlyCompletePublic
    BY DEF TransferBase, Base
  <1> QED
    BY <1>1, TransferBaseInvariance, PTL

\* What a finished copy or move leaves in its folder is displaced data as well, kept for a reason
\* it reports; and an unverified replacement always leaves some (transfer.go, "keep").
THEOREM TransferRetainsPrevious == TSpec => []OnlyPreviousRetained
  <1>1. TInit => OnlyPreviousRetained
    BY DEF TInit, Init, OnlyPreviousRetained
  <1>2. TransferBase /\ OnlyPreviousRetained /\ [TNext]_tvars => OnlyPreviousRetained'
    <2> SUFFICES ASSUME TransferBase, OnlyPreviousRetained, [TNext]_tvars PROVE OnlyPreviousRetained'
      OBVIOUS
    <2>1. ASSUME [Next]_vars PROVE OnlyPreviousRetained'
      BY <2>1, RetainedStep DEF TransferBase, TransferTypes
    <2>2. ASSUME NEW x \in Worker, TransferStep(x) PROVE OnlyPreviousRetained'
      <3>1. UNCHANGED stage /\ Advanced(x)
            /\ \A v \in Worker \ {x} : pc'[v] = pc[v] /\ outcome'[v] = outcome[v] /\ task'[v] = task[v]
        BY <2>2, TransferMoves, TransferPlaces DEF TransferBase
      <3>2. pc'[x] # "done"
        BY <3>1 DEF Advanced
      <3> QED
        BY <3>1, <3>2 DEF OnlyPreviousRetained, Kept, Expected
    <2> QED
      BY <2>1, <2>2, PublishStepIsPublish DEF TNext, Next, tvars
  <1> QED
    BY <1>1, <1>2, TransferBaseInvariance, PTL DEF TSpec

-----------------------------------------------------------------------------
(* Two moves from one name. *)

\* x puts, or has put, a file at name s.
Aimed(x, s) == pc[x] \notin Early /\ task[x].name = s

\* Both moves report success: the source of each was there when it ended.
MovedTwice(v, w) ==
  /\ v # w /\ IsMove(v) /\ IsMove(w) /\ outcome[v] = "ok" /\ outcome[w] = "ok"
  /\ source[v] = source[w]
\* There is a third request, which puts something at that very name.
ThirdAt(v, w) == \E x \in Worker \ {v, w} : Aimed(x, source[v])
Contested == \E v, w \in Mover : MovedTwice(v, w) /\ ThirdAt(v, w)

\* A move that reported success has left its source name empty, unless somebody else puts
\* something there; and it moves nothing to where it was.
Vacated(v) ==
  /\ IsMove(v) => v \in Mover
  /\ IsMove(v) /\ outcome[v] = "ok" =>
       /\ task[v].name # source[v]
       /\ dir[source[v]] = NoFile \/ \E x \in Worker \ {v} : Aimed(x, source[v])
  /\ IsMove(v) /\ task[v].name = source[v] => pc[v] \in {"renaming", "cleaning", "done", "killed"}

VacateInv ==
  /\ \A v \in Worker : Vacated(v)
  /\ \A v, w \in Mover : MovedTwice(v, w) => ThirdAt(v, w)

\* A request keeps its task, and is never idle again, in a transfer's world too.
LEMMA AimStays ==
  ASSUME TransferTypes, [TNext]_tvars, NEW x \in Worker, pc[x] \notin Early
  PROVE  /\ pc'[x] \notin Early /\ task'[x] = task[x]
         /\ source'[x] = source[x]
  <1>1. ASSUME [Next]_vars, UNCHANGED source
        PROVE  pc'[x] \notin Early /\ task'[x] = task[x] /\ source'[x] = source[x]
    BY <1>1, TaskKept DEF TransferTypes
  <1>2. ASSUME NEW w \in Worker, TransferStep(w)
        PROVE  pc'[x] \notin Early /\ task'[x] = task[x] /\ source'[x] = source[x]
    <2>1. pc'[x] \notin Early /\ task'[x] = task[x]
      BY <1>2, TransferPlaces DEF Advanced, Early
    <2>2. ResolveDestination(w) => source' = source
      BY DEF ResolveDestination, transferVars
    <2>3. source'[x] = source[x]
      BY <1>2, <2>2 DEF TransferStep, RequestTransfer, InspectSource, RenameSource, CopySource,
         SyncTransfer, CompareSource, EquateTrees, RemoveSource, transferVars, Goto, Early, TransferTypes
    <2> QED
      BY <2>1, <2>3
  <1> QED
    BY <1>1, <1>2, PublishStepIsPublish DEF TNext, Next, tvars, transferVars

\* An empty name is filled by a request for it only.
LEMMA Refills ==
  ASSUME TransferTypes, [TNext]_tvars, NEW n \in Name, dir[n] = NoFile, dir'[n] # NoFile
  PROVE  \E x \in Worker : pc[x] \in {"publishing", "exchanging", "restoring", "renaming"}
                           /\ task[x].name = n
  <1> USE DEF TransferTypes, TypeOK, fsVars
  <1>1. ASSUME NEW w \in Worker, PublishNew(w) \/ Exchange(w) \/ Restore(w)
        PROVE  pc[w] \in {"publishing", "exchanging", "restoring"} /\ task[w].name = n
    BY <1>1 DEF PublishNew, Exchange, Restore, Swap, Goto, Return
  <1>2. ASSUME NEW w \in Worker, RenameSource(w)
        PROVE  pc[w] = "renaming" /\ task[w].name = n
    BY <1>2 DEF RenameSource, Goto, Return
  <1>3. ASSUME NEW w \in Worker, PublishStep(w), ~PublishNew(w), ~Exchange(w), ~Restore(w) PROVE FALSE
    BY <1>3 DEF PublishStep, Request, OpenOriginal, LockOriginal, CreateStaging, WriteStaging, FinalCheck,
       Compare, Verify, Recheck, SyncParent, Finish, Cancel, Kill
  <1>4. ASSUME NEW w \in Worker, TransferStep(w), ~RenameSource(w) PROVE FALSE
    <2>1. ~ResolveDestination(w)
      BY DEF ResolveDestination
    <2>2. ~RemoveSource(w)
      BY DEF RemoveSource, SourceGone
    <2> QED
      BY <1>4, <2>1, <2>2 DEF TransferStep, RequestTransfer, InspectSource, CopySource,
         SyncTransfer, CompareSource, EquateTrees
  <1>5. ASSUME NEW m \in Name, Delete(m) PROVE FALSE
    BY <1>5 DEF Delete
  <1>6. ASSUME NEW f \in File, Touch(f) PROVE FALSE
    BY <1>6 DEF Touch
  <1>7. ~UNCHANGED tvars
    BY DEF tvars, vars
  <1> QED
    BY <1>1, <1>2, <1>3, <1>4, <1>5, <1>6, <1>7 DEF TNext

\* A move that now reports success has just emptied its source name, which is not the name it
\* moved to.
LEMMA NewlyMoved ==
  ASSUME TransferBase, [TNext]_tvars, NEW v \in Worker, Vacated(v),
         outcome[v] # "ok", outcome'[v] = "ok", IsMove(v)'
  PROVE  /\ pc[v] \in {"renaming", "removing"}
         /\ dir[source[v]] # NoFile /\ dir'[source[v]] = NoFile
         /\ task[v].name # source[v]
         /\ \A w \in Worker \ {v} : outcome'[w] = outcome[w]
  <1> USE DEF TransferBase, TransferTypes, TypeOK
  <1>1. ASSUME NEW w \in Worker, PublishStep(w) PROVE FALSE
    <2>1. SyncParent(v) /\ v \notin Mover
      BY <1>1 DEF PublishStep, Request, OpenOriginal, LockOriginal, CreateStaging, WriteStaging,
         WriteFailed,
         FinalCheck, PublishNew, Compare, Exchange, Verify, Recheck, Restore, SyncParent, Finish, Cancel, Kill,
         Goto, Return, fsVars
    <2>2. task' = task
      BY <2>1 DEF SyncParent
    <2> QED
      BY <2>1, <2>2 DEF Vacated, IsMove
  <1>2. ~(\E n \in Name : Delete(n)) /\ ~(\E f \in File : Touch(f)) /\ ~UNCHANGED tvars
    BY DEF Delete, Touch, tvars, vars, workerVars
  <1>3. PICK w \in Worker : TransferStep(w)
    BY <1>1, <1>2 DEF TNext
  <1>4. v = w /\ Advanced(v) /\ \A x \in Worker \ {v} : outcome'[x] = outcome[x]
    BY <1>3, TransferPlaces
  <1>5. pc[v] \in {"renaming", "removing", "syncing"}
    BY <1>4 DEF Advanced
  <1>6. task' = task
    BY <1>3, <1>4, <1>5, TransferPlaces
  <1>7. IsMove(v)
    BY <1>6 DEF IsMove
  <1>8. /\ pc[v] \in {"renaming", "removing"} /\ dir[source[v]] # NoFile /\ dir'[source[v]] = NoFile
        /\ pc[v] = "renaming" => dir[task[v].name] = NoFile
    BY <1>4, <1>7 DEF Advanced
  <1> QED
    BY <1>4, <1>7, <1>8 DEF Vacated

\* Nobody but a request for a name fills it after a move has emptied it.
LEMMA VacatedStep ==
  ASSUME TransferBase, [TNext]_tvars, NEW v \in Worker, Vacated(v)
  PROVE  Vacated(v)'
  <1> USE DEF TransferBase, TransferTypes, TypeOK
  <1>o. OwnStage(v) /\ source[v] \in Name
    BY DEF Base
  <1>1. CASE pc[v] \notin Early
    <2>1. pc'[v] \notin Early /\ task'[v] = task[v] /\ source'[v] = source[v]
      BY <1>1, AimStays
    <2>2. ASSUME IsMove(v), outcome'[v] = "ok"
          PROVE  /\ task[v].name # source[v]
                 /\ dir'[source[v]] = NoFile \/ \E x \in Worker \ {v} : Aimed(x, source[v])'
      <3>1. CASE outcome[v] # "ok"
        BY <2>1, <2>2, <3>1, NewlyMoved DEF IsMove
      <3>2. CASE outcome[v] = "ok"
        <4>1. pc[v] \in {"cleaning", "done", "killed"}
          BY <1>o, <3>2 DEF OwnStage
        <4>2. \A x \in Worker : pc[x] \notin Early /\ task[x].name = source[v] => Aimed(x, source[v])'
          BY <2>1, AimStays DEF Aimed
        <4>3. CASE dir[source[v]] # NoFile
          BY <2>2, <3>2, <4>2, <4>3 DEF Vacated, Aimed
        <4>4. CASE dir[source[v]] = NoFile /\ dir'[source[v]] # NoFile
          <5>1. PICK x \in Worker : pc[x] \in {"publishing", "exchanging", "restoring", "renaming"}
                                   /\ task[x].name = source[v]
            BY <1>o, <4>4, Refills
          <5> QED
            BY <2>2, <3>2, <4>1, <4>2, <5>1 DEF Vacated, Early
        <4> QED
          BY <2>2, <3>2, <4>3, <4>4 DEF Vacated
      <3> QED
        BY <3>1, <3>2
    <2>3. ASSUME IsMove(v), task[v].name = source[v]
          PROVE  pc'[v] \in {"renaming", "cleaning", "done", "killed"}
      <3>1. pc[v] \in {"renaming", "cleaning", "done", "killed"}
        BY <2>3 DEF Vacated
      <3>2. ASSUME NEW w \in Worker, TransferStep(w)
            PROVE  pc'[v] \in {"renaming", "cleaning", "done", "killed"}
        <4>1. CASE RenameSource(v)
          BY <2>3, <4>1 DEF RenameSource, Goto, Return
        <4>2. CASE w # v
          BY <3>1, <3>2, <4>2, TransferPlaces
        <4>3. CASE w = v /\ ~RenameSource(v)
          <5>1. pc[v] = "resolving" \/ ~ResolveDestination(v)
            BY Resolved DEF ResolvedTo
          <5> QED
            BY <3>1, <3>2, <4>3, <5>1 DEF TransferStep, RequestTransfer, InspectSource,
               CopySource, WriteFailed, SyncTransfer, CompareSource, EquateTrees, RemoveSource, SourceGone,
               Goto, Return
        <4> QED
          BY <4>1, <4>2, <4>3
      <3>3. ASSUME NEW w \in Worker, PublishStep(w)
            PROVE  pc'[v] \in {"renaming", "cleaning", "done", "killed"}
        BY <3>1, <3>3 DEF PublishStep, Request, OpenOriginal, LockOriginal, CreateStaging, WriteStaging,
           WriteFailed,
           FinalCheck, PublishNew, Compare, Exchange, Verify, Recheck, Restore, SyncParent, Finish, Cancel, Kill,
           Goto, Return
      <3> QED
        BY <3>1, <3>2, <3>3 DEF TNext, Delete, Touch, tvars, vars, workerVars
    <2> QED
      BY <2>1, <2>2, <2>3 DEF Vacated, IsMove
  <1>2. CASE pc[v] \in Early
    <2>1. outcome[v] = "none"
      BY <1>o, <1>2 DEF OwnStage, Early
    <2>2. ~(IsMove(v)' /\ outcome'[v] = "ok")
      BY <1>2, <2>1, NewlyMoved DEF Early
    <2>3. ASSUME NEW w \in Worker, PublishStep(w), ~Request(v)
          PROVE  task'[v] = task[v] /\ pc'[v] \in {pc[v], "killed"} /\ source'[v] = source[v]
      BY <1>2, <2>3 DEF PublishStep, Request, OpenOriginal, LockOriginal, CreateStaging, WriteStaging,
         WriteFailed,
         FinalCheck, PublishNew, Compare, Exchange, Verify, Recheck, Restore, SyncParent, Finish, Cancel, Kill,
         Goto, Return, Early, transferVars
    <2>4. ASSUME NEW w \in Worker, TransferStep(w), w # v
          PROVE  task'[v] = task[v] /\ pc'[v] = pc[v] /\ source'[v] = source[v]
      <3>1. source'[v] = source[v]
        <4>1. ResolveDestination(w) => source' = source
          BY DEF ResolveDestination, transferVars
        <4> QED
          BY <2>4, <4>1 DEF TransferStep, RequestTransfer, InspectSource, RenameSource, CopySource,
             SyncTransfer, CompareSource, EquateTrees, RemoveSource, transferVars
      <3> QED
        BY <2>4, <3>1, TransferPlaces
    <2>5. CASE task'[v] = task[v] /\ pc'[v] \in {pc[v], "killed"} /\ source'[v] = source[v]
      BY <1>2, <2>2, <2>5 DEF Vacated, IsMove, Early
    <2>6. CASE RequestTransfer(v)
      <3>1. v \in Mover /\ task'[v].name # source'[v]
        BY <2>6 DEF RequestTransfer
      <3> QED
        BY <2>2, <3>1 DEF Vacated
    <2>7. CASE Request(v)
      <3>1. task'[v].kind \in {"upload", "edit"}
        BY <2>7 DEF Request
      <3> QED
        BY <3>1 DEF Vacated, IsMove
    <2>8. CASE InspectSource(v)
      BY <1>2, <2>2, <2>8 DEF InspectSource, Vacated, IsMove, Early, Goto, Return, fsVars
    <2>9. CASE ResolveDestination(v)
      <3>1. ResolvedTo(v)
        BY <2>9, Resolved
      <3>2. source'[v] = source[v] /\ task'[v].kind = task[v].kind /\ pc[v] = "resolving"
            /\ pc'[v] \in {"renaming", "staging", "cleaning"}
        BY <3>1 DEF ResolvedTo, transferVars
      <3>3. ASSUME IsMove(v), pc'[v] = "staging" PROVE task'[v].name # source[v]
        <4>1. task'[v].name = task[v].name
          BY <3>1, <3>3 DEF ResolvedTo
        <4> QED
          BY <3>2, <3>3, <4>1 DEF Vacated
      <3> QED
        BY <2>2, <3>2, <3>3 DEF Vacated, IsMove
    <2>10. ASSUME NEW w \in Worker, TransferStep(w) PROVE Vacated(v)'
      <3>1. CASE w = v
        BY <1>2, <2>6, <2>8, <2>9, <2>10, <3>1 DEF TransferStep, RenameSource, CopySource, WriteFailed,
          SyncTransfer, CompareSource, EquateTrees, RemoveSource, SourceGone, Goto, Return, Early
      <3>2. CASE w # v
        BY <2>4, <2>5, <2>10, <3>2
      <3> QED
        BY <3>1, <3>2
    <2>11. ASSUME NEW w \in Worker, PublishStep(w) PROVE Vacated(v)'
      BY <2>3, <2>5, <2>7, <2>11
    <2>12. ASSUME UNCHANGED workerVars, UNCHANGED transferVars PROVE Vacated(v)'
      BY <2>5, <2>12 DEF workerVars, transferVars
    <2> QED
      BY <2>10, <2>11, <2>12 DEF TNext, Delete, Touch, tvars, vars
  <1> QED
    BY <1>1, <1>2

\* The second of two moves finds something at the name only when a third request puts it there.
LEMMA SecondMove ==
  ASSUME TransferBase, [TNext]_tvars, \A u \in Worker : Vacated(u), NEW v \in Worker, NEW w \in Worker,
         outcome[v] = "ok", outcome[w] # "ok", MovedTwice(v, w)'
  PROVE  ThirdAt(v, w)'
  <1>0. pc[v] \in {"cleaning", "done", "killed"}
    BY DEF TransferBase, Base, OwnStage
  <1>1. /\ pc[w] \in {"renaming", "removing"}
        /\ dir[source[w]] # NoFile
        /\ task[w].name # source[w]
    BY NewlyMoved DEF MovedTwice
  <1>2. task'[v] = task[v] /\ source'[v] = source[v] /\ source'[w] = source[w]
    BY <1>0, <1>1, AimStays DEF Early, TransferBase
  <1>3. source[v] = source[w] /\ IsMove(v) /\ v # w
    BY <1>2 DEF MovedTwice, IsMove
  <1>4. PICK x \in Worker \ {v} : Aimed(x, source[v])
    BY <1>1, <1>3 DEF Vacated
  <1>5. x # w
    BY <1>1, <1>3, <1>4 DEF Aimed
  <1>6. Aimed(x, source[v])'
    BY <1>2, <1>4, AimStays DEF Aimed, TransferBase
  <1> QED
    BY <1>5, <1>6 DEF ThirdAt

\* After a successful move its source name is empty, or another request is aimed at it.
LEMMA VacateInvariance == TSpec => []VacateInv
  <1>1. TInit => VacateInv
    <2> SUFFICES ASSUME TInit PROVE VacateInv
      OBVIOUS
    <2>1. \A v \in Worker : outcome[v] = "none" /\ task[v].kind = "upload"
      BY DEF TInit, Init
    <2> QED
      BY <2>1, TransferAssumption DEF VacateInv, Vacated, MovedTwice, IsMove
  <1>2. TransferBase /\ VacateInv /\ [TNext]_tvars => VacateInv'
    <2> SUFFICES ASSUME TransferBase, VacateInv, [TNext]_tvars PROVE VacateInv'
      OBVIOUS
    <2>1. \A v \in Worker : Vacated(v)'
      BY VacatedStep DEF VacateInv
    <2>2. ASSUME NEW v \in Mover, NEW w \in Mover, MovedTwice(v, w)' PROVE ThirdAt(v, w)'
      <3>0. v \in Worker /\ w \in Worker
        BY DEF TransferBase, TransferTypes
      <3>1. CASE outcome[v] = "ok" /\ outcome[w] = "ok"
        <4>1. \A x \in {v, w} : pc[x] \notin Early
          BY <3>0, <3>1 DEF TransferBase, Base, OwnStage, Early
        <4>2. \A x \in {v, w} : task'[x] = task[x] /\ source'[x] = source[x]
          BY <3>0, <4>1, AimStays DEF TransferBase
        <4>3. MovedTwice(v, w)
          BY <2>2, <3>1, <4>2 DEF MovedTwice, IsMove
        <4>4. PICK x \in Worker \ {v, w} : Aimed(x, source[v])
          BY <4>3 DEF VacateInv, ThirdAt
        <4>5. Aimed(x, source[v])'
          BY <4>2, <4>4, AimStays DEF Aimed, TransferBase
        <4> QED
          BY <4>5 DEF ThirdAt
      <3>2. CASE outcome[v] = "ok" /\ outcome[w] # "ok"
        BY <2>2, <3>0, <3>2, SecondMove DEF VacateInv
      <3>3. CASE outcome[v] # "ok" /\ outcome[w] = "ok"
        <4>1. MovedTwice(w, v)'
          BY <2>2 DEF MovedTwice
        <4>2. ThirdAt(w, v)'
          BY <3>0, <3>3, <4>1, SecondMove DEF VacateInv
        <4> QED
          BY <2>2, <4>2 DEF ThirdAt, MovedTwice
      <3>4. CASE outcome[v] # "ok" /\ outcome[w] # "ok"
        <4>1. outcome'[w] = outcome[w]
          BY <2>2, <3>0, <3>4, NewlyMoved DEF VacateInv, MovedTwice
        <4> QED
          BY <2>2, <3>4, <4>1 DEF MovedTwice
      <3> QED
        BY <3>1, <3>2, <3>3, <3>4
    <2> QED
      BY <2>1, <2>2 DEF VacateInv
  <1> QED
    BY <1>1, <1>2, TransferBaseInvariance, PTL DEF TSpec

\* Two moves of one file from one name both report success only where a third request puts
\* something at that name: two moves alone, whatever is asked of other names, killed,
\* deleted or written to, never do (transfer.go: rename and removeTree of a source that
\* is gone fail).
THEOREM MovedOnceOnly == TSpec => [](Contested \/ MovedOnce)
  <1>1. VacateInv => Contested \/ MovedOnce
    BY DEF VacateInv, MovedOnce, Contested, MovedTwice
  <1> QED
    BY <1>1, VacateInvariance, PTL

-----------------------------------------------------------------------------
(* Two requests for a name, when transfers take part. *)

\* Three requests for one name stay three requests for it.
LEMMA TransferCrowdStep == ASSUME TransferTypes, [TNext]_tvars, Crowded PROVE Crowded'
  <1>1. PICK u, v, w \in Worker : pc[w] \notin Early /\ u # v /\ Rival(u, w) /\ Rival(v, w)
    BY DEF Crowded
  <1>2. \A x \in {u, v, w} : pc'[x] \notin Early /\ task'[x] = task[x]
    BY <1>1, AimStays DEF Rival
  <1>3. Rival(u, w)' /\ Rival(v, w)'
    BY <1>1, <1>2 DEF Rival
  <1> QED
    BY <1>1, <1>2, <1>3 DEF Crowded

\* A request that is ahead of another one stays so.
LEMMA TransferBeatenStep ==
  ASSUME TransferBase, NEW w \in Worker, TransferStep(w), NEW u \in Worker, pc[u] \notin Early, Beaten(u)
  PROVE  Beaten(u)'
  <1>1. PICK v \in Worker : Rival(v, u) /\ Spent(v)
    BY DEF Beaten
  <1>2. Rival(v, u)'
    BY <1>1, AimStays DEF Rival, TransferBase, TNext
  <1>3. Spent(v)'
    <2>1. UNCHANGED <<stamp, stage>>
      BY TransferMoves DEF TransferBase
    <2>2. CASE v # w
      <3>1. pc'[v] = pc[v] /\ outcome'[v] = outcome[v] /\ task'[v] = task[v]
        BY <2>2, TransferPlaces DEF TransferBase
      <3> QED
        BY <1>1, <2>1, <3>1 DEF Spent, Won, RightOne, Revision, Expected
    <2>3. CASE v = w
      <3>1. Advanced(v) /\ OwnStage(v)
        BY <2>3, TransferPlaces DEF TransferBase, Base
      <3>2. pc[v] \in {"syncing", "comparing", "equating", "removing"}
        BY <1>1, <3>1 DEF Advanced, Spent, Won, OwnStage
      <3> QED
        BY <3>1, <3>2 DEF Advanced, Spent, Won
    <2> QED
      BY <2>2, <2>3
  <1> QED
    BY <1>2, <1>3 DEF Beaten

\* A rename of a move is only ahead of the other request for the name, as a publication is.
LEMMA TransferDuelStep ==
  ASSUME TransferBase, NEW w \in Worker, TransferStep(w), ~Crowded, \A v \in Worker : Duel(v)
  PROVE  \A u \in Worker : Duel(u)'
  <1> SUFFICES ASSUME NEW u \in Worker PROVE Duel(u)'
    OBVIOUS
  <1>0. Duel(u) /\ OwnStage(u) /\ OwnStage(w) /\ task[u].name \in Name /\ task[w].name \in Name
    BY DEF TransferBase, TransferTypes, TypeOK, Task, Base
  <1>1. UNCHANGED <<stamp, stage>> /\ Advanced(w)
        /\ \A v \in Worker \ {w} : pc'[v] = pc[v] /\ outcome'[v] = outcome[v] /\ task'[v] = task[v]
    BY TransferMoves, TransferPlaces DEF TransferBase
  <1>2. CASE u = w
    <2>1. pc'[u] \notin {"exchanging", "verifying", "rechecking", "restoring"}
      BY <1>1, <1>2 DEF Advanced
    <2>2. outcome'[u] # "rolledback"
      BY <1>0, <1>1, <1>2 DEF Advanced, OwnStage
    <2> QED
      BY <2>1, <2>2 DEF Duel, Displacing
  <1>3. CASE u # w
    <2>0. /\ pc'[u] = pc[u] /\ outcome'[u] = outcome[u] /\ task'[u] = task[u] /\ stage'[u] = stage[u]
          /\ Expected(u)' = Expected(u)
      BY <1>1, <1>3 DEF Expected
    <2>1. Displacing(u)' <=> Displacing(u)
      BY <1>1, <2>0 DEF Displacing, Revision
    <2>2. pc[u] \notin Early /\ Beaten(u) => Beaten(u)'
      BY TransferBeatenStep
    <2>3. Displacing(u)' => Beaten(u)'
      BY <1>0, <2>1, <2>2 DEF Displacing, Duel, Early
    <2>4. CASE dir'[task[u].name] \in {dir[task[u].name], NoFile}
      BY <1>0, <2>0, <2>2, <2>3, <2>4 DEF Duel, Early
    <2>5. CASE dir'[task[u].name] \notin {dir[task[u].name], NoFile}
      <3>1. /\ pc[w] = "renaming" /\ task[w].name = task[u].name
            /\ outcome'[w] \in {"ok", "unsynced"} /\ pc'[w] = "cleaning"
        <4>1. ~ResolveDestination(w)
          BY <2>5 DEF ResolveDestination, fsVars
        <4>2. ~RemoveSource(w)
          BY <1>0, <2>5 DEF RemoveSource, SourceGone, TransferBase, TransferTypes, TypeOK
        <4>3. RenameSource(w)
          BY <2>5, <4>1, <4>2 DEF TransferStep, RequestTransfer, InspectSource, CopySource, SyncTransfer,
             CompareSource, EquateTrees, fsVars
        <4> QED
          BY <1>0, <2>5, <4>3 DEF RenameSource, Goto, Return, TransferBase, TransferTypes, TypeOK
      <3>2. task'[w] = task[w]
        BY <3>1, TransferPlaces DEF TransferBase
      <3>3. Beaten(u)'
        BY <1>3, <2>0, <3>1, <3>2 DEF Beaten, Rival, Spent, Won, Early
      <3>4. pc[u] # "restoring"
        <4>1. ~Spent(w) /\ Rival(w, u)
          BY <1>0, <1>3, <3>1 DEF Spent, Won, OwnStage, Rival, Early
        <4>2. pc[u] \notin Early => ~Beaten(u)
          BY <4>1, NotBeaten
        <4> QED
          BY <1>0, <4>2 DEF Duel, Displacing, Early
      <3> QED
        BY <1>0, <1>1, <2>0, <3>3, <3>4 DEF Duel
    <2> QED
      BY <2>4, <2>5
  <1> QED
    BY <1>2, <1>3

-----------------------------------------------------------------------------
(* What a move copied survives the removal of its source. *)

\* Workers whose file has not been public yet.
Fresh == Unborn \cup {w \in Worker : pc[w] \in {"writing", "checking", "publishing", "exchanging"}}

\* From the copy of the source to the end.
Copied == {"checking", "publishing", "exchanging", "verifying", "rechecking", "restoring",
           "syncing", "comparing", "equating", "removing"}

\* What a transfer inspected had been public, and its own file has the same contents.
Sourced(w) ==
  /\ before[w][1] \notin Fresh
  /\ w \in Unborn => w \notin complete
  /\ pc[w] \in {"inspecting", "resolving", "renaming", "comparing", "equating", "removing"} => w \in Mover
  /\ w \in Mover => pc[w] \notin {"opening", "locking"}
  /\ w \in Mover /\ pc[w] \in {"resolving", "renaming", "staging", "writing"} => before[w][1] # NoFile
  /\ w \in Mover /\ pc[w] \in Copied => Contents(w) = Contents(before[w][1])
  /\ removed[w] # NoRevision => pc[w] \in {"cleaning", "done", "killed"}

\* Files that are there from the start, or of which a request has replied that they are public.
Committed == Original \cup {w \in complete \cap Worker : outcome[w] \in {"ok", "unsynced", "kept"}}
\* Files that a transfer may count on.
Tracked == Original \cup {w \in complete \cap Worker : Out(w)}

\* With a file, everything that was copied from it.
Closed(D) == \A w \in Worker : before[w][1] \in D => w \in D

\* Nothing is copied from its own copies.
Acyclic == \A w \in Worker : \E D \in SUBSET File : Closed(D) /\ w \in D /\ before[w][1] \notin D

\* Among the copies of a file, itself included, one with its contents is accounted for.
Leafy ==
  \A f \in Tracked, D \in SUBSET File :
    f \in D /\ Closed(D) =>
      \E g \in (Committed \cup {f}) \cap D : Contents(g) = Contents(f) /\ Accounted(g)

CustodyInv ==
  /\ \A w \in Worker : Sourced(w)
  /\ Acyclic
  /\ Crowded \/ \A w \in Worker : Duel(w)
  /\ Crowded \/ ~OnlyComparedRemoved \/ Leafy

\* Which steps change what a transfer remembers, and where a file becomes complete.
LEMMA Remembered ==
  ASSUME TransferTypes, History, [TNext]_tvars, NEW u \in Worker
  PROVE  /\ InspectSource(u) \/ before'[u] = before[u]
         /\ CopySource(u) \/ copied'[u] = copied[u]
         /\ RemoveSource(u) \/ removed'[u] = removed[u]
  <1> USE DEF TransferTypes, TypeOK, History
  <1>1. ASSUME NEW w \in Worker, TransferStep(w)
        PROVE  /\ InspectSource(u) \/ before'[u] = before[u]
               /\ CopySource(u) \/ copied'[u] = copied[u]
               /\ RemoveSource(u) \/ removed'[u] = removed[u]
    <2>1. ResolveDestination(w) => UNCHANGED transferVars
      BY DEF ResolveDestination
    <2>2. CASE InspectSource(w)
      BY <2>2 DEF InspectSource
    <2>3. CASE CopySource(w)
      BY <2>3 DEF CopySource
    <2>4. CASE RemoveSource(w)
      BY <2>4 DEF RemoveSource
    <2> QED
      BY <1>1, <2>1, <2>2, <2>3, <2>4 DEF TransferStep, RequestTransfer, RenameSource, SyncTransfer,
         CompareSource, EquateTrees, transferVars
  <1> QED
    BY <1>1 DEF TNext, PublishStep, tvars, transferVars

\* How the step of one worker changes its own place; those of others do not.
Onward(w) ==
  \/ pc'[w] = pc[w]
  \/ pc'[w] \in {"cleaning", "done", "killed"}
  \/ w \notin Mover /\ <<pc[w], pc'[w]>> \in
       {<<"idle", "opening">>, <<"idle", "staging">>, <<"writing", "checking">>}
  \/ w \in Mover /\ pc[w] = "idle" /\ pc'[w] = "inspecting"
  \/ CopySource(w) /\ w \in Mover /\ pc[w] = "writing" /\ pc'[w] = "checking"
  \/ InspectSource(w) /\ pc[w] = "inspecting" /\ pc'[w] = "resolving" /\ dir[source[w]] # NoFile
  \/ w \in Mover /\ pc[w] = "syncing" /\ pc'[w] = "comparing"
  \/ <<pc[w], pc'[w]>> \in
       {<<"opening", "locking">>, <<"locking", "staging">>, <<"staging", "writing">>,
        <<"checking", "publishing">>, <<"publishing", "exchanging">>, <<"publishing", "syncing">>,
        <<"exchanging", "verifying">>, <<"verifying", "syncing">>, <<"verifying", "rechecking">>,
        <<"rechecking", "restoring">>, <<"resolving", "renaming">>, <<"resolving", "staging">>,
        <<"renaming", "staging">>, <<"comparing", "equating">>, <<"equating", "removing">>}

\* A request only goes on: its reply, its task and the file it wrote are not taken back.
LEMMA Onwards ==
  ASSUME TransferTypes, [TNext]_tvars, NEW u \in Worker
  PROVE  /\ Onward(u)
         /\ complete \subseteq complete'
         /\ u \in complete' /\ u \notin complete => pc[u] = "writing" /\ pc'[u] \in {"checking"}
  <1> DEFINE Goal == /\ Onward(u)
                     /\ complete \subseteq complete'
                     /\ u \in complete' /\ u \notin complete => pc[u] = "writing" /\ pc'[u] \in {"checking"}
  <1> USE DEF TransferTypes, TypeOK, Goto, Return, fsVars, workerVars
  <1>1. ASSUME NEW w \in Worker, w \notin Mover, Request(w) PROVE Goal
    BY <1>1 DEF Request, Onward
  <1>2. ASSUME NEW w \in Worker, w \notin Mover, WriteStaging(w) \/ SyncParent(w) PROVE Goal
    BY <1>2 DEF WriteStaging, WriteFailed, SyncParent, Onward
  <1>3. ASSUME NEW w \in Worker, OpenOriginal(w) \/ LockOriginal(w) \/ CreateStaging(w) \/ FinalCheck(w)
        PROVE  Goal
    BY <1>3 DEF OpenOriginal, LockOriginal, CreateStaging, FinalCheck, Onward
  <1>4. ASSUME NEW w \in Worker, PublishNew(w) \/ Compare(w) \/ Exchange(w) \/ Verify(w) PROVE Goal
    BY <1>4 DEF PublishNew, Compare, Exchange, Verify, Onward
  <1>5. ASSUME NEW w \in Worker, Recheck(w) \/ Restore(w) \/ Finish(w) \/ Cancel(w) \/ Kill(w)
        PROVE  Goal
    BY <1>5 DEF Recheck, Restore, Finish, Cancel, Kill, Onward
  <1>6. ASSUME NEW w \in Worker, TransferStep(w) PROVE Goal
    <2>1. CASE RequestTransfer(w)
      BY <2>1 DEF RequestTransfer, Onward
    <2>2. CASE InspectSource(w)
      BY <2>2 DEF InspectSource, Src, Onward
    <2>3. CASE ResolveDestination(w)
      <3>1. ResolvedTo(w)
        BY <2>3, Resolved
      <3> QED
        BY <3>1 DEF ResolvedTo, Onward
    <2>4. CASE RenameSource(w)
      BY <2>4 DEF RenameSource, Onward
    <2>5. CASE CopySource(w)
      <3>1. CASE pc'[w] = "checking"
        BY <2>5, <3>1 DEF CopySource, WriteFailed, Onward
      <3>2. CASE pc'[w] # "checking"
        BY <2>5, <3>2 DEF CopySource, WriteFailed, Onward
      <3> QED
        BY <3>1, <3>2
    <2>6. CASE SyncTransfer(w) \/ CompareSource(w) \/ EquateTrees(w)
      BY <2>6 DEF SyncTransfer, CompareSource, EquateTrees, Onward
    <2>7. CASE RemoveSource(w)
      BY <2>7 DEF RemoveSource, SourceGone, Onward
    <2> QED
      BY <1>6, <2>1, <2>2, <2>3, <2>4, <2>5, <2>6, <2>7 DEF TransferStep
  <1>7. ASSUME NEW n \in Name, Delete(n) PROVE Goal
    BY <1>7 DEF Delete, Onward
  <1>8. ASSUME NEW f \in File, Touch(f) PROVE Goal
    BY <1>8 DEF Touch, Onward
  <1>9. ASSUME UNCHANGED tvars PROVE Goal
    BY <1>9 DEF tvars, vars, Onward
  <1> QED
    BY <1>1, <1>2, <1>3, <1>4, <1>5, <1>6, <1>7, <1>8, <1>9 DEF TNext, PublishStep

\* No file becomes fresh again.
LEMMA FreshStep ==
  ASSUME TransferTypes, [TNext]_tvars
  PROVE  Fresh' \subseteq Fresh /\ Unborn' \subseteq Unborn
  <1> SUFFICES ASSUME NEW u \in Worker
               PROVE  (u \in Fresh' => u \in Fresh) /\ (u \in Unborn' => u \in Unborn)
    BY DEF Fresh, Unborn
  <1>1. Onward(u)
    BY Onwards
  <1>2. pc'[u] # pc[u] /\ u \in Fresh' => pc[u] \in
          {"idle", "opening", "locking", "staging", "inspecting", "resolving", "renaming", "writing",
           "checking", "publishing"}
    BY <1>1 DEF Onward, Fresh, Unborn
  <1>3. pc'[u] # pc[u] /\ u \in Unborn' => pc[u] \in
          {"idle", "opening", "locking", "staging", "inspecting", "resolving", "renaming"}
    BY <1>1 DEF Onward, Unborn
  <1> QED
    BY <1>2, <1>3 DEF Fresh, Unborn

\* Nothing that is at a public name is fresh.
LEMMA PublicNotFresh ==
  ASSUME Base, NEW n \in Name
  PROVE  dir[n] \notin Fresh
  BY PublishAssumption DEF Base, OnlyBorn, OnePlace, OwnStage, Fresh

\* A file is not empty of contents, and keeps them once it has been public.
LEMMA SomeContents == ASSUME NoFile \notin File, NEW f \in File PROVE Contents(f) # NoRevision
  BY DEF Contents, Revision, NoRevision

\* Without writes in place a file that is there keeps its contents.
LEMMA ContentsKept ==
  ASSUME TransferTypes, TransferTypes', History, [TNext]_tvars, MaxTouches = 0, NEW f \in Entry,
         f \notin Worker \/ ~CopySource(f)
  PROVE  Contents(f)' = Contents(f)
  <1>1. stamp[f] = 0 /\ stamp'[f] = 0
    BY DEF TransferTypes, TypeOK
  <1>2. f \in Worker => copied'[f] = copied[f]
    BY Remembered
  <1> QED
    BY <1>1, <1>2 DEF Contents, Revision

\* What a transfer inspected stays what its copy was made from.
LEMMA SourcedStep ==
  ASSUME TransferBase, TransferTypes', [TNext]_tvars, MaxTouches = 0, \A w \in Worker : Sourced(w)
  PROVE  \A u \in Worker : Sourced(u)'
  <1> SUFFICES ASSUME NEW u \in Worker PROVE Sourced(u)'
    OBVIOUS
  <1>0. /\ Sourced(u) /\ TransferTypes /\ History /\ Base
        /\ before[u] \in Seen /\ source[u] \in Name /\ dir[source[u]] \in Entry
    BY DEF TransferBase, TransferTypes, TypeOK, History
  <1>1. /\ InspectSource(u) \/ before'[u] = before[u]
        /\ CopySource(u) \/ copied'[u] = copied[u]
        /\ RemoveSource(u) \/ removed'[u] = removed[u]
    BY <1>0, Remembered
  <1>2. /\ Onward(u)
        /\ complete \subseteq complete'
        /\ u \in complete' /\ u \notin complete => pc[u] = "writing" /\ pc'[u] \in {"checking"}
    BY <1>0, Onwards
  <1>3. Fresh' \subseteq Fresh /\ Unborn' \subseteq Unborn
    BY <1>0, FreshStep
  <1>4. InspectSource(u) => /\ pc[u] = "inspecting" /\ pc'[u] \in {"cleaning", "resolving"}
                            /\ pc'[u] = "resolving" => dir[source[u]] # NoFile
                            /\ before'[u][1] = dir[source[u]]
    BY <1>0 DEF InspectSource, Goto, Return, Src, Revision, TransferTypes, TypeOK, History
  <1>5. before'[u][1] \notin Fresh'
    <2>1. dir[source[u]] \notin Fresh
      BY <1>0, PublicNotFresh
    <2> QED
      BY <1>0, <1>1, <1>3, <1>4, <2>1 DEF Sourced
  <1>6. u \in Unborn' => u \notin complete'
    BY <1>0, <1>2, <1>3 DEF Sourced, Unborn
  <1>7. pc'[u] \in {"inspecting", "resolving", "renaming", "comparing", "equating", "removing"} => u \in Mover
    BY <1>0, <1>2 DEF Sourced, Onward
  <1>8. u \in Mover => pc'[u] \notin {"opening", "locking"}
    BY <1>0, <1>2 DEF Sourced, Onward
  <1>9. u \in Mover /\ pc'[u] \in {"resolving", "renaming", "staging", "writing"} => before'[u][1] # NoFile
    <2>1. CASE InspectSource(u)
      BY <1>4, <2>1
    <2>2. CASE ~InspectSource(u)
      BY <1>0, <1>1, <1>2, <2>2 DEF Sourced, Onward
    <2> QED
      BY <2>1, <2>2
  <1>10. ASSUME u \in Mover, pc'[u] \in Copied PROVE Contents(u)' = Contents(before[u][1])'
    <2>0. PICK h : h = before[u][1]
      OBVIOUS
    <2>1. h \in Entry /\ h \notin Fresh
      BY <1>0, <2>0 DEF Sourced, Seen
    <2>2. h \notin Worker \/ ~CopySource(h)
      BY <2>1 DEF CopySource, WriteFailed, Goto, Return, Fresh
    <2>3. Contents(h)' = Contents(h)
      BY <1>0, <2>1, <2>2, ContentsKept
    <2>4. before'[u][1] = h
      BY <1>1, <1>4, <1>10, <2>0 DEF Copied
    <2>5. CASE CopySource(u)
      <3>1. pc[u] = "writing" /\ Unchanged(u) /\ copied'[u] = Contents(Src(u))
        BY <1>0, <1>10, <2>5 DEF CopySource, WriteFailed, Goto, Return, Copied, TransferTypes, TypeOK,
           History
      <3>2. h = Src(u) /\ h # NoFile
        BY <1>0, <1>10, <2>0, <3>1 DEF Unchanged, Revision, Sourced
      <3>3. Contents(h) # NoRevision
        BY <2>1, <3>2, SomeContents, PublishAssumption DEF Entry, File
      <3>4. stamp'[u] = 0
        BY <1>0 DEF TransferTypes, TypeOK, Entry, File
      <3>5. Contents(u)' = copied'[u]
        BY <3>1, <3>2, <3>3, <3>4 DEF Contents
      <3> QED
        BY <2>3, <2>4, <3>1, <3>2, <3>5
    <2>6. CASE ~CopySource(u)
      <3>1. Contents(u)' = Contents(u)
        BY <1>0, <2>6, ContentsKept DEF Entry, File
      <3>2. pc[u] \in Copied
        BY <1>2, <1>10, <2>6 DEF Onward, Copied
      <3> QED
        BY <1>0, <1>10, <2>0, <2>3, <2>4, <3>1, <3>2 DEF Sourced
    <2> QED
      BY <2>5, <2>6
  <1>11. removed'[u] # NoRevision => pc'[u] \in {"cleaning", "done", "killed"}
    <2>1. RemoveSource(u) => pc'[u] = "cleaning"
      BY <1>0 DEF RemoveSource, SourceGone, Goto, Return, TransferTypes, TypeOK
    <2> QED
      BY <1>0, <1>1, <1>2, <2>1 DEF Sourced, Onward
  <1> QED
    BY <1>5, <1>6, <1>7, <1>8, <1>9, <1>10, <1>11 DEF Sourced

\* A copy is not inspected as a source before it is public, so no cycle of copies closes.
LEMMA AcyclicStep ==
  ASSUME TransferBase, [TNext]_tvars, \A w \in Worker : Sourced(w), Acyclic
  PROVE  Acyclic'
  <1> SUFFICES ASSUME NEW w \in Worker
               PROVE  \E D \in SUBSET File : Closed(D)' /\ w \in D /\ before'[w][1] \notin D
    BY DEF Acyclic
  <1>0. TransferTypes /\ History /\ Worker \subseteq File
    BY DEF TransferBase, File
  <1>1. PICK D \in SUBSET File : Closed(D) /\ w \in D /\ before[w][1] \notin D
    BY DEF Acyclic
  <1>2. ASSUME NEW x \in Worker, InspectSource(x)
        PROVE  \E C \in SUBSET File : Closed(C)' /\ w \in C /\ before'[w][1] \notin C
    <2>1. /\ pc[x] = "inspecting" /\ x \in Unborn
          /\ \A v \in Worker \ {x} : before'[v] = before[v]
          /\ before'[x][1] = dir[source[x]]
      BY <1>0, <1>2 DEF InspectSource, Goto, Return, Unborn, History, Src, Revision
    <2>2. \A v \in Worker : before[v][1] # x
      BY <2>1 DEF Sourced, Fresh
    <2>3. before'[x][1] # x
      <3>1. dir[source[x]] \notin Fresh
        BY PublicNotFresh DEF TransferBase, TransferTypes
      <3> QED
        BY <2>1, <3>1 DEF Fresh
    <2>4. CASE w = x
      <3>1. Closed({x})'
        BY <2>1, <2>2 DEF Closed
      <3> QED
        BY <1>0, <2>3, <2>4, <3>1
    <2>5. CASE w # x
      <3>1. Closed(D \cup {x})'
        BY <1>1, <2>1, <2>2 DEF Closed
      <3>2. before'[w][1] \notin D \cup {x}
        BY <1>1, <2>1, <2>2, <2>5
      <3>3. D \cup {x} \in SUBSET File
        BY <1>0
      <3> QED
        BY <1>1, <3>1, <3>2, <3>3
    <2> QED
      BY <2>4, <2>5
  <1>3. ASSUME \A x \in Worker : ~InspectSource(x)
        PROVE  \E C \in SUBSET File : Closed(C)' /\ w \in C /\ before'[w][1] \notin C
    <2>1. \A x \in Worker : before'[x] = before[x]
      BY <1>0, <1>3, Remembered
    <2> QED
      BY <1>1, <2>1 DEF Closed
  <1> QED
    BY <1>2, <1>3

\* A reply is final.
LEMMA ReplyKept ==
  ASSUME TransferBase, [TNext]_tvars, NEW u \in Worker, outcome[u] # "none"
  PROVE  outcome'[u] = outcome[u]
  <1>1. pc[u] \in {"cleaning", "done", "killed"} /\ TransferTypes
    BY DEF TransferBase, Base, OwnStage
  <1> USE DEF TransferTypes, TypeOK, Goto, Return, fsVars, workerVars
  <1>2. ASSUME NEW w \in Worker, PublishStep(w) PROVE outcome'[u] = outcome[u]
    BY <1>1, <1>2 DEF PublishStep, Request, OpenOriginal, LockOriginal, CreateStaging, WriteStaging,
       WriteFailed,
       FinalCheck, PublishNew, Compare, Exchange, Verify, Recheck, Restore, SyncParent, Finish, Cancel, Kill
  <1>3. ASSUME NEW w \in Worker, TransferStep(w) PROVE outcome'[u] = outcome[u]
    BY <1>1, <1>3, TransferPlaces DEF Advanced
  <1> QED
    BY <1>2, <1>3 DEF TNext, Delete, Touch, tvars, vars

\* A request that reported an effect does not take it back.
LEMMA CommittedStep ==
  ASSUME TransferBase, [TNext]_tvars
  PROVE  Committed \subseteq Committed'
  <1> SUFFICES ASSUME NEW u \in complete \cap Worker, outcome[u] \in {"ok", "unsynced", "kept"}
               PROVE  u \in complete' /\ outcome'[u] = outcome[u]
    BY DEF Committed
  <1>1. complete \subseteq complete'
    BY Onwards DEF TransferBase
  <1> QED
    BY <1>1, ReplyKept

\* The removal of a source takes one file away, and takes no account of another.
LEMMA RemovalSpares ==
  ASSUME TransferBase, NEW x \in Worker, TransferStep(x), NEW h \in File, Accounted(h),
         RemoveSource(x) => h # dir[source[x]]
  PROVE  Accounted(h)'
  <1>0. TransferTypes /\ OwnStage(x) /\ source[x] \in Name /\ task[x].name \in Name /\ h # NoFile
    BY PublishAssumption DEF TransferBase, Base, TransferTypes, TypeOK, Task, File
  <1>1. UNCHANGED <<stamp, deleted, stage>>
        /\ \A v \in Worker \ {x} : outcome'[v] = outcome[v] /\ task'[v] = task[v]
    BY TransferMoves, TransferPlaces DEF TransferBase
  <1>2. ASSUME NEW v \in Worker, Published(v) PROVE Published(v)' /\ Expected(v)' = Expected(v)
    <2>1. v # x
      <3>1. Advanced(x)
        BY <1>0, TransferPlaces
      <3> QED
        BY <1>0, <1>2, <3>1 DEF Advanced, Published, OwnStage
    <2> QED
      BY <1>1, <1>2, <2>1 DEF Published, Expected
  <1>3. ASSUME Linked(h) PROVE Linked(h)'
    <2>1. CASE RenameSource(x)
      <3>1. CASE dir' = dir
        BY <1>1, <1>3, <3>1 DEF Linked
      <3>2. CASE dir' # dir
        <4>1. dir' = [dir EXCEPT ![task[x].name] = dir[source[x]], ![source[x]] = NoFile]
              /\ dir[source[x]] # NoFile /\ dir[task[x].name] = NoFile
          BY <2>1, <3>2 DEF RenameSource, Src
        <4>2. \A m \in Name : dir[m] = h => \E k \in Name : dir'[k] = h
          BY <1>0, <4>1 DEF TransferTypes, TypeOK
        <4> QED
          BY <1>1, <1>3, <4>2 DEF Linked
      <3> QED
        BY <3>1, <3>2
    <2>2. CASE RemoveSource(x)
      <3>1. dir' \in {dir, [dir EXCEPT ![source[x]] = NoFile]}
        BY <2>2 DEF RemoveSource
      <3> QED
        BY <1>0, <1>1, <1>3, <2>2, <3>1 DEF Linked, TransferTypes, TypeOK
    <2>3. CASE ~RenameSource(x) /\ ~RemoveSource(x)
      <3>1. ResolveDestination(x) => dir' = dir
        BY DEF ResolveDestination, fsVars
      <3>2. dir' = dir
        BY <2>3, <3>1 DEF TransferStep, RequestTransfer, InspectSource, CopySource, SyncTransfer,
           CompareSource, EquateTrees, fsVars
      <3> QED
        BY <1>1, <1>3, <3>2 DEF Linked
    <2> QED
      BY <2>1, <2>2, <2>3
  <1> QED
    BY <1>1, <1>2, <1>3 DEF Accounted

\* Otherwise a file that transfers count on stays accounted for.
LEMMA TrackedKept ==
  ASSUME TransferBase, TransferTypes', [TNext]_tvars, \A w \in Worker : Undone(w),
         NEW g \in Tracked, Accounted(g)
  PROVE  Accounted(g)' \/ \E x \in Worker : RemoveSource(x) /\ dir[source[x]] = g
  <1>0. g \in File /\ (g \in Original \/ (g \in Worker /\ Out(g)))
    BY DEF Tracked, File
  <1>1. ASSUME [Next]_vars PROVE Accounted(g)'
    <2>1. \A w \in Worker : outcome[w] = "rolledback" => stage[w] \in {w, NoFile}
      BY DEF Undone
    <2> QED
      BY <1>0, <1>1, <2>1, AccountedStep DEF TransferBase, TransferTypes
  <1>2. ASSUME NEW x \in Worker, TransferStep(x)
        PROVE  Accounted(g)' \/ \E y \in Worker : RemoveSource(y) /\ dir[source[y]] = g
    BY <1>0, <1>2, RemovalSpares
  <1> QED
    BY <1>1, <1>2, PublishStepIsPublish DEF TNext, Next, tvars

\* A file that transfers come to count on has just become public.
LEMMA NewlyTracked ==
  ASSUME TransferBase, TransferBase', [TNext]_tvars, \A w \in Worker : Sourced(w),
         NEW f \in Tracked', f \notin Tracked
  PROVE  f \in Worker /\ Linked(f)'
  <1>1. f \in Worker /\ f \in complete' /\ Out(f)' /\ (f \notin complete \/ ~Out(f))
    BY DEF Tracked
  <1>2. (OwnStage(f) /\ OwnStage(f)') /\ TransferTypes
    BY <1>1 DEF TransferBase, Base
  <1>3. f \in complete /\ ~Out(f)
    <2>1. pc'[f] # "checking"
      BY <1>1, <1>2 DEF Out, Won, OwnStage
    <2> QED
      BY <1>1, <1>2, <2>1, Onwards
  <1>4. ASSUME [Next]_vars PROVE Linked(f)'
    BY <1>1, <1>2, <1>3, <1>4, OutStep DEF TransferBase, TransferTypes
  <1>5. ASSUME NEW x \in Worker, TransferStep(x) PROVE FALSE
    <2>1. f = x /\ Advanced(f)
      BY <1>1, <1>2, <1>3, <1>5, TransferPlaces DEF Out, Won
    <2>2. pc[f] \notin {"renaming", "inspecting", "resolving", "idle"}
      BY <1>1, <1>3 DEF Sourced, Unborn
    <2> QED
      BY <1>1, <1>2, <1>3, <2>1, <2>2 DEF Advanced, Out, Won, OwnStage
  <1> QED
    BY <1>1, <1>4, <1>5, PublishStepIsPublish DEF TNext, Next, tvars

\* A tracked file exists, so its contents do not change.
LEMMA TrackedContents ==
  ASSUME TransferBase, TransferTypes', [TNext]_tvars, MaxTouches = 0, NEW f \in Tracked
  PROVE  f \in File /\ Contents(f)' = Contents(f)
  <1>1. f \in File /\ (f \in Original \/ (f \in Worker /\ Out(f)))
    BY DEF Tracked, File
  <1>2. f \notin Worker \/ ~CopySource(f)
    <2>1. CASE f \in Original
      BY <2>1, PublishAssumption
    <2>2. CASE f \in Worker /\ Out(f)
      <3>1. OwnStage(f)
        BY <2>2 DEF TransferBase, Base
      <3> QED
        BY <2>2, <3>1 DEF CopySource, WriteFailed, Goto, Return, Out, Won, OwnStage
    <2> QED
      BY <1>1, <2>1, <2>2
  <1> QED
    BY <1>1, <1>2, ContentsKept DEF TransferBase, Entry

\* A set of copies that is closed after a step was closed before, but for a file that is not
\* complete yet.
LEMMA ClosedBefore ==
  ASSUME TransferBase, [TNext]_tvars, \A w \in Worker : Sourced(w), NEW D \in SUBSET File, Closed(D)'
  PROVE  \E C \in SUBSET File : /\ Closed(C) /\ D \subseteq C
                               /\ \A g \in C \ D : g \in Worker /\ g \notin complete \cup complete'
  <1>0. TransferTypes /\ History /\ Worker \subseteq File
    BY DEF TransferBase, File
  <1>1. ASSUME NEW x \in Worker, InspectSource(x)
        PROVE  \E C \in SUBSET File : /\ Closed(C) /\ D \subseteq C
                                     /\ \A g \in C \ D : g \in Worker /\ g \notin complete \cup complete'
    <2>1. /\ x \in Unborn /\ complete' = complete
          /\ \A v \in Worker \ {x} : before'[v] = before[v]
      BY <1>0, <1>1 DEF InspectSource, Goto, Return, Unborn, History, fsVars
    <2>2. x \notin complete /\ \A v \in Worker : before[v][1] # x
      BY <2>1 DEF Sourced, Fresh
    <2>3. Closed(D \cup {x})
      BY <2>1, <2>2 DEF Closed
    <2> QED
      BY <1>0, <2>1, <2>2, <2>3
  <1>2. ASSUME \A x \in Worker : ~InspectSource(x)
        PROVE  Closed(D)
    <2>1. \A x \in Worker : before'[x] = before[x]
      BY <1>0, <1>2, Remembered
    <2> QED
      BY <2>1 DEF Closed
  <1> QED
    BY <1>1, <1>2

\* The removal of a source leaves the copy, or what was copied from that.
LEMMA LeafyStep ==
  ASSUME TransferBase, TransferBase', [TNext]_tvars, MaxTouches = 0, Acyclic, Leafy, OnlyComparedRemoved',
         \A w \in Worker : Sourced(w) /\ Undone(w)
  PROVE  Leafy'
  <1> SUFFICES ASSUME NEW f \in Tracked', NEW D \in SUBSET File, f \in D, Closed(D)'
               PROVE  \E g \in (Committed' \cup {f}) \cap D : Contents(g)' = Contents(f)' /\ Accounted(g)'
    BY DEF Leafy
  <1>0. /\ TransferTypes /\ TransferTypes' /\ History /\ Base
        /\ \A w \in Worker : Sourced(w)
        /\ \A w \in Worker : Undone(w)
    BY DEF TransferBase
  <1>1. Committed \subseteq Committed' /\ Committed \subseteq Tracked
    BY CommittedStep DEF Committed, Tracked, Out, Won
  <1>2. CASE f \notin Tracked
    BY <1>0, <1>2, NewlyTracked DEF Accounted
  <1>3. CASE f \in Tracked
    <2>1. PICK C \in SUBSET File : /\ Closed(C) /\ D \subseteq C
                                  /\ \A g \in C \ D : g \in Worker /\ g \notin complete \cup complete'
      BY <1>0, ClosedBefore
    <2>2. PICK g \in (Committed \cup {f}) \cap C : Contents(g) = Contents(f) /\ Accounted(g)
      BY <1>3, <2>1 DEF Leafy
    <2>3. g \in D /\ g \in Tracked /\ g \in File
      BY <1>1, <1>3, <2>1, <2>2, PublishAssumption DEF Committed
    <2>4. Contents(g)' = Contents(f)'
      BY <1>0, <1>3, <2>2, <2>3, TrackedContents
    <2>5. CASE Accounted(g)'
      BY <1>1, <2>2, <2>3, <2>4, <2>5
    <2>6. ASSUME NEW x \in Worker, RemoveSource(x), dir[source[x]] = g
          PROVE  \E h \in (Committed' \cup {f}) \cap D : Contents(h)' = Contents(f)' /\ Accounted(h)'
      <3>1. /\ pc[x] = "removing" /\ x \in Mover /\ g # NoFile
            /\ Contents(x) = Contents(before[x][1])
            /\ x \in complete /\ x \in Tracked
        BY <1>0, <2>3, <2>6, PublishAssumption DEF RemoveSource, SourceGone, Goto, Return, Sourced, Copied,
           Base, OwnStage, Tracked, Out, Won, File
      <3>2. CASE dir' = dir
        <4>1. Accounted(g)'
          <5>1. TransferStep(x)
            BY <2>6 DEF TransferStep
          <5>2. Linked(g) /\ stage' = stage /\ source[x] \in Name
            BY <1>0, <2>6 DEF RemoveSource, Linked, TransferTypes
          <5>3. Linked(g)'
            BY <2>6, <3>2, <5>2 DEF Linked
          <5> QED
            BY <5>3 DEF Accounted
        <4> QED
          BY <1>1, <2>2, <2>3, <2>4, <4>1
      <3>3. CASE dir' # dir
        <4>1. /\ removed'[x] = Revision(g) /\ outcome'[x] \in {"ok", "kept"}
              /\ complete' = complete /\ before' = before
          BY <1>0, <2>6, <3>3 DEF RemoveSource, SourceGone, Return, Src, TransferTypes, TypeOK, History
        <4>2. before[x] = Revision(g)
          BY <3>1, <4>1 DEF OnlyComparedRemoved, Revision, NoRevision
        <4>3. before[x][1] = g /\ Closed(D)
          BY <4>1, <4>2 DEF Revision, Closed
        <4>4. x \in D
          BY <2>3, <4>3 DEF Closed
        <4>5. PICK A \in SUBSET File : Closed(A) /\ x \in A /\ g \notin A
          BY <4>3 DEF Acyclic
        <4>6. Closed(D \cap A) /\ x \in D \cap A /\ D \cap A \in SUBSET File
          BY <4>3, <4>4, <4>5 DEF Closed
        <4>7. PICK h \in (Committed \cup {x}) \cap (D \cap A) : Contents(h) = Contents(x) /\ Accounted(h)
          BY <3>1, <4>6 DEF Leafy
        <4>8. Accounted(h)'
          <5>1. TransferStep(x) /\ h # g
            BY <2>6, <4>5, <4>7 DEF TransferStep
          <5> QED
            BY <2>6, <4>7, <5>1, RemovalSpares
        <4>9. h \in Committed'
          BY <1>1, <3>1, <4>1, <4>7 DEF Committed
        <4>10. Contents(h)' = Contents(g)'
          <5>1. Contents(h)' = Contents(h)
            BY <1>0, <1>1, <3>1, <4>7, TrackedContents
          <5>2. Contents(g)' = Contents(g)
            BY <1>0, <2>3, TrackedContents
          <5> QED
            BY <3>1, <4>3, <4>7, <5>1, <5>2
        <4> QED
          BY <2>4, <4>7, <4>8, <4>9, <4>10
      <3> QED
        BY <3>2, <3>3
    <2> QED
      BY <1>0, <2>2, <2>3, <2>5, <2>6, TrackedKept
  <1> QED
    BY <1>2, <1>3

\* Once something else than the compared source has been removed, that stays so.
LEMMA WrongRemovalStays ==
  ASSUME TransferBase, [TNext]_tvars, \A w \in Worker : Sourced(w), OnlyComparedRemoved'
  PROVE  OnlyComparedRemoved
  <1> SUFFICES ASSUME NEW w \in Mover, removed[w] # NoRevision PROVE removed[w] = before[w]
    BY DEF OnlyComparedRemoved
  <1>1. w \in Worker /\ pc[w] \in {"cleaning", "done", "killed"}
    BY DEF TransferBase, TransferTypes, Sourced
  <1>2. ~InspectSource(w) /\ ~RemoveSource(w)
    BY <1>1 DEF InspectSource, RemoveSource, SourceGone, Goto, Return
  <1>3. before'[w] = before[w] /\ removed'[w] = removed[w]
    BY <1>1, <1>2, Remembered DEF TransferBase
  <1> QED
    BY <1>3 DEF OnlyComparedRemoved

\* A transfer's own step rolls nothing back.
LEMMA TransferUndoneStep ==
  ASSUME TransferBase, [TNext]_tvars, ~StaleRollback, \A w \in Worker : Undone(w)
  PROVE  \A u \in Worker : Undone(u)'
  <1>1. ASSUME [Next]_vars PROVE \A u \in Worker : Undone(u)'
    BY <1>1, UndoneStep DEF TransferBase, TransferTypes
  <1>2. ASSUME NEW x \in Worker, TransferStep(x), NEW u \in Worker PROVE Undone(u)'
    <2>1. stage' = stage /\ Advanced(x) /\ \A v \in Worker \ {x} : outcome'[v] = outcome[v]
      BY <1>2, TransferMoves, TransferPlaces DEF TransferBase
    <2>2. outcome'[u] = "rolledback" => outcome[u] = "rolledback"
      BY <2>1 DEF Advanced
    <2> QED
      BY <2>1, <2>2 DEF Undone
  <1> QED
    BY <1>1, <1>2, PublishStepIsPublish DEF TNext, Next, tvars

\* At the start nothing has been copied.
LEMMA CustodyInit == TInit => (\A w \in Worker : Sourced(w) /\ Duel(w)) /\ Acyclic /\ Leafy
  <1> SUFFICES ASSUME TInit
               PROVE  (\A w \in Worker : Sourced(w) /\ Duel(w)) /\ Acyclic /\ Leafy
    OBVIOUS
  <1>1. /\ \A w \in Worker : /\ pc[w] = "idle" /\ outcome[w] = "none" /\ stage[w] = NoFile
                             /\ before[w] = NoRevision /\ removed[w] = NoRevision
        /\ complete = Original
    BY DEF TInit, Init
  <1>2. NoFile \notin Worker /\ Worker \cap Original = {} /\ NoFile \notin File
    BY PublishAssumption DEF File
  <1>3. \A w \in Worker : before[w][1] = NoFile
    BY <1>1 DEF NoRevision
  <1>4. \A w \in Worker : Sourced(w)
    BY <1>1, <1>2, <1>3 DEF Sourced, Fresh, Unborn, Copied
  <1>5. Acyclic
    <2>1. \A w \in Worker : Closed({w}) /\ w \in {w} /\ before[w][1] \notin {w} /\ {w} \in SUBSET File
      BY <1>2, <1>3 DEF Closed, File
    <2> QED
      BY <2>1 DEF Acyclic
  <1>6. \A w \in Worker : Duel(w) /\ ~Out(w)
    BY <1>1 DEF Duel, Displacing, Out, Won
  <1>7. \A f \in Tracked : f \in Original /\ Accounted(f)
    BY <1>6 DEF Tracked, Accounted, Linked, TInit, Init
  <1>8. Leafy
    BY <1>7 DEF Leafy
  <1> QED
    BY <1>4, <1>5, <1>6, <1>8

\* The invariant of two requests for a name, when transfers take part.
LEMMA CustodyInvariance == ASSUME MaxTouches = 0 PROVE TSpec => []CustodyInv
  <1>1. TInit => CustodyInv
    BY CustodyInit DEF CustodyInv
  <1>2. TransferBase /\ TransferBase' /\ CustodyInv /\ [TNext]_tvars => CustodyInv'
    <2> SUFFICES ASSUME TransferBase, TransferBase', CustodyInv, [TNext]_tvars PROVE CustodyInv'
      OBVIOUS
    <2>0. (\A w \in Worker : Sourced(w)) /\ Acyclic /\ TransferTypes /\ TransferTypes' /\ Base
      BY DEF CustodyInv, TransferBase
    <2>1. \A w \in Worker : Sourced(w)'
      BY <2>0, SourcedStep
    <2>2. Acyclic'
      BY <2>0, AcyclicStep
    <2>3. ASSUME ~Crowded' PROVE ~Crowded /\ \A w \in Worker : Duel(w)
      BY <2>0, <2>3, TransferCrowdStep DEF CustodyInv
    <2>4. ASSUME ~Crowded' PROVE \A w \in Worker : Duel(w)'
      <3>1. ~Crowded /\ \A w \in Worker : Duel(w)
        BY <2>3, <2>4
      <3>2. ASSUME [Next]_vars PROVE \A w \in Worker : Duel(w)'
        BY <2>0, <3>1, <3>2, DuelStep DEF TransferTypes
      <3>3. ASSUME NEW x \in Worker, TransferStep(x) PROVE \A w \in Worker : Duel(w)'
        BY <3>1, <3>3, TransferDuelStep
      <3> QED
        BY <3>2, <3>3, PublishStepIsPublish DEF TNext, Next, tvars
    <2>5. ASSUME ~Crowded', OnlyComparedRemoved' PROVE Leafy'
      <3>1. ~Crowded /\ \A w \in Worker : Duel(w)
        BY <2>3, <2>5
      <3>2. OnlyComparedRemoved
        BY <2>0, <2>5, WrongRemovalStays
      <3>3. Leafy
        BY <3>1, <3>2 DEF CustodyInv
      <3>4. \A w \in Worker : Sourced(w) /\ Undone(w)
        BY <2>0, <3>1 DEF Duel, Undone
      <3> QED
        BY <2>0, <2>5, <3>3, <3>4, LeafyStep
    <2> QED
      BY <2>1, <2>2, <2>4, <2>5 DEF CustodyInv
  <1> QED
    BY <1>1, <1>2, TransferBaseInvariance, PTL DEF TSpec

\* What Leafy says of the whole is that no contents are gone.
LEMMA LeavesSurvive ==
  ASSUME TransferBase, MaxTouches = 0, OnlyComparedRemoved => Leafy
  PROVE  ContentsSurvive
  <1> SUFFICES ASSUME Leafy, NEW o \in Original
               PROVE  \E f \in Original \cup complete : Contents(f) = <<o, 0>> /\ Accounted(f)
    BY DEF ContentsSurvive
  <1>1. Closed(File) /\ File \in SUBSET File /\ o \in File /\ o \in Tracked
    BY DEF Closed, File, Tracked
  <1>2. PICK g \in (Committed \cup {o}) \cap File : Contents(g) = Contents(o) /\ Accounted(g)
    BY <1>1 DEF Leafy
  <1>3. g \in Original \cup complete
    BY <1>2 DEF Committed
  <1>4. Contents(o) = <<o, 0>>
    <2>1. o \notin Worker
      BY PublishAssumption
    <2>2. stamp[o] = 0
      BY DEF TransferBase, TransferTypes, TypeOK, Entry, File
    <2> QED
      BY <2>1, <2>2 DEF Contents, Revision
  <1> QED
    BY <1>2, <1>3, <1>4

\* With any number of copies, moves, uploads and deletions, at most two of them for one name,
\* and whatever of them is killed or cancelled: unless a removal by name took a file that
\* was never compared, the contents of every file that was there are still in some file
\* that no user asked to delete or replace (transfer.go: publish, compare, then remove).
THEOREM PairKeepsContents == ASSUME MaxTouches = 0 PROVE TSpec => [](Crowded \/ ContentsSurvive)
  <1>1. TransferBase /\ CustodyInv => Crowded \/ ContentsSurvive
    BY LeavesSurvive DEF CustodyInv
  <1> QED
    BY <1>1, CustodyInvariance, TransferBaseInvariance, PTL

\* With any number of requests for a name as well: without a rollback at a name that has got
\* another file since its recheck, and without a removal by name of something that was not
\* compared, no copy or move loses contents (transfer.go:235 and 285-286 are the two places
\* that look at nothing again).
THEOREM OnlyStaleRollbacksLoseContents ==
  ASSUME MaxTouches = 0
  PROVE  TSpec /\ []~StaleRollback => []ContentsSurvive
  <1> DEFINE Custody == /\ \A w \in Worker : Sourced(w) /\ Undone(w)
                        /\ Acyclic /\ (OnlyComparedRemoved => Leafy)
  <1>1. TInit => Custody
    BY CustodyInit DEF Duel, Undone
  <1>2. TransferBase /\ TransferBase' /\ Custody /\ ~StaleRollback /\ [TNext]_tvars => Custody'
    <2> SUFFICES ASSUME TransferBase, TransferBase', Custody, ~StaleRollback, [TNext]_tvars
                 PROVE  Custody'
      OBVIOUS
    <2>0. (\A w \in Worker : Sourced(w)) /\ (\A w \in Worker : Undone(w)) /\ TransferTypes'
      BY DEF TransferBase
    <2>1. \A w \in Worker : Sourced(w)'
      BY <2>0, SourcedStep
    <2>2. \A w \in Worker : Undone(w)'
      BY <2>0, TransferUndoneStep
    <2>3. Acyclic'
      BY <2>0, AcyclicStep
    <2>4. OnlyComparedRemoved' => Leafy'
      BY <2>0, WrongRemovalStays, LeafyStep
    <2> QED
      BY <2>1, <2>2, <2>3, <2>4
  <1>3. TransferBase /\ Custody => ContentsSurvive
    BY LeavesSurvive
  <1> QED
    BY <1>1, <1>2, <1>3, TransferBaseInvariance, PTL DEF TSpec

=============================================================================
