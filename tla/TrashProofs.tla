----------------------------- MODULE TrashProofs ------------------------------
(***************************************************************************)
(* What the trash does to items and notes, for any number of requests.     *)
(* The first two properties rest on who may be in a container: the item of *)
(* the request that made it and nothing else, from its transfer on, and    *)
(* never again once it was taken out.  The third, that nothing is left     *)
(* over, rests on who is still to remove a container that nobody wants.    *)
(***************************************************************************)
EXTENDS Trash, TLAPS

Running == {"moving", "syncing", "undoing", "noting", "naming", "listing", "unlinking"}

TrashTypes ==
  /\ places \in [Item -> SUBSET Place]
  /\ containers \subseteq Request
  /\ notes \in [Request -> SUBSET NoteName]
  /\ journals \subseteq Request
  /\ deleted \subseteq Item
  /\ pc \in [Request -> {"idle", "done", "killed"} \cup Running]
  /\ kind \in [Request -> {"trash", "restore", "delete"}]
  /\ item \in [Request -> Item \cup {NoItem}]
  /\ from \in [Request -> Request]
  /\ dest \in [Request -> {Home, Other}]
  /\ listed \in [Request -> SUBSET NoteName]
  /\ outcome \in [Request -> {"none", "ok", "failed", "skipped"}]

\* Request r has put nothing in a container of its own yet.
Before(r) == pc[r] = "idle" \/ (pc[r] = "moving" /\ kind[r] = "trash")

\* A request that has not started has made and chosen nothing.
Unstarted ==
  \A r \in Request : pc[r] = "idle" =>
    kind[r] = "trash" /\ outcome[r] = "none" /\ r \notin containers

\* A container is empty and nobody's choice until its request has moved the item.
Untouched ==
  \A r \in Request : Before(r) =>
    /\ r \notin journals /\ notes[r] = {} /\ \A i \in Item : r \notin places[i]
    /\ \A q \in Request : from[q] = r => q = r
    /\ pc[r] = "moving" => r \in containers

\* It is of a trash request, and only ever holds the item of that request.
Own ==
  /\ \A c \in containers : kind[c] = "trash"
  /\ \A c \in Request, i \in Item : c \in places[i] => item[c] = i /\ kind[c] = "trash"

\* A restore or a deletion is about what lay in a container that was made, and
\* never about another item there.
Chosen ==
  \A r \in Request : kind[r] # "trash" =>
    /\ kind[from[r]] = "trash"
    /\ \A i \in Item : from[r] \in places[i] => item[r] = i

\* The cleanup finds no item in the container, unless its restore was skipped.
Emptied ==
  \A r \in Request : pc[r] \in {"listing", "unlinking"} =>
    /\ kind[r] # "trash"
    /\ outcome[r] = "skipped" \/ \A i \in Item : from[r] \notin places[i]

\* A restore is skipped when it looks for its destination, and goes on to the cleanup.
SkippedLate ==
  \A r \in Request : outcome[r] = "skipped" => pc[r] \in {"listing", "unlinking", "done", "killed"}

\* Who may be in a container.
Residents == SkippedLate /\ Unstarted /\ Untouched /\ Own /\ Chosen /\ Emptied

TrashInv == TrashTypes /\ Residents /\ NothingOutside /\ LossNeedsSkip

-----------------------------------------------------------------------------
(* The steps. *)

\* A container that lists nothing holds neither note nor item.
LEMMA EmptyHoldsNothing ==
  ASSUME NEW c \in Request, Names(c) = {}
  PROVE  notes[c] = {} /\ c \notin journals /\ \A i \in Item : c \notin places[i]
  BY DEF Names

\* rmdir takes away at most its folder, and only when that is empty.
LEMMA RmdirTakesEmpty ==
  ASSUME NEW c \in Request, Rmdir(c)
  PROVE  /\ containers' \subseteq containers
         /\ \A x \in containers \ containers' :
              x = c /\ notes[x] = {} /\ x \notin journals /\ \A i \in Item : x \notin places[i]
  BY EmptyHoldsNothing DEF Rmdir

\* The cleanup reads the container of a request that is about to be answered.
LEMMA ListContainerEffect ==
  ASSUME TrashTypes, NEW r \in Request, ListContainer(r)
  PROVE  /\ pc[r] = "listing" /\ UNCHANGED <<fsVars, reqVars>>
         /\ \/ /\ pc' = [pc EXCEPT ![r] = "unlinking"] /\ outcome' = outcome
               /\ listed' \in [Request -> SUBSET NoteName]
            \/ /\ pc' = [pc EXCEPT ![r] = "done"] /\ listed' = listed
               /\ outcome' = [outcome EXCEPT ![r] = Reply(r)]
  <1>1. CASE from[r] \in containers /\ OnlyNotes(Names(from[r]))
    BY <1>1 DEF ListContainer, Goto, OnlyNotes, TrashTypes
  <1>2. CASE ~(from[r] \in containers /\ OnlyNotes(Names(from[r])))
    BY <1>2 DEF ListContainer, End, Goto
  <1> QED
    BY <1>1, <1>2

\* A move leaves its item somewhere, and the others where they are.
LEMMA MovesKeepItems ==
  ASSUME TrashTypes, NEW j \in Item \cup {NoItem}, NEW a, NEW b, Move(j, a, b) \/ Add(j, b)
  PROVE  \A i \in Item : places[i] # {} => places'[i] # {}
  BY DEF TrashTypes, Move, Add

\* Nothing is lost by a step that empties no item's places and forgets no skip.
LEMMA NothingMoreLost ==
  ASSUME LossNeedsSkip, deleted \subseteq deleted',
         \A i \in Item : places[i] # {} => places'[i] # {} \/ i \in deleted',
         \A q \in Request : outcome[q] = "skipped" => outcome'[q] = "skipped" /\ item'[q] = item[q]
  PROVE  LossNeedsSkip'
  BY DEF LossNeedsSkip, Lost

\* Every step keeps the types.
LEMMA TypesStep == TrashTypes /\ [Next]_vars => TrashTypes'
  <1> SUFFICES ASSUME TrashTypes, [Next]_vars
               PROVE  TrashTypes'
    OBVIOUS
  <1> USE TrashAssumption DEF TrashTypes, Place, NoteName, Running
  <1>1. ASSUME NEW r \in Request, RequestRestore(r)
        PROVE  TrashTypes'
    <2>1. /\ item' \in [Request -> Item \cup {NoItem}] /\ from' \in [Request -> Request]
          /\ kind' \in [Request -> {"trash", "restore", "delete"}] /\ UNCHANGED <<fsVars, listed>>
      BY <1>1 DEF RequestRestore, Pick
    <2>2. /\ dest' \in [Request -> {Home, Other}]
          /\ pc' \in [Request -> {"idle", "done", "killed"} \cup Running]
          /\ outcome' \in [Request -> {"none", "ok", "failed", "skipped"}]
      BY <1>1 DEF RequestRestore, Goto, End
    <2> QED
      BY <2>1, <2>2 DEF fsVars
  <1>2. ASSUME NEW r \in Request, RequestDelete(r)
        PROVE  TrashTypes'
    BY <1>2 DEF RequestDelete, Pick, Goto, fsVars
  <1>3. ASSUME NEW r \in Request, MakeContainer(r)
        PROVE  TrashTypes'
    BY <1>3 DEF MakeContainer, Goto, End
  <1>4. ASSUME NEW r \in Request, MoveToTrash(r)
        PROVE  TrashTypes'
    BY <1>4 DEF MoveToTrash, reqVars, Goto, Move, Add
  <1>5. ASSUME NEW r \in Request, UndoContainer(r)
        PROVE  TrashTypes'
    <2>1. containers' \subseteq containers
      BY <1>5, RmdirTakesEmpty DEF UndoContainer
    <2> QED
      BY <1>5, <2>1 DEF UndoContainer, reqVars, Goto, End
  <1>6. ASSUME NEW r \in Request, SyncTrash(r)
        PROVE  TrashTypes'
    BY <1>6 DEF SyncTrash, fsVars, reqVars, Goto, End
  <1>7. ASSUME NEW r \in Request, StageNote(r)
        PROVE  TrashTypes'
    BY <1>7 DEF StageNote, reqVars, Goto, End
  <1>8. ASSUME NEW r \in Request, NameNote(r)
        PROVE  TrashTypes'
    BY <1>8 DEF NameNote, reqVars, Goto, End
  <1>9. ASSUME NEW r \in Request, MoveOut(r)
        PROVE  TrashTypes'
    <2>1. places' \in [Item -> SUBSET Place] /\ UNCHANGED <<containers, notes, journals, deleted, reqVars, listed>>
      BY <1>9 DEF MoveOut, Move, Add
    <2>2. /\ pc' \in [Request -> {"idle", "done", "killed"} \cup Running]
          /\ outcome' \in [Request -> {"none", "ok", "failed", "skipped"}]
      BY <1>9 DEF MoveOut, Goto, End
    <2> QED
      BY <2>1, <2>2 DEF reqVars
  <1>10. ASSUME NEW r \in Request, Delete(r)
        PROVE  TrashTypes'
    BY <1>10 DEF Delete, reqVars, Goto, End
  <1>11. ASSUME NEW r \in Request, ListContainer(r)
        PROVE  TrashTypes'
    BY <1>11, ListContainerEffect DEF fsVars, reqVars, Reply
  <1>12. ASSUME NEW r \in Request, UnlinkNote(r)
        PROVE  TrashTypes'
    BY <1>12 DEF UnlinkNote, reqVars, Goto, End, Reply
  <1>13. ASSUME NEW r \in Request, RemoveContainer(r)
        PROVE  TrashTypes'
    <2>1. containers' \subseteq containers
      BY <1>13, RmdirTakesEmpty DEF RemoveContainer
    <2> QED
      BY <1>13, <2>1 DEF RemoveContainer, reqVars, Goto, End, Reply
  <1>14. ASSUME NEW r \in Request, Kill(r)
        PROVE  TrashTypes'
    BY <1>14 DEF Kill, fsVars, reqVars
  <1>15. ASSUME NEW r \in Request, CleanupFails(r)
        PROVE  TrashTypes'
    BY <1>15 DEF CleanupFails, fsVars, reqVars, Goto, End, Reply
  <1>16. CASE UNCHANGED vars
    BY <1>16 DEF vars, fsVars, reqVars
  <1> QED
    BY <1>1, <1>2, <1>3, <1>4, <1>5, <1>6, <1>7, <1>8, <1>9, <1>10, <1>11, <1>12, <1>13, <1>14,
      <1>15, <1>16 DEF Next, Work

\* No step puts anything in a container but its own item and note, or takes up a
\* container that is not yet in use.
LEMMA ResidentsStep == TrashTypes /\ Residents /\ NothingOutside /\ [Next]_vars => Residents'
  <1> SUFFICES ASSUME TrashTypes, Residents, NothingOutside, [Next]_vars
               PROVE  Residents'
    OBVIOUS
  <1> USE TrashAssumption DEF TrashTypes, NoteName, Residents, SkippedLate, Unstarted, Untouched, Own,
    Chosen, Emptied, Before
  <1>1. ASSUME NEW r \in Request, RequestRestore(r)
        PROVE  Residents'
    BY <1>1 DEF RequestRestore, Pick, Goto, End, fsVars
  <1>2. ASSUME NEW r \in Request, RequestDelete(r)
        PROVE  Residents'
    <2>1. PICK c \in containers : from' = [from EXCEPT ![r] = c]
                                /\ \/ \E i \in Item : c \in places[i] /\ item' = [item EXCEPT ![r] = i]
                                   \/ /\ notes[c] # {} /\ \A i \in Item : c \notin places[i]
                                      /\ item' = [item EXCEPT ![r] = NoItem]
      BY <1>2 DEF RequestDelete, Pick
    <2>2. pc[r] = "idle" /\ pc' = [pc EXCEPT ![r] = "moving"] /\ kind' = [kind EXCEPT ![r] = "delete"]
          /\ UNCHANGED <<fsVars, outcome>>
      BY <1>2 DEF RequestDelete, Pick, Goto
    <2>3. ~Before(c) /\ kind[c] = "trash" /\ \A i \in Item : c \in places[i] => item'[r] = i
      BY <2>1, <2>2
    <2> QED
      BY <2>1, <2>2, <2>3 DEF fsVars
  <1>3. ASSUME NEW r \in Request, MakeContainer(r)
        PROVE  Residents'
    <2>1. SkippedLate' /\ Unstarted' /\ Untouched'
      BY <1>3 DEF MakeContainer, Goto, End
    <2>2. Own' /\ Chosen' /\ Emptied'
      BY <1>3 DEF MakeContainer, Goto, End
    <2> QED
      BY <2>1, <2>2
  <1>4. ASSUME NEW r \in Request, MoveToTrash(r)
        PROVE  Residents'
    BY <1>4 DEF MoveToTrash, reqVars, Goto, Move, Add
  <1>5. ASSUME NEW r \in Request, UndoContainer(r)
        PROVE  Residents'
    <2>1. pc[r] = "undoing" /\ pc' = [pc EXCEPT ![r] = "done"]
          /\ UNCHANGED <<places, notes, journals, reqVars>>
          /\ (outcome'[r] = "skipped" => outcome[r] = "skipped")
          /\ \A q \in Request : q # r => outcome'[q] = outcome[q]
      BY <1>5 DEF UndoContainer, End, Goto, Reply
    <2>2. /\ containers' \subseteq containers
          /\ \A x \in containers : x \notin containers' => x = r
      BY <1>5, RmdirTakesEmpty DEF UndoContainer
    <2>3. ~Before(r)
      BY <2>1
    <2> QED
      BY <2>1, <2>2, <2>3 DEF reqVars
  <1>6. ASSUME NEW r \in Request, SyncTrash(r)
        PROVE  Residents'
    BY <1>6 DEF SyncTrash, fsVars, reqVars, Goto, End
  <1>7. ASSUME NEW r \in Request, StageNote(r)
        PROVE  Residents'
    BY <1>7 DEF StageNote, reqVars, Goto, End
  <1>8. ASSUME NEW r \in Request, NameNote(r)
        PROVE  Residents'
    BY <1>8 DEF NameNote, reqVars, Goto, End
  <1>9. ASSUME NEW r \in Request, MoveOut(r)
        PROVE  Residents'
    <2>1. /\ pc[r] = "moving" /\ kind[r] = "restore" /\ UNCHANGED <<containers, notes, journals, reqVars>>
          /\ \A c \in Request, i \in Item : c \in places'[i] => c \in places[i]
      BY <1>9 DEF MoveOut, Move, Add
    <2>2. \/ /\ pc' = [pc EXCEPT ![r] = "listing"] /\ outcome' = [outcome EXCEPT ![r] = "skipped"]
          \/ /\ pc' = [pc EXCEPT ![r] = "listing"] /\ UNCHANGED outcome
             /\ \A i \in Item : from[r] \notin places'[i]
          \/ pc' = [pc EXCEPT ![r] = "done"] /\ outcome' = [outcome EXCEPT ![r] = "failed"]
      BY <1>9 DEF MoveOut, Goto, End, Move
    <2> QED
      BY <2>1, <2>2 DEF reqVars
  <1>10. ASSUME NEW r \in Request, Delete(r)
        PROVE  Residents'
    BY <1>10 DEF Delete, reqVars, Goto, End
  <1>11. ASSUME NEW r \in Request, ListContainer(r)
        PROVE  Residents'
    BY <1>11, ListContainerEffect DEF fsVars, reqVars, Reply
  <1>12. ASSUME NEW r \in Request, UnlinkNote(r)
        PROVE  Residents'
    BY <1>12 DEF UnlinkNote, reqVars, Goto, End, Reply
  <1>13. ASSUME NEW r \in Request, RemoveContainer(r)
        PROVE  Residents'
    <2>1. pc[r] = "unlinking" /\ pc' = [pc EXCEPT ![r] = "done"]
          /\ UNCHANGED <<places, notes, journals, reqVars>>
          /\ (outcome'[r] = "skipped" => outcome[r] = "skipped")
          /\ \A q \in Request : q # r => outcome'[q] = outcome[q]
      BY <1>13 DEF RemoveContainer, End, Goto, Reply
    <2>2. /\ containers' \subseteq containers
          /\ \A x \in containers : x \notin containers' => x = from[r]
      BY <1>13, RmdirTakesEmpty DEF RemoveContainer
    <2>3. ~Before(from[r])
      BY <2>1
    <2> QED
      BY <2>1, <2>2, <2>3 DEF reqVars
  <1>14. ASSUME NEW r \in Request, Kill(r)
        PROVE  Residents'
    BY <1>14 DEF Kill, fsVars, reqVars
  <1>15. ASSUME NEW r \in Request, CleanupFails(r)
        PROVE  Residents'
    BY <1>15 DEF CleanupFails, fsVars, reqVars, Goto, End, Reply
  <1>16. CASE UNCHANGED vars
    BY <1>16 DEF vars, fsVars, reqVars
  <1> QED
    BY <1>1, <1>2, <1>3, <1>4, <1>5, <1>6, <1>7, <1>8, <1>9, <1>10, <1>11, <1>12, <1>13, <1>14,
      <1>15, <1>16 DEF Next, Work

\* A container goes only when it is empty, and is filled only while it is there.
LEMMA OutsideStep ==
  TrashTypes /\ Residents /\ NothingOutside /\ [Next]_vars => NothingOutside'
  <1> SUFFICES ASSUME TrashTypes, Residents, NothingOutside, [Next]_vars
               PROVE  NothingOutside'
    OBVIOUS
  <1> USE TrashAssumption DEF NothingOutside
  <1>1. ASSUME NEW r \in Request, RequestRestore(r)
        PROVE  NothingOutside'
    BY <1>1 DEF RequestRestore, Pick, Goto, End, fsVars, TrashTypes
  <1>2. ASSUME NEW r \in Request, RequestDelete(r)
        PROVE  NothingOutside'
    BY <1>2 DEF RequestDelete, Pick, Goto, fsVars, TrashTypes
  <1>3. ASSUME NEW r \in Request, MakeContainer(r)
        PROVE  NothingOutside'
    BY <1>3 DEF MakeContainer, Goto, End, TrashTypes
  <1>4. ASSUME NEW r \in Request, MoveToTrash(r)
        PROVE  NothingOutside'
    BY <1>4 DEF MoveToTrash, reqVars, Goto, Move, Add, TrashTypes, Residents, Untouched, Before
  <1>5. ASSUME NEW r \in Request, UndoContainer(r)
        PROVE  NothingOutside'
    <2>1. r \in Request /\ from[r] \in Request
      BY DEF TrashTypes
    <2> QED
      BY <1>5, <2>1, RmdirTakesEmpty DEF UndoContainer
  <1>6. ASSUME NEW r \in Request, SyncTrash(r)
        PROVE  NothingOutside'
    BY <1>6 DEF SyncTrash, fsVars, reqVars, Goto, End, TrashTypes
  <1>7. ASSUME NEW r \in Request, StageNote(r)
        PROVE  NothingOutside'
    BY <1>7 DEF StageNote, reqVars, Goto, End, TrashTypes
  <1>8. ASSUME NEW r \in Request, NameNote(r)
        PROVE  NothingOutside'
    BY <1>8 DEF NameNote, reqVars, Goto, End, TrashTypes
  <1>9. ASSUME NEW r \in Request, MoveOut(r)
        PROVE  NothingOutside'
    BY <1>9 DEF MoveOut, reqVars, Goto, End, Move, Add, InUse, TrashTypes
  <1>10. ASSUME NEW r \in Request, Delete(r)
        PROVE  NothingOutside'
    BY <1>10 DEF Delete, reqVars, Goto, End, TrashTypes
  <1>11. ASSUME NEW r \in Request, ListContainer(r)
        PROVE  NothingOutside'
    BY <1>11, ListContainerEffect DEF fsVars
  <1>12. ASSUME NEW r \in Request, UnlinkNote(r)
        PROVE  NothingOutside'
    BY <1>12 DEF UnlinkNote, reqVars, Goto, End, Reply, TrashTypes
  <1>13. ASSUME NEW r \in Request, RemoveContainer(r)
        PROVE  NothingOutside'
    <2>1. r \in Request /\ from[r] \in Request
      BY DEF TrashTypes
    <2> QED
      BY <1>13, <2>1, RmdirTakesEmpty DEF RemoveContainer
  <1>14. ASSUME NEW r \in Request, Kill(r)
        PROVE  NothingOutside'
    BY <1>14 DEF Kill, fsVars, reqVars, TrashTypes
  <1>15. ASSUME NEW r \in Request, CleanupFails(r)
        PROVE  NothingOutside'
    BY <1>15 DEF CleanupFails, fsVars, reqVars, Goto, End, Reply
  <1>16. CASE UNCHANGED vars
    BY <1>16 DEF vars, fsVars, reqVars
  <1> QED
    BY <1>1, <1>2, <1>3, <1>4, <1>5, <1>6, <1>7, <1>8, <1>9, <1>10, <1>11, <1>12, <1>13, <1>14,
      <1>15, <1>16 DEF Next, Work

\* Only an unlink of the cleanup can take the last of an item, and only of one that a
\* skipped restore left in its container.
LEMMA LossStep ==
  TrashTypes /\ TrashTypes' /\ Residents /\ LossNeedsSkip /\ [Next]_vars => LossNeedsSkip'
  <1> SUFFICES ASSUME TrashTypes, TrashTypes', Residents, LossNeedsSkip, [Next]_vars
               PROVE  LossNeedsSkip'
    OBVIOUS
  <1> USE DEF TrashTypes, Residents, SkippedLate
  <1>1. ASSUME NEW r \in Request, RequestRestore(r)
        PROVE  LossNeedsSkip'
    BY <1>1, NothingMoreLost DEF RequestRestore, Pick, Goto, End, fsVars, Unstarted
  <1>2. ASSUME NEW r \in Request, RequestDelete(r)
        PROVE  LossNeedsSkip'
    BY <1>2, NothingMoreLost DEF RequestDelete, Pick, Goto, fsVars, Unstarted
  <1>3. ASSUME NEW r \in Request, MakeContainer(r)
        PROVE  LossNeedsSkip'
    BY <1>3, NothingMoreLost DEF MakeContainer, Goto, End, Unstarted
  <1>4. ASSUME NEW r \in Request, MoveToTrash(r)
        PROVE  LossNeedsSkip'
    <2>1. /\ UNCHANGED <<deleted, item>>
          /\ places' = places \/ \E a, b : Move(item[r], a, b) \/ Add(item[r], b)
      BY <1>4 DEF MoveToTrash, reqVars
    <2>2. \A q \in Request : outcome[q] = "skipped" => outcome'[q] = "skipped"
      BY <1>4 DEF MoveToTrash, Goto, End
    <2>3. \A i \in Item : places[i] # {} => places'[i] # {}
      BY <2>1, MovesKeepItems
    <2> QED
      BY <2>1, <2>2, <2>3, NothingMoreLost
  <1>5. ASSUME NEW r \in Request, UndoContainer(r)
        PROVE  LossNeedsSkip'
    BY <1>5, NothingMoreLost DEF UndoContainer, reqVars, Goto, End, Unstarted
  <1>6. ASSUME NEW r \in Request, SyncTrash(r)
        PROVE  LossNeedsSkip'
    BY <1>6, NothingMoreLost DEF SyncTrash, fsVars, reqVars, Goto, End, Unstarted
  <1>7. ASSUME NEW r \in Request, StageNote(r)
        PROVE  LossNeedsSkip'
    BY <1>7, NothingMoreLost DEF StageNote, reqVars, Goto, End, Unstarted
  <1>8. ASSUME NEW r \in Request, NameNote(r)
        PROVE  LossNeedsSkip'
    BY <1>8, NothingMoreLost DEF NameNote, reqVars, Goto, End, Unstarted
  <1>9. ASSUME NEW r \in Request, MoveOut(r)
        PROVE  LossNeedsSkip'
    <2>1. /\ UNCHANGED <<deleted, item>>
          /\ places' = places \/ \E a, b : Move(item[r], a, b) \/ Add(item[r], b)
      BY <1>9 DEF MoveOut, reqVars
    <2>2. \A q \in Request : outcome[q] = "skipped" => outcome'[q] = "skipped"
      BY <1>9 DEF MoveOut, Goto, End
    <2>3. \A i \in Item : places[i] # {} => places'[i] # {}
      BY <2>1, MovesKeepItems
    <2> QED
      BY <2>1, <2>2, <2>3, NothingMoreLost
  <1>10. ASSUME NEW r \in Request, Delete(r)
        PROVE  LossNeedsSkip'
    BY <1>10, NothingMoreLost DEF Delete, reqVars, Goto, End, Unstarted
  <1>11. ASSUME NEW r \in Request, ListContainer(r)
        PROVE  LossNeedsSkip'
    BY <1>11, ListContainerEffect, NothingMoreLost DEF fsVars, reqVars, Reply
  <1>12. ASSUME NEW r \in Request, UnlinkNote(r)
        PROVE  LossNeedsSkip'
    <2>1. pc[r] = "unlinking" /\ listed[r] \subseteq NoteName /\ kind[r] # "trash"
      BY <1>12 DEF UnlinkNote, Emptied
    <2>2. ASSUME NEW i \in Item, Lost(i)', ~Lost(i)
          PROVE  i \in Special /\ item[r] = i /\ outcome[r] = "skipped"
      <3>1. from[r] \in places[i] /\ \E n \in listed[r] : n = (IF i \in Special THEN "final" ELSE "data")
        BY <1>12, <2>2 DEF UnlinkNote, Lost
      <3> QED
        BY <2>1, <3>1 DEF NoteName, Chosen, Emptied
    <2>3. UNCHANGED item /\ \A q \in Request : outcome[q] = "skipped" => outcome'[q] = "skipped"
      BY <1>12 DEF UnlinkNote, reqVars, End, Goto, Reply
    <2> QED
      BY <2>2, <2>3 DEF LossNeedsSkip
  <1>13. ASSUME NEW r \in Request, RemoveContainer(r)
        PROVE  LossNeedsSkip'
    BY <1>13, NothingMoreLost DEF RemoveContainer, reqVars, Goto, End, Reply, Unstarted
  <1>14. ASSUME NEW r \in Request, Kill(r)
        PROVE  LossNeedsSkip'
    BY <1>14, NothingMoreLost DEF Kill, fsVars, reqVars, Unstarted
  <1>15. ASSUME NEW r \in Request, CleanupFails(r)
        PROVE  LossNeedsSkip'
    BY <1>15, NothingMoreLost DEF CleanupFails, fsVars, reqVars, Goto, End, Reply, Unstarted
  <1>16. CASE UNCHANGED vars
    BY <1>16 DEF vars, fsVars, reqVars, LossNeedsSkip, Lost
  <1> QED
    BY <1>1, <1>2, <1>3, <1>4, <1>5, <1>6, <1>7, <1>8, <1>9, <1>10, <1>11, <1>12, <1>13, <1>14,
      <1>15, <1>16 DEF Next, Work

-----------------------------------------------------------------------------

\* Nothing is in the trash at first.
LEMMA InvInit == Init => TrashInv
  BY TrashAssumption DEF Init, TrashInv, TrashTypes, Residents, SkippedLate, Unstarted, Untouched, Own,
    Chosen, Emptied, NothingOutside, LossNeedsSkip, Lost, Before, Place, NoteName

\* The invariant holds in every reachable state, for any set of requests and items.
THEOREM TrashInvariance == Spec => []TrashInv
  <1>1. TrashInv /\ [Next]_vars => TrashInv'
    BY TypesStep, ResidentsStep, OutsideStep, LossStep DEF TrashInv
  <1> QED
    BY <1>1, InvInit, PTL DEF Spec

\* However requests interleave and whenever they are killed, a container that was
\* removed took no item, no journal and no note with it (TrashCleanup, and the
\* removal of the container of a failed request in Trash).
THEOREM NothingIsStranded == Spec => []NothingOutside
  <1>1. TrashInv => NothingOutside
    BY DEF TrashInv
  <1> QED
    BY <1>1, TrashInvariance, PTL

\* An item is lost only if it has the name of the note and its restore was skipped:
\* for every other item TrashCleanup keeps its promise that a container which still
\* holds data is left alone.
THEOREM LossIsTheSkippedNote == Spec => []LossNeedsSkip
  <1>1. TrashInv => LossNeedsSkip
    BY DEF TrashInv
  <1> QED
    BY <1>1, TrashInvariance, PTL

-----------------------------------------------------------------------------
(* What is left over. *)

\* A request to trash is about its own container, and about an item.
Trashing ==
  \A r \in Request : kind[r] = "trash" =>
    from[r] = r /\ (pc[r] = "moving" => item[r] \in Item)

\* At most one note, under either name.
Single(names) == names \subseteq {"tmp"} \/ names \subseteq {"final"}

\* What a request writes into its own container, by its stage.
Written ==
  \A c \in Request :
    /\ pc[c] \in {"syncing", "undoing", "noting", "naming"} => kind[c] = "trash"
    /\ kind[c] # "trash" \/ pc[c] \in {"syncing", "undoing", "noting"} => notes[c] = {}
    /\ pc[c] = "naming" => notes[c] \subseteq {"tmp"}
    /\ pc[c] = "done" => Single(notes[c])
    /\ kind[c] = "trash" /\ item[c] \in Special => notes[c] = {} /\ pc[c] \notin {"noting", "naming"}

\* Who takes up a container in time finds its request at its end.
InTime ==
  \A c \in Request \ early, r \in Request : from[r] = c /\ r # c => pc[c] \in {"done", "killed"}

\* Until then the item is in it.
Filled ==
  \A c \in containers \ early :
    pc[c] \in {"syncing", "noting", "naming"} => \E i \in Item : c \in places[i]

\* A cleanup of a container whose request has ended has listed all notes there are.
AllListed ==
  \A c \in Request \ early, r \in Request :
    from[r] = c /\ r # c /\ pc[r] = "unlinking" /\ pc[c] = "done" =>
      notes[c] \subseteq listed[r] /\ Single(listed[r])

\* Request r will remove container c, or fail.
Pending(r, c) ==
  /\ from[r] = c /\ r # c
  /\ pc[r] \in {"moving", "listing"} \/ (pc[r] = "unlinking" /\ listed[r] \subseteq Names(c))

\* A container that nobody wants is somebody's to remove.
Swept ==
  (\A r \in Request : pc[r] # "killed") =>
    \A c \in containers \ (early \cup troubled) : pc[c] = "done" => Wanted(c) \/ \E r \in Request : Pending(r, c)

SweepInv == Trashing /\ Written /\ InTime /\ Filled /\ AllListed /\ Swept

\* A step of one request.
StepOf(r) ==
  \/ (RequestRestore(r) \/ RequestDelete(r)) /\ UNCHANGED troubled
  \/ Work(r) /\ UNCHANGED early

\* It leaves the other requests as they are.
LEMMA OthersFrame ==
  ASSUME TrashTypes, NEW r \in Request, StepOf(r)
  PROVE  \A q \in Request \ {r} :
           /\ pc'[q] = pc[q] /\ kind'[q] = kind[q] /\ item'[q] = item[q] /\ from'[q] = from[q]
           /\ listed'[q] = listed[q] /\ outcome'[q] = outcome[q]
  <1> USE DEF TrashTypes
  <1>1. CASE RequestRestore(r)
    BY <1>1 DEF RequestRestore, Pick, Goto, End, fsVars
  <1>2. CASE RequestDelete(r)
    BY <1>2 DEF RequestDelete, Pick, Goto, fsVars
  <1>3. CASE MakeContainer(r)
    BY <1>3 DEF MakeContainer, Goto, End
  <1>4. CASE MoveToTrash(r)
    BY <1>4 DEF MoveToTrash, Goto, Move, Add, reqVars
  <1>5. CASE UndoContainer(r)
    BY <1>5 DEF UndoContainer, Goto, End, reqVars
  <1>6. CASE SyncTrash(r)
    BY <1>6 DEF SyncTrash, Goto, End, fsVars, reqVars
  <1>7. CASE StageNote(r)
    BY <1>7 DEF StageNote, Goto, End, reqVars
  <1>8. CASE NameNote(r)
    BY <1>8 DEF NameNote, Goto, End, reqVars
  <1>9. CASE MoveOut(r)
    BY <1>9 DEF MoveOut, Goto, End, Move, Add, reqVars
  <1>10. CASE Delete(r)
    BY <1>10 DEF Delete, Goto, End, reqVars
  <1>11. CASE ListContainer(r)
    BY <1>11 DEF ListContainer, Goto, End, fsVars, reqVars
  <1>12. CASE UnlinkNote(r)
    BY <1>12 DEF UnlinkNote, Goto, End, reqVars
  <1>13. CASE RemoveContainer(r)
    BY <1>13 DEF RemoveContainer, Goto, End, reqVars
  <1>14. CASE Kill(r)
    BY <1>14 DEF Kill, fsVars, reqVars
  <1>15. CASE CleanupFails(r)
    BY <1>15 DEF CleanupFails, Goto, End, fsVars, reqVars
  <1> QED
    BY <1>1, <1>2, <1>3, <1>4, <1>5, <1>6, <1>7, <1>8, <1>9, <1>10, <1>11, <1>12, <1>13,
      <1>14, <1>15 DEF StepOf, Work

\* It concerns its own container, and the one it is about.
LEMMA Elsewhere ==
  ASSUME TrashTypes, Trashing, Unstarted, NEW r \in Request, StepOf(r), NEW c \in Request, c # r, c # from[r]
  PROVE  /\ notes'[c] = notes[c] /\ (c \in journals' <=> c \in journals)
         /\ (c \in containers' <=> c \in containers)
         /\ \A i \in Item : c \in places'[i] <=> c \in places[i]
  <1> USE TrashAssumption DEF TrashTypes
  <1>1. CASE RequestRestore(r)
    BY <1>1 DEF RequestRestore, Pick, Goto, End, fsVars
  <1>2. CASE RequestDelete(r)
    BY <1>2 DEF RequestDelete, Pick, Goto, fsVars
  <1>3. CASE MakeContainer(r)
    BY <1>3 DEF MakeContainer, Goto, End
  <1>4. CASE MoveToTrash(r)
    BY <1>4 DEF MoveToTrash, Goto, Move, Add, reqVars
  <1>5. CASE UndoContainer(r)
    <2>1. UNCHANGED <<places, notes, journals>> /\ (Rmdir(r) \/ UNCHANGED containers)
      BY <1>5 DEF UndoContainer
    <2> QED
      BY <2>1, RmdirTakesEmpty
  <1>6. CASE SyncTrash(r)
    BY <1>6 DEF SyncTrash, Goto, End, fsVars, reqVars
  <1>7. CASE StageNote(r)
    BY <1>7 DEF StageNote, Goto, End, reqVars
  <1>8. CASE NameNote(r)
    BY <1>8 DEF NameNote, Goto, End, reqVars
  <1>9. CASE MoveOut(r)
    BY <1>9 DEF MoveOut, Goto, End, Move, Add, reqVars
  <1>10. CASE Delete(r)
    BY <1>10 DEF Delete, Goto, End, reqVars
  <1>11. CASE ListContainer(r)
    BY <1>11 DEF ListContainer, Goto, End, fsVars, reqVars
  <1>12. CASE UnlinkNote(r)
    BY <1>12 DEF UnlinkNote, Goto, End, reqVars
  <1>13. CASE RemoveContainer(r)
    <2>1. UNCHANGED <<places, notes, journals>> /\ Rmdir(from[r]) /\ from[r] \in Request
      BY <1>13 DEF RemoveContainer
    <2> QED
      BY <2>1, RmdirTakesEmpty
  <1>14. CASE Kill(r)
    BY <1>14 DEF Kill, fsVars, reqVars
  <1>15. CASE CleanupFails(r)
    BY <1>15 DEF CleanupFails, Goto, End, fsVars, reqVars
  <1> QED
    BY <1>1, <1>2, <1>3, <1>4, <1>5, <1>6, <1>7, <1>8, <1>9, <1>10, <1>11, <1>12, <1>13,
      <1>14, <1>15 DEF StepOf, Work

\* A request that is about a container of another one is a restore or a deletion.
LEMMA AboutAnother ==
  ASSUME TrashTypes, Trashing, NEW r \in Request, NEW c \in Request, from[r] = c, r # c
  PROVE  kind[r] # "trash"
  BY DEF Trashing

\* An rmdir is the last step of its request, and takes at most the folder.
LEMMA RemovalEffect ==
  ASSUME TrashTypes, NEW r \in Request, UndoContainer(r) \/ RemoveContainer(r)
  PROVE  /\ UNCHANGED <<places, notes, journals, reqVars, listed>> /\ containers' \subseteq containers
         /\ pc[r] \in {"undoing", "unlinking"} /\ pc' = [pc EXCEPT ![r] = "done"]
  <1>1. from[r] \in Request
    BY DEF TrashTypes
  <1> QED
    BY <1>1, RmdirTakesEmpty DEF UndoContainer, RemoveContainer, End, Goto

\* A request keeps the container it is about.
LEMMA TrashingStep ==
  ASSUME TrashTypes, Residents, SweepInv, NEW r \in Request, StepOf(r)
  PROVE  Trashing'
  <1> USE TrashAssumption DEF TrashTypes, NoteName, SweepInv, Trashing
  <1>1. CASE RequestRestore(r)
    BY <1>1 DEF RequestRestore, Pick, Goto, End, fsVars
  <1>2. CASE RequestDelete(r)
    BY <1>2 DEF RequestDelete, Pick, Goto, fsVars
  <1>3. CASE MakeContainer(r) /\ UNCHANGED early
    BY <1>3 DEF MakeContainer, Goto, End
  <1>4. CASE MoveToTrash(r) /\ UNCHANGED early
    BY <1>4 DEF MoveToTrash, Goto, Move, Add, reqVars
  <1>5. CASE UndoContainer(r) /\ UNCHANGED early
    BY <1>5 DEF UndoContainer, Goto, End, reqVars
  <1>6. CASE SyncTrash(r) /\ UNCHANGED early
    BY <1>6 DEF SyncTrash, Goto, End, fsVars, reqVars
  <1>7. CASE StageNote(r) /\ UNCHANGED early
    BY <1>7 DEF StageNote, Goto, End, reqVars
  <1>8. CASE NameNote(r) /\ UNCHANGED early
    BY <1>8 DEF NameNote, Goto, End, reqVars
  <1>9. CASE MoveOut(r) /\ UNCHANGED early
    BY <1>9 DEF MoveOut, Goto, End, Move, Add, reqVars
  <1>10. CASE Delete(r) /\ UNCHANGED early
    BY <1>10 DEF Delete, Goto, End, reqVars
  <1>11. CASE ListContainer(r) /\ UNCHANGED early
    BY <1>11 DEF ListContainer, Goto, End, OnlyNotes, Names, fsVars, reqVars
  <1>12. CASE UnlinkNote(r) /\ UNCHANGED early
    BY <1>12 DEF UnlinkNote, Goto, End, Names, reqVars
  <1>13. CASE RemoveContainer(r) /\ UNCHANGED early
    BY <1>13 DEF RemoveContainer, Goto, End, reqVars
  <1>14. CASE Kill(r) /\ UNCHANGED early
    BY <1>14 DEF Kill, fsVars, reqVars
  <1>15. CASE CleanupFails(r) /\ UNCHANGED early
    BY <1>15 DEF CleanupFails, Goto, End, fsVars, reqVars
  <1> QED
    BY <1>1, <1>2, <1>3, <1>4, <1>5, <1>6, <1>7, <1>8, <1>9, <1>10, <1>11, <1>12, <1>13,
      <1>14, <1>15 DEF StepOf, Work

\* Notes are written by their own request, one name after the other.
LEMMA WrittenStep ==
  ASSUME TrashTypes, Residents, SweepInv, NEW r \in Request, StepOf(r)
  PROVE  Written'
  <1> USE TrashAssumption DEF TrashTypes, NoteName, SweepInv, Written, Single, Residents, Unstarted, Untouched,
    Chosen, Emptied, Before
  <1>1. CASE RequestRestore(r)
    BY <1>1 DEF RequestRestore, Pick, Goto, End, fsVars
  <1>2. CASE RequestDelete(r)
    BY <1>2 DEF RequestDelete, Pick, Goto, fsVars
  <1>3. CASE MakeContainer(r) /\ UNCHANGED early
    BY <1>3 DEF MakeContainer, Goto, End
  <1>4. CASE MoveToTrash(r) /\ UNCHANGED early
    BY <1>4 DEF MoveToTrash, Goto, Move, Add, reqVars
  <1>5. CASE UndoContainer(r) /\ UNCHANGED early
    BY <1>5, RemovalEffect DEF reqVars
  <1>6. CASE SyncTrash(r) /\ UNCHANGED early
    BY <1>6 DEF SyncTrash, Goto, End, fsVars, reqVars
  <1>7. CASE StageNote(r) /\ UNCHANGED early
    BY <1>7 DEF StageNote, Goto, End, reqVars
  <1>8. CASE NameNote(r) /\ UNCHANGED early
    BY <1>8 DEF NameNote, Goto, End, reqVars
  <1>9. CASE MoveOut(r) /\ UNCHANGED early
    BY <1>9 DEF MoveOut, Goto, End, Move, Add, reqVars
  <1>10. CASE Delete(r) /\ UNCHANGED early
    BY <1>10 DEF Delete, Goto, End, reqVars
  <1>11. CASE ListContainer(r) /\ UNCHANGED early
    <2>1. /\ UNCHANGED <<fsVars, reqVars>> /\ pc[r] = "listing" /\ pc'[r] \in {"unlinking", "done"}
          /\ \A q \in Request \ {r} : pc'[q] = pc[q]
      BY <1>11 DEF ListContainer, Goto, End
    <2> QED
      BY <2>1 DEF fsVars, reqVars
  <1>12. CASE UnlinkNote(r) /\ UNCHANGED early
    BY <1>12 DEF UnlinkNote, Goto, End, Names, reqVars
  <1>13. CASE RemoveContainer(r) /\ UNCHANGED early
    BY <1>13, RemovalEffect DEF reqVars
  <1>14. CASE Kill(r) /\ UNCHANGED early
    BY <1>14 DEF Kill, fsVars, reqVars
  <1>15. CASE CleanupFails(r) /\ UNCHANGED early
    BY <1>15 DEF CleanupFails, Goto, End, fsVars, reqVars
  <1> QED
    BY <1>1, <1>2, <1>3, <1>4, <1>5, <1>6, <1>7, <1>8, <1>9, <1>10, <1>11, <1>12, <1>13,
      <1>14, <1>15 DEF StepOf, Work

\* Who finds a request running has been early.
LEMMA InTimeStep ==
  ASSUME TrashTypes, Residents, SweepInv, NEW r \in Request, StepOf(r)
  PROVE  InTime'
  <1> USE TrashAssumption DEF TrashTypes, NoteName, SweepInv, InTime
  <1>1. CASE RequestRestore(r)
    BY <1>1 DEF RequestRestore, Pick, Goto, End, fsVars
  <1>2. CASE RequestDelete(r)
    BY <1>2 DEF RequestDelete, Pick, Goto, fsVars
  <1>3. CASE MakeContainer(r) /\ UNCHANGED early
    BY <1>3 DEF MakeContainer, Goto, End
  <1>4. CASE MoveToTrash(r) /\ UNCHANGED early
    BY <1>4 DEF MoveToTrash, Goto, Move, Add, reqVars
  <1>5. CASE UndoContainer(r) /\ UNCHANGED early
    BY <1>5, RemovalEffect DEF reqVars
  <1>6. CASE SyncTrash(r) /\ UNCHANGED early
    BY <1>6 DEF SyncTrash, Goto, End, fsVars, reqVars
  <1>7. CASE StageNote(r) /\ UNCHANGED early
    BY <1>7 DEF StageNote, Goto, End, reqVars
  <1>8. CASE NameNote(r) /\ UNCHANGED early
    BY <1>8 DEF NameNote, Goto, End, reqVars
  <1>9. CASE MoveOut(r) /\ UNCHANGED early
    BY <1>9 DEF MoveOut, Goto, End, Move, Add, reqVars
  <1>10. CASE Delete(r) /\ UNCHANGED early
    BY <1>10 DEF Delete, Goto, End, reqVars
  <1>11. CASE ListContainer(r) /\ UNCHANGED early
    BY <1>11 DEF ListContainer, Goto, End, OnlyNotes, Names, fsVars, reqVars
  <1>12. CASE UnlinkNote(r) /\ UNCHANGED early
    BY <1>12 DEF UnlinkNote, Goto, End, Names, reqVars
  <1>13. CASE RemoveContainer(r) /\ UNCHANGED early
    BY <1>13, RemovalEffect DEF reqVars
  <1>14. CASE Kill(r) /\ UNCHANGED early
    BY <1>14 DEF Kill, fsVars, reqVars
  <1>15. CASE CleanupFails(r) /\ UNCHANGED early
    BY <1>15 DEF CleanupFails, Goto, End, fsVars, reqVars
  <1> QED
    BY <1>1, <1>2, <1>3, <1>4, <1>5, <1>6, <1>7, <1>8, <1>9, <1>10, <1>11, <1>12, <1>13,
      <1>14, <1>15 DEF StepOf, Work

\* While the request runs, nobody takes its item, unless he was early.
LEMMA FilledStep ==
  ASSUME TrashTypes, Residents, SweepInv, NEW r \in Request, StepOf(r)
  PROVE  Filled'
  <1> USE TrashAssumption DEF TrashTypes, NoteName, SweepInv, Filled, InTime, Residents, Unstarted,
    Untouched, Own, Chosen, Emptied, Before
  <1>1. CASE RequestRestore(r)
    BY <1>1 DEF RequestRestore, Pick, Goto, End, fsVars
  <1>2. CASE RequestDelete(r)
    BY <1>2 DEF RequestDelete, Pick, Goto, fsVars
  <1>3. CASE MakeContainer(r) /\ UNCHANGED early
    BY <1>3 DEF MakeContainer, Goto, End
  <1>4. CASE MoveToTrash(r) /\ UNCHANGED early
    <2>1. /\ pc[r] = "moving" /\ kind[r] = "trash" /\ UNCHANGED <<containers, notes, reqVars, early>>
          /\ \A q \in Request \ {r} : pc'[q] = pc[q]
      BY <1>4 DEF MoveToTrash, Goto
    <2>2. \/ pc'[r] \in {"undoing"}
          \/ pc'[r] = "syncing" /\ Move(item[r], Home, r) /\ Home \in places[item[r]]
      BY <1>4 DEF MoveToTrash, Goto
    <2>3. \A i \in Item, c \in Request : c \in places[i] => c \in places'[i]
      BY <1>4 DEF MoveToTrash, Move, Add
    <2>4. ASSUME pc'[r] = "syncing", r \in containers \ early
          PROVE  \E i \in Item : r \in places'[i]
      BY <2>1, <2>2, <2>4 DEF Move, Trashing
    <2> QED
      BY <2>1, <2>2, <2>3, <2>4 DEF reqVars
  <1>5. CASE UndoContainer(r) /\ UNCHANGED early
    BY <1>5, RemovalEffect DEF reqVars
  <1>6. CASE SyncTrash(r) /\ UNCHANGED early
    BY <1>6 DEF SyncTrash, Goto, End, fsVars, reqVars
  <1>7. CASE StageNote(r) /\ UNCHANGED early
    BY <1>7 DEF StageNote, Goto, End, reqVars
  <1>8. CASE NameNote(r) /\ UNCHANGED early
    BY <1>8 DEF NameNote, Goto, End, reqVars
  <1>9. CASE MoveOut(r) /\ UNCHANGED early
    BY <1>9 DEF MoveOut, Goto, End, Move, Add, reqVars
  <1>10. CASE Delete(r) /\ UNCHANGED early
    BY <1>10 DEF Delete, Goto, End, reqVars
  <1>11. CASE ListContainer(r) /\ UNCHANGED early
    <2>1. pc'[r] \in {"unlinking", "done"} /\ UNCHANGED <<fsVars, reqVars, early>>
          /\ \A q \in Request \ {r} : pc'[q] = pc[q]
      BY <1>11 DEF ListContainer, Goto, End
    <2> QED
      BY <2>1 DEF fsVars, reqVars
  <1>12. CASE UnlinkNote(r) /\ UNCHANGED early
    BY <1>12 DEF UnlinkNote, Goto, End, Names, reqVars
  <1>13. CASE RemoveContainer(r) /\ UNCHANGED early
    BY <1>13, RemovalEffect DEF reqVars
  <1>14. CASE Kill(r) /\ UNCHANGED early
    BY <1>14 DEF Kill, fsVars, reqVars
  <1>15. CASE CleanupFails(r) /\ UNCHANGED early
    BY <1>15 DEF CleanupFails, Goto, End, fsVars, reqVars
  <1> QED
    BY <1>1, <1>2, <1>3, <1>4, <1>5, <1>6, <1>7, <1>8, <1>9, <1>10, <1>11, <1>12, <1>13,
      <1>14, <1>15 DEF StepOf, Work

\* A cleanup lists what is there, and nothing is written afterwards.
LEMMA AllListedStep ==
  ASSUME TrashTypes, Residents, SweepInv, NEW r \in Request, StepOf(r)
  PROVE  AllListed'
  <1> USE TrashAssumption DEF TrashTypes, NoteName, SweepInv, AllListed, InTime, Written, Residents,
    Unstarted, Untouched, Chosen, Emptied, Before
  <1>1. CASE RequestRestore(r)
    BY <1>1 DEF RequestRestore, Pick, Goto, End, fsVars
  <1>2. CASE RequestDelete(r)
    BY <1>2 DEF RequestDelete, Pick, Goto, fsVars
  <1>3. CASE MakeContainer(r) /\ UNCHANGED early
    BY <1>3 DEF MakeContainer, Goto, End
  <1>4. CASE MoveToTrash(r) /\ UNCHANGED early
    BY <1>4 DEF MoveToTrash, Goto, Move, Add, reqVars
  <1>5. CASE UndoContainer(r) /\ UNCHANGED early
    BY <1>5, RemovalEffect DEF reqVars
  <1>6. CASE SyncTrash(r) /\ UNCHANGED early
    BY <1>6 DEF SyncTrash, Goto, End, fsVars, reqVars
  <1>7. CASE StageNote(r) /\ UNCHANGED early
    BY <1>7 DEF StageNote, Goto, End, reqVars
  <1>8. CASE NameNote(r) /\ UNCHANGED early
    BY <1>8 DEF NameNote, Goto, End, reqVars
  <1>9. CASE MoveOut(r) /\ UNCHANGED early
    BY <1>9 DEF MoveOut, Goto, End, Move, Add, reqVars
  <1>10. CASE Delete(r) /\ UNCHANGED early
    BY <1>10 DEF Delete, Goto, End, reqVars
  <1>11. CASE ListContainer(r) /\ UNCHANGED early
    <2>1. /\ UNCHANGED <<fsVars, reqVars, early>>
          /\ \A q \in Request \ {r} : pc'[q] = pc[q] /\ listed'[q] = listed[q]
          /\ pc[r] = "listing" /\ pc'[r] \in {"unlinking", "done"}
          /\ pc'[r] = "unlinking" => listed'[r] = Names(from[r]) /\ Names(from[r]) \subseteq NoteName
      BY <1>11 DEF ListContainer, Goto, End, OnlyNotes
    <2>2. ASSUME NEW c \in Request \ early, from[r] = c, r # c, pc'[r] = "unlinking", pc[c] = "done"
          PROVE  notes[c] \subseteq listed'[r] /\ Single(listed'[r])
      <3>1. kind[c] = "trash" /\ Names(c) \subseteq NoteName
        BY <2>1, <2>2
      <3>2. CASE item[c] \in Special
        BY <2>1, <2>2, <3>1, <3>2 DEF Names, Single
      <3>3. CASE item[c] \notin Special
        <4>1. \A i \in Special : c \notin places[i]
          BY <3>1, <3>3 DEF Own
        <4>2. Names(c) \subseteq notes[c]
          BY <3>1, <4>1 DEF Names
        <4> QED
          BY <2>1, <2>2, <4>2 DEF Names, Single
      <3> QED
        BY <3>2, <3>3
    <2> QED
      BY <2>1, <2>2 DEF fsVars, reqVars
  <1>12. CASE UnlinkNote(r) /\ UNCHANGED early
    <2>1. PICK n \in listed[r] :
            /\ pc[r] = "unlinking" /\ pc'[r] \in {"unlinking", "done"}
            /\ listed' = [listed EXCEPT ![r] = @ \ {n}]
            /\ \/ notes' = [notes EXCEPT ![from[r]] = @ \ {n}]
               \/ UNCHANGED notes /\ pc'[r] = "done"
            /\ \A q \in Request \ {r} : pc'[q] = pc[q]
            /\ from' = from /\ early' = early
      <3>1. PICK n \in listed[r] :
              /\ listed' = [listed EXCEPT ![r] = @ \ {n}]
              /\ \/ notes' = [notes EXCEPT ![from[r]] = @ \ {n}] /\ pc' = pc
                 \/ notes' = notes /\ pc' = [pc EXCEPT ![r] = "done"]
        BY <1>12 DEF UnlinkNote, Goto, End
      <3>2. pc[r] = "unlinking" /\ from' = from
        BY <1>12 DEF UnlinkNote, reqVars
      <3>3. pc'[r] \in {"unlinking", "done"} /\ \A q \in Request \ {r} : pc'[q] = pc[q]
        BY <3>1, <3>2
      <3>4. (notes' = [notes EXCEPT ![from[r]] = @ \ {n}]) \/ (UNCHANGED notes /\ pc'[r] = "done")
        BY <3>1
      <3> QED
        BY <1>12, <3>1, <3>2, <3>3, <3>4
    <2>2. \A q \in Request : notes'[q] \subseteq notes[q] /\ listed'[q] \subseteq listed[q]
      BY <2>1
    <2>3. pc[r] # "done" /\ \A q \in Request : pc'[q] = "unlinking" => pc[q] = "unlinking"
      BY <2>1
    <2>4. ASSUME NEW c \in Request \ early, NEW q \in Request, from[q] = c, q # c, pc'[q] = "unlinking",
                 pc'[c] = "done"
          PROVE  notes'[c] \subseteq listed'[q] /\ Single(listed'[q])
      <3>1. kind[r] # "trash" /\ kind[q] # "trash"
        BY <2>1, <2>3, <2>4
      <3>2. c # r
        BY <2>4, <3>1, <2>1
      <3>3. notes[c] \subseteq listed[q] /\ Single(listed[q])
        BY <2>1, <2>3, <2>4, <3>2
      <3>4. notes'[c] \subseteq listed'[q]
        BY <2>1, <2>2, <2>4, <3>3
      <3> QED
        BY <2>2, <3>3, <3>4 DEF Single
    <2> QED
      BY <2>1, <2>4
  <1>13. CASE RemoveContainer(r) /\ UNCHANGED early
    BY <1>13, RemovalEffect DEF reqVars
  <1>14. CASE Kill(r) /\ UNCHANGED early
    BY <1>14 DEF Kill, fsVars, reqVars
  <1>15. CASE CleanupFails(r) /\ UNCHANGED early
    BY <1>15 DEF CleanupFails, Goto, End, fsVars, reqVars
  <1> QED
    BY <1>1, <1>2, <1>3, <1>4, <1>5, <1>6, <1>7, <1>8, <1>9, <1>10, <1>11, <1>12, <1>13,
      <1>14, <1>15 DEF StepOf, Work

\* A request that is over takes no step, nor does one that was killed.
LEMMA ActorsRun ==
  ASSUME TrashTypes, NEW r \in Request, StepOf(r)
  PROVE  pc[r] \notin {"done", "killed"}
  BY DEF StepOf, Work, RequestRestore, RequestDelete, MakeContainer, MoveToTrash, UndoContainer, SyncTrash,
    StageNote, NameNote, MoveOut, Delete, ListContainer, UnlinkNote, RemoveContainer, CleanupFails, Kill, Goto, End

\* What a container lists besides its notes is an item or a journal.
LEMMA MoreThanNotes ==
  ASSUME TrashTypes, NEW c \in Request, Names(c) # {}, notes[c] = {} \/ ~(Names(c) \subseteq NoteName)
  PROVE  c \in journals \/ \E i \in Item : c \in places[i]
  BY TrashAssumption DEF TrashTypes, Names, NoteName

\* The same things in a container have the same names.
LEMMA SameNames ==
  ASSUME NEW c \in Request, notes'[c] = notes[c], c \in journals' <=> c \in journals,
         \A i \in Item : c \in places'[i] <=> c \in places[i]
  PROVE  Names(c)' = Names(c)
  BY TrashAssumption DEF Names

\* A request that begins is pending, or has failed.
LEMMA BeginnersPend ==
  ASSUME TrashTypes, NEW r \in Request, NEW c \in Request, RequestRestore(r) \/ RequestDelete(r),
         from'[r] = c, r # c
  PROVE  Wanted(c)' \/ Pending(r, c)'
  <1>1. from' \in [Request -> Request]
    BY DEF RequestRestore, RequestDelete, Pick, TrashTypes
  <1>2. pc'[r] = "moving" \/ outcome'[r] = "failed"
    BY DEF RequestRestore, RequestDelete, Goto, End, TrashTypes
  <1> QED
    BY <1>1, <1>2 DEF Wanted, Pending

\* A step elsewhere leaves a container its reasons to be there, and those who will remove it.
LEMMA OthersKeepCare ==
  ASSUME TrashTypes, Trashing, Unstarted, NEW r \in Request, StepOf(r), NEW c \in Request, c # r, c # from[r],
         Wanted(c) \/ \E q \in Request : Pending(q, c)
  PROVE  Wanted(c)' \/ \E q \in Request : Pending(q, c)'
  <1>1. /\ notes'[c] = notes[c] /\ (c \in journals' <=> c \in journals)
        /\ \A i \in Item : c \in places'[i] <=> c \in places[i]
    BY Elsewhere
  <1>2. Names(c)' = Names(c)
    BY <1>1, SameNames
  <1>3. \A q \in Request \ {r} :
           pc'[q] = pc[q] /\ from'[q] = from[q] /\ listed'[q] = listed[q] /\ outcome'[q] = outcome[q]
    BY OthersFrame
  <1>4. CASE Wanted(c)
    BY <1>1, <1>3, <1>4 DEF Wanted
  <1>5. CASE \E q \in Request : Pending(q, c)
    <2>1. PICK q \in Request : Pending(q, c)
      BY <1>5
    <2>2. q # r
      BY <2>1 DEF Pending
    <2>3. Pending(q, c)'
      BY <1>2, <1>3, <2>1, <2>2 DEF Pending
    <2> QED
      BY <2>3
  <1> QED
    BY <1>4, <1>5

\* Who takes an item out of a container goes on to its removal, or fails.
LEMMA TakersPend ==
  ASSUME TrashTypes, NEW r \in Request, NEW c \in Request, MoveOut(r) \/ Delete(r), from[r] = c, r # c
  PROVE  Wanted(c)' \/ Pending(r, c)'
  <1>1. from' = from
    BY DEF MoveOut, Delete, reqVars
  <1>2. pc'[r] = "listing" \/ outcome'[r] = "failed"
    BY DEF MoveOut, Delete, Goto, End, TrashTypes
  <1> QED
    BY <1>1, <1>2 DEF Wanted, Pending

\* Who lists a container goes on to its removal, or finds in it what keeps it.
LEMMA ListersPend ==
  ASSUME TrashTypes, NEW r \in Request, NEW c \in containers, ListContainer(r), from[r] = c, r # c
  PROVE  Wanted(c)' \/ Pending(r, c)'
  <1>1. UNCHANGED <<notes, journals, places, from>> /\ c \in Request
    BY DEF ListContainer, fsVars, reqVars, TrashTypes
  <1>2. Names(c)' = Names(c)
    BY <1>1, SameNames
  <1>3. CASE Names(c) \subseteq NoteName
    <2>1. pc'[r] = "unlinking" /\ listed'[r] = Names(c)
      BY <1>3 DEF ListContainer, Goto, OnlyNotes, TrashTypes
    <2> QED
      BY <1>1, <1>2, <2>1 DEF Pending
  <1>4. CASE ~(Names(c) \subseteq NoteName)
    <2>1. c \in journals \/ \E i \in Item : c \in places[i]
      BY <1>1, <1>4, MoreThanNotes
    <2> QED
      BY <1>1, <2>1 DEF Wanted
  <1> QED
    BY <1>3, <1>4

\* Who unlinks the note goes on to the removal; who finds it gone leaves that to others.
LEMMA UnlinkersPend ==
  ASSUME TrashTypes, AllListed, NEW r \in Request, NEW c \in Request \ early, UnlinkNote(r), from[r] = c, r # c,
         pc[c] = "done", StepOf(r), Wanted(c) \/ \E q \in Request : Pending(q, c)
  PROVE  Wanted(c)' \/ \E q \in Request : Pending(q, c)'
  <1>1. /\ pc[r] = "unlinking" /\ UNCHANGED <<journals, reqVars>>
        /\ Single(listed[r])
    BY DEF UnlinkNote, AllListed
  <1>2. PICK n \in listed[r] :
          /\ listed' = [listed EXCEPT ![r] = @ \ {n}]
          /\ \/ UNCHANGED pc
             \/ /\ n \notin Names(c) \ {"journal"} /\ UNCHANGED <<notes, places>>
                /\ outcome' = [outcome EXCEPT ![r] = Reply(r)]
    BY DEF UnlinkNote, End
  <1>3. listed'[r] = {} /\ n # "journal"
    BY <1>1, <1>2 DEF TrashTypes, Single
  <1>4. CASE UNCHANGED pc
    BY <1>1, <1>3, <1>4 DEF Pending, reqVars
  <1>5. CASE n \notin Names(c) /\ UNCHANGED <<notes, places>> /\ outcome' = [outcome EXCEPT ![r] = Reply(r)]
    <2>1. ~Pending(r, c)
      BY <1>1, <1>2, <1>5 DEF Pending
    <2>2. Names(c)' = Names(c)
      BY <1>1, <1>5, SameNames
    <2>3. ASSUME Wanted(c)
          PROVE  Wanted(c)'
      BY <1>1, <1>5, <2>3 DEF Wanted, Reply, reqVars, TrashTypes
    <2>4. ASSUME NEW q \in Request, Pending(q, c)
          PROVE  Pending(q, c)'
      <3>1. q # r
        BY <2>1, <2>4
      <3>2. pc'[q] = pc[q] /\ from'[q] = from[q] /\ listed'[q] = listed[q]
        BY <3>1, OthersFrame
      <3> QED
        BY <2>2, <2>4, <3>2 DEF Pending
    <2> QED
      BY <2>3, <2>4
  <1> QED
    BY <1>2, <1>3, <1>4, <1>5

\* A container that is not removed though its note is, holds what keeps it.
LEMMA RemoversLeaveWanted ==
  ASSUME TrashTypes, NEW c \in Request, Rmdir(c), c \in containers', notes[c] = {},
         UNCHANGED <<places, notes, journals>>
  PROVE  Wanted(c)'
  <1>1. Names(c) # {}
    BY DEF Rmdir
  <1>2. c \in journals \/ \E i \in Item : c \in places[i]
    BY <1>1, MoreThanNotes
  <1> QED
    BY <1>2 DEF Wanted

\* A request that ends leaves in its own container what keeps it.
LEMMA EndersLeaveWanted ==
  ASSUME TrashTypes, Residents, SweepInv, NEW r \in Request, StepOf(r), pc'[r] = "done",
         r \in containers', r \notin early', r \notin troubled'
  PROVE  Wanted(r)'
  <1> USE DEF TrashTypes
  <1>1. ASSUME r \in containers, UNCHANGED places, early' = early, pc[r] \in {"syncing", "noting", "naming"}
        PROVE  Wanted(r)'
    BY <1>1 DEF Wanted, SweepInv, Filled
  <1>2. ASSUME containers' = containers, pc[r] = "idle"
        PROVE  FALSE
    BY <1>2 DEF Residents, Unstarted
  <1>3. ASSUME containers' \subseteq containers, kind[r] # "trash"
        PROVE  FALSE
    BY <1>3 DEF Residents, Own
  <1>4. CASE RequestRestore(r) \/ RequestDelete(r)
    <2>1. containers' = containers /\ pc[r] = "idle"
      BY <1>4 DEF RequestRestore, RequestDelete, Pick, fsVars, Goto, End
    <2> QED
      BY <2>1, <1>2
  <1>5. CASE MakeContainer(r)
    <2>1. containers' = containers /\ pc[r] = "idle"
      BY <1>5 DEF MakeContainer, Goto, End
    <2> QED
      BY <2>1, <1>2
  <1>6. CASE MoveToTrash(r)
    BY <1>6 DEF MoveToTrash, Goto
  <1>7. CASE UndoContainer(r)
    <2>1. UNCHANGED <<places, notes, journals>> /\ Rmdir(r) /\ pc[r] = "undoing"
      BY <1>7 DEF UndoContainer, End, Goto
    <2>2. notes[r] = {}
      BY <2>1 DEF SweepInv, Written
    <2> QED
      BY <2>1, <2>2, RemoversLeaveWanted
  <1>8. CASE (SyncTrash(r) \/ StageNote(r) \/ NameNote(r)) /\ UNCHANGED early
    BY <1>8, <1>1 DEF SyncTrash, StageNote, NameNote, Goto, End, fsVars
  <1>9. CASE MoveOut(r) \/ Delete(r) \/ ListContainer(r) \/ UnlinkNote(r)
    <2>1. containers' = containers /\ kind[r] # "trash"
      BY <1>9 DEF MoveOut, Delete, ListContainer, UnlinkNote, Goto, End, fsVars, Residents, Emptied
    <2> QED
      BY <2>1, <1>3
  <1>10. CASE RemoveContainer(r)
    <2>1. containers' \subseteq containers
      BY <1>10, RmdirTakesEmpty DEF RemoveContainer
    <2>2. kind[r] # "trash"
      BY <1>10 DEF RemoveContainer, End, Goto, Residents, Emptied
    <2> QED
      BY <2>1, <2>2, <1>3
  <1>11. CASE Kill(r)
    BY <1>11 DEF Kill
  <1>12. CASE CleanupFails(r)
    <2>1. containers' = containers /\ kind[r] # "trash"
      BY <1>12 DEF CleanupFails, End, Goto, fsVars, Residents, Emptied
    <2> QED
      BY <2>1, <1>3
  <1> QED
    BY <1>4, <1>5, <1>6, <1>7, <1>8, <1>9, <1>10, <1>11, <1>12 DEF StepOf, Work

\* What a failed system call left stays known.
LEMMA TroubleGrows ==
  ASSUME NEW r \in Request, StepOf(r)
  PROVE  troubled \subseteq troubled'
  BY DEF StepOf, Work, MakeContainer, UndoContainer, CleanupFails

\* A container that nobody wants stays somebody's to remove, as long as nobody is killed.
LEMMA SweptStep ==
  ASSUME TrashTypes, Residents, SweepInv, NEW r \in Request, StepOf(r)
  PROVE  Swept'
  <1> USE DEF TrashTypes
  <1>1. SUFFICES ASSUME \A q \in Request : pc'[q] # "killed", NEW c \in containers', c \notin early',
                        c \notin troubled', pc'[c] = "done"
                 PROVE  Wanted(c)' \/ \E q \in Request : Pending(q, c)'
    BY DEF Swept
  <1>2. \A q \in Request \ {r} : pc'[q] = pc[q] /\ from'[q] = from[q]
    BY OthersFrame
  <1>3. pc[r] \notin {"done", "killed"}
    BY ActorsRun
  <1>4. \A q \in Request : pc[q] # "killed"
    BY <1>1, <1>2, <1>3
  <1>5. c \in Request /\ c \notin early \cup troubled /\ (c = r \/ c \in containers)
    <2>1. early \subseteq early' /\ troubled \subseteq troubled'
      BY TroubleGrows DEF StepOf, RequestRestore, RequestDelete, Pick
    <2>2. containers' \subseteq containers \cup {r}
      BY RmdirTakesEmpty DEF StepOf, Work, RequestRestore, RequestDelete, Pick, MakeContainer, MoveToTrash,
        UndoContainer, SyncTrash, StageNote, NameNote, MoveOut, Delete, ListContainer, UnlinkNote,
        RemoveContainer, CleanupFails, Kill, fsVars
    <2> QED
      BY <1>1, <2>1, <2>2
  <1>6. CASE c = r
    BY <1>1, <1>6, EndersLeaveWanted
  <1>7. CASE c # r
    <2>1. pc[c] = "done" /\ c \in containers
      BY <1>1, <1>2, <1>5, <1>7
    <2>2. Wanted(c) \/ \E q \in Request : Pending(q, c)
      BY <1>4, <1>5, <2>1 DEF SweepInv, Swept
    <2>3. CASE from[r] # c
      BY <1>5, <1>7, <2>2, <2>3, OthersKeepCare DEF SweepInv, Residents
    <2>4. CASE from[r] = c
      <3>1. kind[r] # "trash" /\ pc[r] # "idle"
        BY <1>7, <2>4 DEF SweepInv, Trashing, Residents, Unstarted
      <3>2. CASE MoveOut(r) \/ Delete(r)
        BY <1>5, <1>7, <2>4, <3>2, TakersPend
      <3>3. CASE ListContainer(r)
        BY <1>7, <2>1, <2>4, <3>3, ListersPend
      <3>4. CASE UnlinkNote(r)
        BY <1>5, <1>7, <2>1, <2>2, <2>4, <3>4, UnlinkersPend DEF SweepInv
      <3>5. CASE RemoveContainer(r)
        <4>1. /\ UNCHANGED <<places, notes, journals>> /\ Rmdir(c) /\ pc[r] = "unlinking" /\ listed[r] = {}
          BY <2>4, <3>5 DEF RemoveContainer, End, Goto
        <4>2. notes[c] = {}
          BY <1>5, <1>7, <2>1, <2>4, <4>1 DEF SweepInv, AllListed
        <4> QED
          BY <1>5, <4>1, <4>2, RemoversLeaveWanted
      <3>6. CASE Kill(r)
        BY <1>1, <3>6 DEF Kill
      <3>7. CASE CleanupFails(r)
        BY <1>1, <2>4, <3>7 DEF CleanupFails
      <3>8. ~(RequestRestore(r) \/ RequestDelete(r) \/ MakeContainer(r) \/ MoveToTrash(r) \/ UndoContainer(r)
              \/ SyncTrash(r) \/ StageNote(r) \/ NameNote(r))
        BY <3>1 DEF RequestRestore, RequestDelete, MakeContainer, MoveToTrash, UndoContainer, SyncTrash,
          StageNote, NameNote, Goto, End, SweepInv, Written
      <3> QED
        BY <3>2, <3>3, <3>4, <3>5, <3>6, <3>7, <3>8 DEF StepOf, Work
    <2> QED
      BY <2>3, <2>4
  <1> QED
    BY <1>6, <1>7

\* No step breaks the invariant.
LEMMA SweepStep == TrashTypes /\ Residents /\ SweepInv /\ [Next]_vars => SweepInv'
  <1> SUFFICES ASSUME TrashTypes, Residents, SweepInv, [Next]_vars
               PROVE  SweepInv'
    OBVIOUS
  <1>1. ASSUME NEW r \in Request, StepOf(r)
        PROVE  SweepInv'
    BY <1>1, TrashingStep, WrittenStep, InTimeStep, FilledStep, AllListedStep, SweptStep DEF SweepInv
  <1>2. CASE UNCHANGED vars
    <2>1. Trashing' /\ Written' /\ InTime' /\ Filled' /\ AllListed'
      BY <1>2 DEF vars, fsVars, reqVars, SweepInv, Trashing, Written, InTime, Filled, AllListed
    <2>2. Swept'
      BY <1>2 DEF vars, fsVars, reqVars, SweepInv, Swept, Wanted, Pending, Names
    <2> QED
      BY <2>1, <2>2 DEF SweepInv
  <1> QED
    BY <1>1, <1>2 DEF Next, StepOf

\* At first there is no container.
LEMMA SweepInit == Init => SweepInv
  BY DEF Init, SweepInv, Trashing, Written, Single, InTime, Filled, AllListed, Swept

\* When nothing runs, nobody is left to remove a container, so somebody wants it.
LEMMA QuietMeansWanted == TrashTypes /\ Residents /\ SweepInv => LeftoverNeedsTrouble
  <1> SUFFICES ASSUME TrashTypes, Residents, SweepInv, Quiet, NEW c \in containers \ (early \cup troubled)
               PROVE  Wanted(c)
    BY DEF LeftoverNeedsTrouble
  <1>1. pc[c] = "done"
    BY DEF Quiet, TrashTypes, Residents, Unstarted
  <1>2. \A r \in Request : pc[r] # "killed" /\ ~Pending(r, c)
    BY DEF Quiet, Pending
  <1> QED
    BY <1>1, <1>2 DEF SweepInv, Swept

\* Who is still to remove a container is accounted for in every reachable state, for
\* any set of requests and items.
THEOREM SweepInvariance == Spec => []SweepInv
  <1>1. TrashInv => TrashTypes /\ Residents
    BY DEF TrashInv
  <1> QED
    BY <1>1, SweepInit, SweepStep, TrashInvariance, PTL DEF Spec

\* When nothing runs, a container holds something or was left by a request that failed,
\* unless its item was taken out while Trash was still busy with it, or a system call
\* failed where Trash, TrashCleanup and Execute go on regardless: no interleaving of
\* restores, deletions and cleanups by itself leaves an empty folder or a lone note.
THEOREM OnlyTroubleLeavesContainers == Spec => []LeftoverNeedsTrouble
  <1>1. TrashInv => TrashTypes /\ Residents
    BY DEF TrashInv
  <1> QED
    BY <1>1, QuietMeansWanted, TrashInvariance, SweepInvariance, PTL
=============================================================================
