-------------------------------- MODULE Trash --------------------------------
(***************************************************************************)
(* The trash of one storage root: Trash in internal/localfs/content.go,    *)
(* the note and the cleanup in internal/localfs/trash.go, and the requests *)
(* of internal/operations/operations.go that use them (file.trash,         *)
(* file.restore, file.move out of the trash, file.delete).                 *)
(*                                                                         *)
(* A trash request makes a container of its own, so a container is named   *)
(* after the request that made it.  It holds the item, the note (first     *)
(* under a temporary name) and, when a transfer between filesystems went   *)
(* wrong, that transfer's journal.  The transfer itself is Transfer: here  *)
(* it is one step that moves, does nothing, or leaves both copies.         *)
(***************************************************************************)
EXTENDS Naturals

CONSTANTS
  Item,     \* entries of the user
  Special,  \* the items whose own name is the name of the note
  Request,  \* requests, and the containers they make
  NoItem,   \* "no item": the request is about the note
  Crashes   \* TRUE: a worker may be killed

Home  == "home"    \* the path the item was trashed from
Other == "other"   \* another path the user chose

ASSUME TrashAssumption ==
  /\ Special \subseteq Item
  /\ {Home, Other} \cap Request = {}
  /\ NoItem \notin Item
  /\ Crashes \in BOOLEAN

VARIABLES
  places,     \* places[i]: where copies of item i are
  containers, \* containers that exist
  notes,      \* notes[c]: which of "tmp" and "final" are in container c
  journals,   \* containers that hold a transfer journal
  deleted,    \* items the user deleted for good
  pc, kind, item, from, policy, dest,  \* the request of each worker
  listed,     \* listed[r]: names the cleanup has yet to unlink
  outcome,
  early,      \* history: containers opened while their trash request ran
  troubled    \* history: containers that a failed system call kept from being removed

fsVars  == <<places, containers, notes, journals, deleted>>
reqVars == <<kind, item, from, policy, dest>>
vars    == <<fsVars, pc, reqVars, listed, outcome, early, troubled>>

Place == {Home, Other} \cup Request
NoteName == {"tmp", "final"}

Goto(r, a, b) == pc[r] = a /\ pc' = [pc EXCEPT ![r] = b]
End(r, a, v)  == Goto(r, a, "done") /\ outcome' = [outcome EXCEPT ![r] = v]

Move(i, a, b) == places' = [places EXCEPT ![i] = (@ \ {a}) \cup {b}]
Add(i, b)     == places' = [places EXCEPT ![i] = @ \cup {b}]

\* What readdir of a container gives.  An item that borrowed the name of the note
\* looks like the note.
Names(c) ==
  notes[c]
  \cup {"final" : i \in {j \in Special : c \in places[j]}}
  \cup {"data" : i \in {j \in Item \ Special : c \in places[j]}}
  \cup (IF c \in journals THEN {"journal"} ELSE {})

Init ==
  /\ places = [i \in Item |-> {Home}]
  /\ containers = {} /\ journals = {} /\ deleted = {}
  /\ notes = [c \in Request |-> {}]
  /\ pc = [r \in Request |-> "idle"]
  /\ kind = [r \in Request |-> "trash"]
  /\ item = [r \in Request |-> NoItem]
  /\ from = [r \in Request |-> r]
  /\ policy = [r \in Request |-> "ask"]
  /\ dest = [r \in Request |-> Home]
  /\ listed = [r \in Request |-> {}]
  /\ outcome = [r \in Request |-> "none"]
  /\ early = {} /\ troubled = {}

\* file.trash of an item at its home: make the container, or fail.  When it cannot be
\* opened, or the item not be found any more, it stays.
MakeContainer(r) ==
  /\ \E i \in Item : Home \in places[i] /\ item' = [item EXCEPT ![r] = i]
  /\ \/ Goto(r, "idle", "moving") /\ containers' = containers \cup {r}
        /\ UNCHANGED <<outcome, troubled>>
     \/ End(r, "idle", "failed") /\ containers' = containers \cup {r}
        /\ troubled' = troubled \cup {r}
     \/ End(r, "idle", "failed") /\ UNCHANGED <<containers, troubled>>
  /\ UNCHANGED <<places, notes, journals, deleted, kind, from, policy,
                 dest, listed>>

\* The transfer into the container.  After a rename the parents are synced, which
\* may fail; between filesystems the source may stay, with a journal.
MoveToTrash(r) ==
  LET i == item[r] IN
  /\ pc[r] = "moving" /\ kind[r] = "trash"
  /\ \/ /\ Home \in places[i]
        /\ Move(i, Home, r)
        /\ \E to \in {"syncing", "undoing"} : Goto(r, "moving", to)
        /\ UNCHANGED journals
     \/ /\ Home \in places[i]
        /\ Add(i, r)
        /\ journals' = journals \cup {r}
        /\ Goto(r, "moving", "undoing")
     \/ Goto(r, "moving", "undoing") /\ UNCHANGED <<places, journals>>
  /\ UNCHANGED <<containers, notes, deleted, reqVars, listed, outcome>>

\* Mutants: the container is not removed; or it is removed with all it holds.
Keep(c) == UNCHANGED containers
RemoveAll(c) == containers' = containers \ {c}
\* rmdir, which removes nothing that is in use.
Rmdir(c) == containers' = IF Names(c) = {} THEN containers \ {c} ELSE containers

\* The container of a failed transfer is removed, unless that fails, too.
UndoContainer(r) ==
  /\ End(r, "undoing", "failed")
  /\ \/ Rmdir(r) /\ UNCHANGED troubled
     \/ troubled' = troubled \cup {r} /\ UNCHANGED containers
  /\ UNCHANGED <<places, notes, journals, deleted, reqVars, listed>>

\* The sync of the trash folder; then the note, unless it would clash.
SyncTrash(r) ==
  /\ \/ item[r] \notin Special /\ Goto(r, "syncing", "noting") /\ UNCHANGED outcome
     \/ item[r] \in Special /\ End(r, "syncing", "ok")
     \/ End(r, "syncing", "failed")
  /\ UNCHANGED <<fsVars, reqVars, listed>>

\* writeTrashInfo: create and write the temporary note.  Its errors are ignored.
StageNote(r) ==
  /\ \/ /\ r \in containers
        /\ Goto(r, "noting", "naming")
        /\ notes' = [notes EXCEPT ![r] = @ \cup {"tmp"}]
        /\ UNCHANGED outcome
     \/ End(r, "noting", "ok") /\ UNCHANGED notes
  /\ UNCHANGED <<places, containers, journals, deleted, reqVars, listed>>

\* Give the note its name, or remove it when that fails, or leave it when that fails, too.
NameNote(r) ==
  /\ End(r, "naming", "ok")
  /\ \/ "tmp" \in notes[r]
        /\ notes' = [notes EXCEPT ![r] = (@ \ {"tmp"}) \cup {"final"}]
     \/ notes' = [notes EXCEPT ![r] = @ \ {"tmp"}]
     \/ UNCHANGED notes
  /\ UNCHANGED <<places, containers, journals, deleted, reqVars, listed>>

\* The user picks an item in the Trash view.
Pick(r, k) ==
  /\ kind' = [kind EXCEPT ![r] = k]
  /\ \E c \in containers :
       /\ from' = [from EXCEPT ![r] = c]
       /\ early' = IF pc[c] \in {"done", "killed"} THEN early ELSE early \cup {c}
       /\ \/ \E i \in Item : c \in places[i] /\ item' = [item EXCEPT ![r] = i]
          \/ /\ k = "delete" /\ notes[c] # {} /\ Names(c) \subseteq NoteName
             /\ \A i \in Item : c \notin places[i]
             /\ item' = [item EXCEPT ![r] = NoItem]
  /\ UNCHANGED <<fsVars, listed>>

\* file.restore: to the recorded path, which needs the note, or to a chosen one.
RequestRestore(r) ==
  /\ Pick(r, "restore")
  /\ policy' \in {[policy EXCEPT ![r] = p] : p \in {"ask", "skip", "rename", "replace"}}
  /\ \/ /\ dest' = [dest EXCEPT ![r] = Home]
        /\ IF "final" \in notes[from'[r]]
           THEN Goto(r, "idle", "moving") /\ UNCHANGED outcome
           ELSE End(r, "idle", "failed")
     \/ /\ dest' = [dest EXCEPT ![r] = Other]
        /\ Goto(r, "idle", "moving") /\ UNCHANGED outcome

\* Whether the destination is in use: by the item's own copy, or by anything else.
InUse(r) == IF dest[r] = Home /\ Home \in places[item[r]] THEN {TRUE} ELSE BOOLEAN

\* The transfer out of the container, with the conflict policy of Transfer.
MoveOut(r) ==
  LET i     == item[r]
      there == from[r] \in places[i]
  IN
  /\ pc[r] = "moving" /\ kind[r] = "restore"
  /\ \E busy \in InUse(r) :
       \/ /\ there /\ (busy => policy[r] \in {"rename", "replace"})
          /\ Move(i, from[r], IF busy /\ policy[r] = "rename" THEN Other ELSE dest[r])
          /\ \/ Goto(r, "moving", "listing") /\ UNCHANGED outcome
             \/ End(r, "moving", "failed")
       \/ /\ there /\ busy /\ policy[r] = "skip"
          /\ Goto(r, "moving", "listing")
          /\ outcome' = [outcome EXCEPT ![r] = "skipped"]
          /\ UNCHANGED places
       \/ /\ there /\ ~busy
          /\ Add(i, dest[r])
          /\ End(r, "moving", "failed")
       \/ End(r, "moving", "failed") /\ UNCHANGED places
  /\ UNCHANGED <<containers, notes, journals, deleted, reqVars, listed>>

\* file.delete of an item in the trash, or of a note that is all that is left.
RequestDelete(r) ==
  /\ Pick(r, "delete")
  /\ Goto(r, "idle", "moving")
  /\ UNCHANGED <<policy, dest, outcome>>

Delete(r) ==
  LET i == item[r] IN
  /\ pc[r] = "moving" /\ kind[r] = "delete"
  /\ \/ /\ i # NoItem /\ from[r] \in places[i]
        /\ places' = [places EXCEPT ![i] = @ \ {from[r]}]
        /\ deleted' = deleted \cup {i}
        /\ Goto(r, "moving", "listing") /\ UNCHANGED <<notes, outcome>>
     \/ /\ i = NoItem /\ \E n \in notes[from[r]] :
             notes' = [notes EXCEPT ![from[r]] = @ \ {n}]
        /\ Goto(r, "moving", "listing") /\ UNCHANGED <<places, deleted, outcome>>
     \/ End(r, "moving", "failed") /\ UNCHANGED <<places, deleted, notes>>
  /\ UNCHANGED <<containers, journals, reqVars, listed>>

\* What a request replies once its best-effort cleanup is over.
Reply(r) == IF outcome[r] = "none" THEN "ok" ELSE outcome[r]

\* Mutant: data is taken for a note.
AlwaysOnlyNotes(names) == TRUE
\* The code reads three names: enough, as only two can be a note's.
OnlyNotes(names) == names \subseteq NoteName

\* TrashCleanup: list the container, and leave it alone unless it holds only notes.
ListContainer(r) ==
  /\ IF from[r] \in containers /\ OnlyNotes(Names(from[r]))
     THEN /\ Goto(r, "listing", "unlinking")
          /\ listed' = [listed EXCEPT ![r] = Names(from[r])]
          /\ UNCHANGED outcome
     ELSE End(r, "listing", Reply(r)) /\ UNCHANGED listed
  /\ UNCHANGED <<fsVars, reqVars>>

\* Unlink a listed name, whatever has that name by now; stop when it is gone, or
\* is a folder.
UnlinkNote(r) ==
  LET c == from[r] IN
  /\ pc[r] = "unlinking"
  /\ \E n \in listed[r] :
       /\ listed' = [listed EXCEPT ![r] = @ \ {n}]
       /\ IF n \in Names(c) \ {"journal"}
          THEN /\ notes' = [notes EXCEPT ![c] = @ \ {n}]
               /\ places' = [i \in Item |->
                    IF n \notin notes[c] /\ n = (IF i \in Special THEN "final" ELSE "data")
                    THEN places[i] \ {c} ELSE places[i]]
               /\ UNCHANGED <<pc, outcome>>
          ELSE End(r, "unlinking", Reply(r)) /\ UNCHANGED <<notes, places>>
  /\ UNCHANGED <<containers, journals, deleted, reqVars>>

RemoveContainer(r) ==
  /\ listed[r] = {}
  /\ End(r, "unlinking", Reply(r))
  /\ Rmdir(from[r])
  /\ UNCHANGED <<places, notes, journals, deleted, reqVars, listed>>

\* Any other error of the cleanup, from looking up the container to its rmdir, ends it
\* where it is.  Execute ignores that.
CleanupFails(r) ==
  /\ \E a \in {"listing", "unlinking"} : End(r, a, Reply(r))
  /\ troubled' = troubled \cup {from[r]}
  /\ UNCHANGED <<fsVars, reqVars, listed>>

Kill(r) ==
  /\ Crashes /\ pc[r] \notin {"idle", "done", "killed"}
  /\ pc' = [pc EXCEPT ![r] = "killed"]
  /\ UNCHANGED <<fsVars, reqVars, listed, outcome>>

Work(r) ==
  \/ MakeContainer(r) \/ UndoContainer(r) \/ CleanupFails(r)
  \/ /\ \/ MoveToTrash(r) \/ SyncTrash(r) \/ StageNote(r) \/ NameNote(r) \/ MoveOut(r)
        \/ Delete(r) \/ ListContainer(r) \/ UnlinkNote(r) \/ RemoveContainer(r) \/ Kill(r)
     /\ UNCHANGED troubled

Next == \E r \in Request :
  \/ (RequestRestore(r) \/ RequestDelete(r)) /\ UNCHANGED troubled
  \/ Work(r) /\ UNCHANGED early

Spec == Init /\ [][Next]_vars

-----------------------------------------------------------------------------

Lost(i) == places[i] = {} /\ i \notin deleted

\* The cleanup of a container never removes data, whatever its user's items are
\* called ("any container still holding data, is left alone", trash.go).
NothingLost == \A i \in Item : ~Lost(i)

\* It does so only for an item with the name of a note whose restore was skipped.
LossNeedsSkip ==
  \A i \in Item : Lost(i) =>
    i \in Special /\ \E r \in Request : item[r] = i /\ outcome[r] = "skipped"

\* An item, or what a transfer retained, never lies in a container that is gone,
\* and a note is never written to one.
NothingOutside ==
  \A c \in Request \ containers :
    notes[c] = {} /\ c \notin journals /\ \A i \in Item : c \notin places[i]

Quiet == \A r \in Request : pc[r] \in {"idle", "done"}

\* Container c has a reason to be there when nothing runs: an item, a journal, or
\* some request that failed after it had moved the item.
Wanted(c) ==
  \/ c \in journals \/ \E i \in Item : c \in places[i]
  \/ \E r \in Request : from[r] = c /\ outcome[r] = "failed" /\ r # c

\* When nothing runs, a container is left over with only a note or empty ("After an
\* item is restored or permanently deleted, its <id> folder is removed if only the note
\* remains", README.md) only if the item was taken out while its trash request was
\* still running, or a system call failed where Trash and Execute go on regardless
\* ("Best effort: a leftover empty container is harmless", operations.go): however
\* they interleave, cleanups that meet no error do not leave it to one another.
LeftoverNeedsTrouble == Quiet => \A c \in containers \ (early \cup troubled) : Wanted(c)
=============================================================================
