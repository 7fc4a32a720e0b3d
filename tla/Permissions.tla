----------------------------- MODULE Permissions -----------------------------
(***************************************************************************)
(* Ownership and permissions of a selection of files and folders           *)
(* (internal/localfs/permissions.go): all items are opened and compared    *)
(* with what the user was shown, then each is changed in two calls, chown  *)
(* and chmod, of which any may fail, with no way back.                     *)
(*                                                                         *)
(* One request, step by system call; other programs, other requests among  *)
(* them, change inodes and re-point names in between.  A mode is a set of  *)
(* bits: "suid", "sgid", and "exec" for all others.  The allowed places    *)
(* and file systems, the names of users and the limit on the number of     *)
(* items only decide whether a request is refused, which it may always be. *)
(***************************************************************************)
EXTENDS Naturals, Sequences

CONSTANTS
  Changes,      \* what may be asked for
  Path, Inode,
  Folder,       \* the inodes that are folders
  Owner, Same,  \* owners and groups; Same: leave it
  Found,        \* the inodes a run may start with
  MaxMeddling   \* bound on the steps of others

Bits == {"suid", "sgid", "exec"}

\* A single item is given its mode, many are given the bits of a mask.
Change == [paths : Seq(Path), single : BOOLEAN, apply : BOOLEAN,
           owner : Owner \cup {Same}, mask : SUBSET Bits, bits : SUBSET Bits]

ASSUME PermissionAssumption ==
  /\ Changes \subseteq Change
  /\ \A c \in Changes :
       /\ c.paths # <<>> /\ \A i, j \in DOMAIN c.paths : i # j => c.paths[i] # c.paths[j]
       /\ "suid" \notin c.mask \cup c.bits
       /\ IF c.single THEN Len(c.paths) = 1 ELSE c.bits \subseteq c.mask
  /\ Found \subseteq [Inode -> [owner : Owner, bits : SUBSET Bits]]
  /\ Folder \subseteq Inode /\ Same \notin Owner /\ MaxMeddling \in Nat

VARIABLES
  link, inode,                     \* Path -> Inode; owner and bits of each
  step, change, shown, held, done, \* the request: held are the open files, done
  result,                          \* counts the items that are changed
  meddling,                        \* steps of others (the bound)
  was, touched                     \* history: the items when they were checked, and
                                   \* the inodes that others changed since

permVars == <<link, inode, step, change, shown, held, done, result, meddling, was, touched>>

\* permissionRevision: the inode and all of its state.
Stat(i) == [id |-> i, owner |-> inode[i].owner, bits |-> inode[i].bits]

PermInit ==
  /\ link \in [Path -> Inode] /\ inode \in Found
  /\ step = "idle" /\ change \in Changes
  /\ shown = <<>> /\ held = <<>> /\ done = 0 /\ result = "none"
  /\ meddling = 0
  /\ was = <<>> /\ touched = {}

-----------------------------------------------------------------------------

\* Permissions: the user is shown the selection, and asks for the change.
Open ==
  /\ step = "idle"
  /\ step' = "check"
  /\ shown' = [k \in DOMAIN change.paths |-> Stat(link[change.paths[k]])]
  /\ UNCHANGED <<link, inode, change, held, done, result, meddling, was, touched>>

End(outcome) == step' = "end" /\ result' = outcome

\* The bits that the request may change, and the mode that an inode is to have.
Mask(i) == IF i \in Folder THEN change.mask ELSE change.mask \ {"sgid"}
Mode(i) == IF change.single THEN change.bits ELSE (inode[i].bits \ Mask(i)) \cup (change.bits \cap Mask(i))

\* Mutant: the mode is set before the owner.
SwappedCalls == <<"chmod", "chown">>
Calls == <<"chown", "chmod">>

\* One item is opened, which may fail, compared, and kept open.
Check ==
  LET k == Len(held) + 1
      i == link[change.paths[k]]
      last == k = Len(change.paths)
  IN
  /\ step = "check"
  /\ \/ /\ Stat(i) = shown[k] /\ "suid" \notin Mode(i)
        /\ held' = Append(held, [id |-> i, mode |-> Mode(i)])
        /\ was' = Append(was, Stat(i))
        /\ \/ ~last /\ UNCHANGED <<step, result>>
           \/ last /\ change.apply /\ step' = Calls[1] /\ UNCHANGED result
           \/ last /\ ~change.apply /\ End("done")
     \/ End("refused") /\ UNCHANGED <<held, was>>
  /\ UNCHANGED <<link, inode, change, shown, done, meddling, touched>>

Item == held[done + 1]

\* After a call of an item: its other call, the next item, or the end.
Advance(call) ==
  \/ call = Calls[1] /\ step' = Calls[2] /\ UNCHANGED <<done, result>>
  \/ /\ call = Calls[2] /\ done' = done + 1
     /\ IF done + 1 = Len(held) THEN End("done") ELSE step' = Calls[1] /\ UNCHANGED result

Alter(i, owner, bits) == inode' = [inode EXCEPT ![i] = [owner |-> owner, bits |-> bits]]

\* Linux takes the set-id bits of a file whose owner changes.
Kept(i) ==
  IF i \in Folder THEN inode[i].bits
  ELSE inode[i].bits \ (IF "exec" \in inode[i].bits THEN {"suid", "sgid"} ELSE {"suid"})

Chown ==
  /\ step = "chown"
  /\ \/ change.owner = Same /\ Advance("chown") /\ UNCHANGED inode
     \/ change.owner # Same /\ Advance("chown") /\ Alter(Item.id, change.owner, Kept(Item.id))
     \/ change.owner # Same /\ End("failed") /\ UNCHANGED <<inode, done>>
  /\ UNCHANGED <<link, change, shown, held, meddling, was, touched>>

Chmod ==
  /\ step = "chmod"
  /\ \/ Advance("chmod") /\ Alter(Item.id, inode[Item.id].owner, Item.mode)
     \/ End("failed") /\ UNCHANGED <<inode, done>>
  /\ UNCHANGED <<link, change, shown, held, meddling, was, touched>>

\* The worker is killed.
Die ==
  /\ step \in {"check", "chown", "chmod"} /\ End("died")
  /\ UNCHANGED <<link, inode, change, shown, held, done, meddling, was, touched>>

\* Others change an inode, or put another one under a name.
Meddle ==
  /\ meddling < MaxMeddling /\ meddling' = meddling + 1
  /\ \/ \E i \in Inode :
          /\ \/ \E o \in Owner : Alter(i, o, Kept(i))
             \/ \E b \in SUBSET Bits : Alter(i, inode[i].owner, b)
          /\ touched' = IF \E k \in DOMAIN held : held[k].id = i THEN touched \cup {i} ELSE touched
          /\ UNCHANGED link
     \/ \E p \in Path, i \in Inode : link' = [link EXCEPT ![p] = i] /\ UNCHANGED <<inode, touched>>
  /\ UNCHANGED <<step, change, shown, held, done, result, was>>

PermNext == Open \/ Check \/ Chown \/ Chmod \/ Die \/ Meddle

PermSpec == PermInit /\ [][PermNext]_permVars

-----------------------------------------------------------------------------

\* What was asked of the k-th item: the bits of the mask as given, the others, and
\* the group bit of a file, as they were.
Asked(k) ==
  LET w == was[k]
      Given(b) == b \in change.mask /\ (b = "sgid" => w.id \in Folder)
  IN [id |-> w.id,
      owner |-> IF change.owner = Same THEN w.owner ELSE change.owner,
      bits |-> IF change.single THEN change.bits
               ELSE {b \in Bits : b \in (IF Given(b) THEN change.bits ELSE w.bits)}]

\* A request that is refused, or only planned, has changed nothing; one that succeeds
\* has made of every item what was asked, whatever the kernel clears on the way; one
\* that fails or dies has done so up to an item, nothing behind it, and that item has
\* at most its new owner and fewer bits.  Inodes that others changed after they were
\* checked are exempt; two items may be one inode.
BatchIsPrefix ==
  \E n \in 0..Len(held) :
    /\ result = "refused" \/ ~change.apply => n = 0
    /\ result = "done" /\ change.apply => n = Len(change.paths)
    /\ \A k \in DOMAIN held :
         LET i == held[k].id
             first == \A j \in 1..(k - 1) : held[j].id # i
             due == IF k <= n THEN Asked(k) ELSE was[k]
         IN i \notin touched /\ first =>
              \/ Stat(i) = due
              \/ /\ step \in {"chown", "chmod"} \/ result \in {"failed", "died"}
                 /\ \E j \in DOMAIN held : j = n + 1 /\ held[j].id = i
                 /\ Stat(i).owner = Asked(k).owner /\ Stat(i).bits \subseteq due.bits
=============================================================================
