----------------------------- MODULE TrashOrigin -----------------------------
(***************************************************************************)
(* Where a trashed item came from (internal/operations/operations.go,      *)
(* internal/localfs/trash.go): the note in its container records a path,   *)
(* and is believed as far as it fits the storage that holds the trash when *)
(* somebody asks.  Meanwhile volumes are mounted elsewhere, trash folders  *)
(* are copied and trashed themselves, and notes are forged.                *)
(*                                                                         *)
(* A path is the sequence of its names; TrashDir is the name of the user's *)
(* trash folder, and <<>> stands for no path.  The root of the system is   *)
(* left out: it is to a mount what a volume is to one that is mounted in   *)
(* it.                                                                     *)
(***************************************************************************)
EXTENDS Naturals, FiniteSets, SequencesExt

CONSTANTS
  Volume, Point,      \* storage, and the paths it may be mounted at
  Name, TrashDir,     \* names of files and folders
  Container,          \* names of containers
  MaxMounts, MaxDeeds \* bounds on mounts, and on deeds of the user

ASSUME OriginAssumption ==
  /\ \A p \in Point : p \in Seq(Name) /\ p # <<>>
  /\ TrashDir \notin Name \cup Container /\ Name \cap Container = {}
  /\ MaxMounts \in Nat /\ MaxDeeds \in Nat

VARIABLES
  mounted,       \* Volume -> where it is mounted, or <<>>
  trashed,       \* [volume, container, item, note, from]: container is a path on the
                 \* volume, note what the note says, from (history) what was true
  mounts, deeds  \* counts towards the bounds

originVars == <<mounted, trashed, mounts, deeds>>

OriginInit ==
  /\ mounted = [v \in Volume |-> <<>>]
  /\ trashed = {}
  /\ mounts = 0 /\ deeds = 0

-----------------------------------------------------------------------------

Roots == {mounted[v] : v \in Volume} \ {<<>>}

\* The longest root that a path is in, unless the path is itself a root.
trashBase(path) ==
  LET above == {p \in Roots : IsStrictPrefix(p, path)} IN
  IF path \in Roots \/ above = {} THEN <<>>
  ELSE CHOOSE p \in above : \A q \in above : Len(q) <= Len(p)

ContainerPath(t) == mounted[t.volume] \o t.container
\* A path leads to what is on the volume mounted closest to it.
Reached(t) == mounted[t.volume] # <<>> /\ trashBase(ContainerPath(t)) = mounted[t.volume]

TrashOriginal(path) ==
  LET at == {t \in trashed : Reached(t) /\ ContainerPath(t) = path} IN
  IF at = {} THEN <<>> ELSE (CHOOSE t \in at : TRUE).note

\* Mutant: the note may name any storage.
AnyStorage(original, base) == trashBase(original) # <<>>
SameStorage(original, base) == trashBase(original) = base

\* The first name in a path that is the trash folder's, or 0.
TrashIndex(path) ==
  LET found == {i \in DOMAIN path : path[i] = TrashDir} IN IF found = {} THEN 0 ELSE Min(found)

trashOrigin(path) ==
  LET i == TrashIndex(path)
      base == SubSeq(path, 1, i - 1)
      trash == SubSeq(path, 1, i)
      parts == SubSeq(path, i + 1, Len(path))
      original == TrashOriginal(Append(trash, parts[1]))
  IN IF /\ i > 0 /\ base \in Roots /\ Len(parts) >= 2 /\ parts[1] \in Container
        /\ original # <<>> /\ Last(original) = parts[2]
        /\ ~IsPrefix(trash, original) /\ SameStorage(original, base)
     THEN original \o SubSeq(parts, 3, Len(parts))
     ELSE <<>>

-----------------------------------------------------------------------------

Deed == deeds < MaxDeeds /\ deeds' = deeds + 1 /\ UNCHANGED <<mounted, mounts>>

Mount(v) ==
  /\ mounts < MaxMounts /\ mounts' = mounts + 1
  /\ \E p \in (Point \ Roots) \cup {<<>>} : mounted' = [mounted EXCEPT ![v] = p]
  /\ UNCHANGED <<trashed, deeds>>

\* operations.Execute, file.trash: also what is in the folder goes into the container.
TrashItem(v, place, c) ==
  LET path == mounted[v] \o place
      container == <<TrashDir, c>>
      Within(t) == t.volume = v /\ IsPrefix(place, t.container)
      Moved(t) == [t EXCEPT !.container = container \o <<Last(place)>> \o SubSeq(@, Len(place) + 1, Len(@))]
  IN
  /\ Deed
  /\ mounted[v] # <<>> /\ trashBase(path) = mounted[v]
  /\ \A t \in trashed : t.volume = v => t.container # container
  /\ trashed' = {IF Within(t) THEN Moved(t) ELSE t : t \in trashed}
                \cup {[volume |-> v, container |-> container, item |-> Last(place), note |-> path, from |-> path]}

\* A copy of a trash folder, in a folder of any volume that has not got it.
CopyTrash(t, v, n) ==
  /\ Deed
  /\ \A u \in trashed : u.volume = v => u.container # <<n>> \o t.container
  /\ trashed' = trashed \cup {[t EXCEPT !.volume = v, !.container = <<n>> \o @]}

\* A note that says anything, or that the item next to it is not the one it was.
Forge(t, path, n) ==
  /\ Deed
  /\ trashed' = (trashed \ {t}) \cup {[t EXCEPT !.note = path, !.item = n, !.from = <<>>]}

Place == {<<n>> : n \in Name} \cup {<<m, n>> : m, n \in Name}
Forged == {p \o q : p \in Point, q \in Place \cup {<<TrashDir>>} \cup {<<TrashDir, c, n>> : c \in Container, n \in Name}}

OriginNext ==
  \/ \E v \in Volume : Mount(v)
  \/ \E v \in Volume, place \in Place, c \in Container : TrashItem(v, place, c)
  \/ \E t \in trashed, v \in Volume, n \in Name : CopyTrash(t, v, n)
  \/ \E t \in trashed, path \in Forged, n \in Name : Forge(t, path, n)

OriginSpec == OriginInit /\ [][OriginNext]_originVars

-----------------------------------------------------------------------------

\* The place that an item is restored to by default is on the volume whose trash holds
\* it, outside of that trash, and has the item's name; unless the note was forged it
\* is the very path that the item, or the trashed folder it is in, was trashed from.
OriginIsTrue ==
  \A t \in trashed :
    LET item == ContainerPath(t) \o <<t.item>>
        outermost == TrashIndex(t.container) = Len(t.container) - 1
        origin == trashOrigin(item)
    IN Reached(t) /\ outermost /\ origin # <<>> =>
         /\ trashBase(origin) = mounted[t.volume] /\ Last(origin) = t.item
         /\ ~IsPrefix(mounted[t.volume] \o <<TrashDir>>, origin)
         /\ t.from # <<>> => origin = t.from
         /\ \A n \in Name : trashOrigin(Append(item, n)) = Append(origin, n)
=============================================================================
