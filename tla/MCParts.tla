----------------------------- MODULE MCParts ---------------------------------
(***************************************************************************)
(* The parts of the server and its workers that share no state with one    *)
(* another: a run is about one of them, chosen at the start, while the     *)
(* others stay as they are.  So the states are those of the seven modules  *)
(* side by side, not multiplied, and each is explored in full.  What is    *)
(* fair is fair for a part that stays as it is, too: none of its actions   *)
(* under fairness can be taken before its first step.                      *)
(***************************************************************************)
EXTENDS GrantChannel, GitSwitch, Permissions, Thumbnails, PreviewSpace, TrashOrigin, TreeMove

CONSTANTS
  main, dev, v0, v1, v2,                       \* branches, commits
  photo, album, file, folder, alice, bob,      \* paths, inodes, owners
  nas, disk,                                   \* names
  sub, leaf, spare, one, two, three            \* labels, texts

VARIABLE subject

allVars == <<subject, vars, gitVars, permVars, thumbVars, spaceVars, originVars, treeVars>>

MCOrigin == [b \in Branch |-> IF b = main THEN v0 ELSE v1]
MCRefs   == {[b \in Branch |-> IF b = main THEN v0 ELSE v] : v \in {Absent, v1}}

\* Two items, or one; the first may be given to somebody else and be a program.
MCChanges ==
  LET Many(apply, owner, mask, bits) ==
        [paths |-> <<photo, album>>, single |-> FALSE, apply |-> apply, owner |-> owner, mask |-> mask, bits |-> bits]
      One(owner) ==
        [paths |-> <<album>>, single |-> TRUE, apply |-> TRUE, owner |-> owner, mask |-> {}, bits |-> {"exec"}]
  IN {Many(TRUE, o, {"sgid"}, b) : o \in {bob, Same}, b \in {{}, {"sgid"}}}
     \cup {Many(FALSE, bob, {"exec"}, {}), One(bob), One(Same)}
MCFound ==
  {[i \in Inode |-> [owner |-> alice, bits |-> IF i = file THEN b \cup {"exec"} ELSE {"exec"}]] : b \in {{"sgid"}, {"suid"}}}

MCSizes == {-1, 3, 5}

MCPoint == {<<nas>>, <<nas, disk>>}

\* A folder and a file for which there is another, or a folder that is to be merged.
MCStarts ==
  LET from == (<<>> :> Dir) @@ (<<sub>> :> Dir) @@ (<<sub, leaf>> :> one)
      to   == <<>> :> Dir
  IN {<<from @@ (<<leaf>> :> two), to @@ (<<leaf>> :> three)>>,
      <<from @@ (<<sub, sub>> :> two), to @@ (<<sub>> :> Dir) @@ (<<sub, leaf>> :> three)>>}

\* What a run is not about starts in any one of its states.
PartInit ==
  /\ subject \in {"grants", "git", "permissions", "thumbnails", "space", "origin", "trees"}
  /\ Init /\ GitInit /\ PermInit /\ ThumbInit /\ SpaceInit /\ OriginInit /\ TreeInit
  /\ subject # "grants" => \A c \in Caller : want[c] = CHOOSE g \in Grant : TRUE
  /\ subject # "git" => tip[dev] = Absent
  /\ subject # "permissions" =>
       /\ \A p \in Path : link[p] = file
       /\ change = CHOOSE c \in Changes : TRUE
       /\ inode = CHOOSE i \in Found : TRUE
  /\ subject # "space" => free = (CHOOSE n \in Space : TRUE) /\ \A p \in Preview : size[p] = -1
  /\ subject # "trees" => asked = [move |-> TRUE, policy |-> "ask", near |-> TRUE] /\ <<sub>> \in DOMAIN dest

PartNext ==
  \/ /\ subject = "grants" /\ Next
     /\ UNCHANGED <<subject, gitVars, permVars, thumbVars, spaceVars, originVars, treeVars>>
  \/ /\ subject = "git" /\ GitNext
     /\ UNCHANGED <<subject, vars, permVars, thumbVars, spaceVars, originVars, treeVars>>
  \/ /\ subject = "permissions" /\ PermNext
     /\ UNCHANGED <<subject, vars, gitVars, thumbVars, spaceVars, originVars, treeVars>>
  \/ /\ subject = "thumbnails" /\ ThumbNext
     /\ UNCHANGED <<subject, vars, gitVars, permVars, spaceVars, originVars, treeVars>>
  \/ /\ subject = "space" /\ SpaceNext
     /\ UNCHANGED <<subject, vars, gitVars, permVars, thumbVars, originVars, treeVars>>
  \/ /\ subject = "origin" /\ OriginNext
     /\ UNCHANGED <<subject, vars, gitVars, permVars, thumbVars, spaceVars, treeVars>>
  \/ /\ subject = "trees" /\ TreeNext
     /\ UNCHANGED <<subject, vars, gitVars, permVars, thumbVars, spaceVars, originVars>>

PartSpec == PartInit /\ [][PartNext]_allVars /\ GrantFairness /\ ThumbFairness
=============================================================================
