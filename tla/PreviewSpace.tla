---------------------------- MODULE PreviewSpace -----------------------------
(***************************************************************************)
(* Space for previews of archives in an account                            *)
(* (internal/cloudfs/archive_preview.go, spool.go): each preview writes    *)
(* into an unlinked file of one temporary file system, and may go on       *)
(* without looking at the free space for an allowance.  Exports and edits  *)
(* (Spool), and other services, use the same space without one.            *)
(***************************************************************************)
EXTENDS Integers, FiniteSets

CONSTANTS
  Preview,    \* previews at one time
  Headroom,   \* space that previews leave to others (64 MiB)
  Step,       \* the largest allowance (4 MiB)
  Chunk,      \* the most that one Write brings (at most Step)
  Sizes,      \* sizes of archives, -1 if the provider does not say
  Space,      \* free space that a run may start with
  MaxTaken    \* bound on what others use at one time

ASSUME SpaceAssumption ==
  /\ IsFiniteSet(Preview)
  /\ Headroom \in Nat /\ Step \in Nat \ {0} /\ Chunk \in 1..Step
  /\ Sizes \subseteq Nat \cup {-1} /\ Space \subseteq Nat /\ MaxTaken \in Nat

VARIABLES
  free,                              \* Bavail
  phase, size, written, allowance,   \* of each preview
  pending,                           \* what a Write that has passed its checks is to put, or 0
  taken                              \* what others use of it since the start

spaceVars == <<free, phase, size, written, allowance, pending, taken>>

SpaceInit ==
  /\ free \in Space
  /\ phase = [p \in Preview |-> "idle"] /\ size \in [Preview -> Sizes]
  /\ written = [p \in Preview |-> 0] /\ allowance = [p \in Preview |-> 0]
  /\ pending = [p \in Preview |-> 0]
  /\ taken = 0

Least(a, b) == IF a < b THEN a ELSE b
Most(a, b)  == IF a > b THEN a ELSE b

\* previewSpace: what is free beyond the headroom.
Spare == Most(0, free - Headroom)

\* Mutant: a preview starts with all the space it sees.
WholeSpare == Spare
FirstAllowance == Least(Spare, Step)

Begin(p) ==
  /\ phase[p] = "idle" /\ size[p] <= Spare
  /\ phase' = [phase EXCEPT ![p] = "reads"]
  /\ allowance' = [allowance EXCEPT ![p] = FirstAllowance]
  /\ UNCHANGED <<free, size, written, pending, taken>>

\* The file is gone when it is closed: an error, or the end of the preview.
Close(p) ==
  /\ phase' = [phase EXCEPT ![p] = "closed"]
  /\ free' = free + written[p]
  /\ written' = [written EXCEPT ![p] = 0] /\ allowance' = [allowance EXCEPT ![p] = 0]
  /\ pending' = [pending EXCEPT ![p] = 0]

Allowed(p, n) == IF n > allowance[p] THEN Least(Spare, Most(n, Step)) ELSE allowance[p]

\* previewWriter.Write: more than announced or than there is space for ends the preview.
CheckSpace(p) ==
  /\ phase[p] = "reads" /\ pending[p] = 0
  /\ \E n \in 1..Chunk :
       IF \/ size[p] >= 0 /\ n > size[p] - written[p]
          \/ n > allowance[p] /\ n > Spare
       THEN Close(p)
       ELSE /\ allowance' = [allowance EXCEPT ![p] = Allowed(p, n)]
            /\ pending' = [pending EXCEPT ![p] = n]
            /\ UNCHANGED <<free, phase, written>>
  /\ UNCHANGED <<size, taken>>

\* Only then is it put, into what is free by now.
Put(p) ==
  LET n == pending[p] IN
  /\ n > 0
  /\ IF n > free
     THEN Close(p)
     ELSE /\ free' = free - n
          /\ written' = [written EXCEPT ![p] = @ + n]
          /\ allowance' = [allowance EXCEPT ![p] = @ - n]
          /\ pending' = [pending EXCEPT ![p] = 0]
          /\ UNCHANGED phase
  /\ UNCHANGED <<size, taken>>

\* The provider has sent everything, or less than it said, or fails.
EndOfRead(p) ==
  /\ phase[p] = "reads" /\ pending[p] = 0
  /\ \/ /\ size[p] \in {-1, written[p]}
        /\ phase' = [phase EXCEPT ![p] = "open"] /\ allowance' = [allowance EXCEPT ![p] = 0]
        /\ UNCHANGED <<free, written, pending>>
     \/ Close(p)
  /\ UNCHANGED <<size, taken>>

Done(p) == phase[p] = "open" /\ Close(p) /\ UNCHANGED <<size, taken>>

\* Exports, edits and other services.
OthersTake ==
  /\ \E n \in 1..free :
       taken + n <= MaxTaken /\ free' = free - n /\ taken' = taken + n
  /\ UNCHANGED <<phase, size, written, allowance, pending>>
OthersFree ==
  /\ \E n \in 1..taken : free' = free + n /\ taken' = taken - n
  /\ UNCHANGED <<phase, size, written, allowance, pending>>

SpaceNext ==
  \/ OthersTake \/ OthersFree
  \/ \E p \in Preview : Begin(p) \/ CheckSpace(p) \/ Put(p) \/ EndOfRead(p) \/ Done(p)

SpaceSpec == SpaceInit /\ [][SpaceNext]_spaceVars

-----------------------------------------------------------------------------

\* "Leave headroom for other NAS services": previews that look at the free space on
\* their own may together use up of the headroom at most one allowance for each
\* preview but one; what others took is theirs.
HeadroomShared ==
  (\E p \in Preview : written[p] > 0) =>
    free + taken >= Headroom - Step * (Cardinality(Preview) - 1)
=============================================================================
