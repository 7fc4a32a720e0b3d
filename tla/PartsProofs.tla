----------------------------- MODULE PartsProofs -----------------------------
(***************************************************************************)
(* The parts that share no state, one after the other, each for every      *)
(* value of its constants: the cap on thumbnail decoders, the git folders, *)
(* the space for previews, permissions, and the origin of trashed items.   *)
(***************************************************************************)
EXTENDS Thumbnails, GitSwitch, PreviewSpace, Permissions, TrashOrigin,
        FiniteSetTheorems, SequenceTheorems, WellFoundedInduction, TLAPS

-----------------------------------------------------------------------------
(* Thumbnails.  Slots count handlers, and the cap is about processes that  *)
(* outlive the request and ignore its signal: what relates them is that a  *)
(* handler reads until nobody holds its pipe open.                         *)

Alive(v) == parent[v] = "runs" \/ decoder[v] \in {"starts", "decodes"}

ThumbTypeOK ==
  /\ handler \in [Viewer -> {"idle", "waiting", "starting", "reading", "streaming", "returned"}]
  /\ over \in [Viewer -> BOOLEAN]
  /\ parent \in [Viewer -> {"none", "runs", "gone"}]
  /\ decoder \in [Viewer -> {"none", "starts", "decodes", "wrote", "gone"}]

\* A process of a request is alive only while its handler still reads, and the handler
\* streams only what a decoder has written in full.
Attended ==
  \A v \in Viewer :
    /\ Alive(v) => handler[v] \in {"reading", "streaming"}
    /\ handler[v] = "streaming" => decoder[v] = "wrote"

\* The channel holds at most as many values as it has slots.
SlotsKept == Cardinality(Holding) <= Slots

ThumbInv == ThumbTypeOK /\ Attended /\ SlotsKept

\* The handlers that hold a slot are finitely many.
LEMMA HoldingIsFinite == IsFiniteSet(Holding) /\ Cardinality(Holding) \in Nat
  <1>1. IsFiniteSet(Viewer) /\ Holding \subseteq Viewer
    BY ThumbnailAssumption DEF Holding
  <1> QED
    BY <1>1, FS_Subset, FS_CardinalityType

\* No step of a request gives back a slot that it does not hold, or starts a process without one.
LEMMA SlotsStep == ThumbInv /\ ThumbNext => SlotsKept'
  <1> SUFFICES ASSUME ThumbInv, NEW v \in Viewer,
                      View(v) \/ Expires(v) \/ Acquire(v) \/ Unavailable(v) \/ Serving(v)
               PROVE  SlotsKept'
    BY DEF ThumbNext
  <1>1. Slots \in Nat
    BY ThumbnailAssumption
  <1>2. CASE Acquire(v)
    <2>1. Cardinality(Holding) < Slots /\ Holding' = Holding \cup {v}
      BY <1>2 DEF Acquire, Become, Holding, ThumbInv, ThumbTypeOK
    <2>2. IsFiniteSet(Holding') /\ Cardinality(Holding') <= Cardinality(Holding) + 1
      <3>1. IsFiniteSet(Holding \cup {v})
            /\ Cardinality(Holding \cup {v}) = IF v \in Holding THEN Cardinality(Holding)
                                              ELSE Cardinality(Holding) + 1
        BY HoldingIsFinite, FS_AddElement
      <3> QED
        BY <2>1, <3>1, HoldingIsFinite
    <2>3. Cardinality(Holding') \in Nat
      BY <2>2, FS_CardinalityType
    <2> QED
      BY <1>1, <2>1, <2>2, <2>3, HoldingIsFinite DEF SlotsKept
  <1>3. ASSUME View(v) \/ Expires(v) \/ Unavailable(v) \/ Serving(v)
        PROVE  SlotsKept'
    <2>1. View(v) => Holding' \subseteq Holding
      BY DEF View, Become, Holding, ThumbInv, ThumbTypeOK
    <2>2. Expires(v) => Holding' \subseteq Holding
      BY DEF Expires, Holding
    <2>3. Unavailable(v) => Holding' \subseteq Holding
      BY DEF Unavailable, Reply, Become, Holding, ThumbInv, ThumbTypeOK
    <2>4. ASSUME Start(v) \/ ReadLine(v) \/ Stream(v) PROVE Holding' \subseteq Holding
      <3>1. v \in Holding
        BY <2>4 DEF Start, ReadLine, Stream, Holding
      <3>2. \A u \in Viewer : u # v => handler'[u] = handler[u]
        BY <2>4 DEF Start, ReadLine, Stream, Reply, Become, ThumbInv, ThumbTypeOK
      <3> QED
        BY <3>1, <3>2 DEF Holding
    <2>5. Fork(v) \/ Handle(v) \/ Decode(v) \/ Follow(v) \/ Terminate(v) => Holding' \subseteq Holding
      BY DEF Fork, Handle, Decode, Follow, Terminate, Holding
    <2>6. Holding' \subseteq Holding
      BY <1>3, <2>1, <2>2, <2>3, <2>4, <2>5 DEF Serving
    <2>7. Cardinality(Holding') <= Cardinality(Holding) /\ Cardinality(Holding') \in Nat
      BY <2>6, HoldingIsFinite, FS_Subset, FS_CardinalityType
    <2> QED
      BY <1>1, <2>7, HoldingIsFinite DEF SlotsKept, ThumbInv
  <1> QED
    BY <1>2, <1>3

\* Nobody's process is started, and no handler returns, but as Attended says.
LEMMA AttendedStep == ThumbInv /\ ThumbNext => ThumbTypeOK' /\ Attended'
  <1> SUFFICES ASSUME ThumbInv, NEW v \in Viewer,
                      View(v) \/ Expires(v) \/ Acquire(v) \/ Unavailable(v) \/ Serving(v)
               PROVE  ThumbTypeOK' /\ Attended'
    BY DEF ThumbNext
  <1> USE DEF ThumbInv, ThumbTypeOK, Attended, Alive
  <1>1. CASE View(v)
    BY <1>1 DEF View, Become
  <1>2. CASE Expires(v)
    BY <1>2 DEF Expires
  <1>3. CASE Acquire(v)
    BY <1>3 DEF Acquire, Become
  <1>4. CASE Unavailable(v)
    BY <1>4 DEF Unavailable, Reply, Become
  <1>5. CASE Start(v)
    BY <1>5 DEF Start, Reply, Become
  <1>6. CASE Fork(v)
    BY <1>6 DEF Fork
  <1>7. CASE Handle(v)
    BY <1>7 DEF Handle
  <1>8. CASE Terminate(v)
    BY <1>8 DEF Terminate
  <1>9. CASE Decode(v)
    BY <1>9 DEF Decode
  <1>10. CASE Follow(v)
    BY <1>10 DEF Follow
  <1>11. CASE ReadLine(v)
    BY <1>11 DEF ReadLine, EndOfFile, Reply, Become
  <1>12. CASE Stream(v)
    BY <1>12 DEF Stream, Reply, Become
  <1> QED
    BY <1>1, <1>2, <1>3, <1>4, <1>5, <1>6, <1>7, <1>8, <1>9, <1>10, <1>11, <1>12 DEF Serving

\* The invariant holds in every reachable state, for any set of requests and any number of slots.
THEOREM ThumbInvariance == ThumbSpec => []ThumbInv
  <1>1. ThumbInit => ThumbInv
    <2> SUFFICES ASSUME ThumbInit PROVE ThumbInv
      OBVIOUS
    <2>1. ThumbTypeOK /\ Attended
      BY DEF ThumbInit, ThumbTypeOK, Attended, Alive
    <2>2. Holding = {}
      BY DEF ThumbInit, Holding
    <2> QED
      BY <2>1, <2>2, FS_EmptySet, ThumbnailAssumption DEF ThumbInv, SlotsKept
  <1>2. ThumbInv /\ [ThumbNext]_thumbVars => ThumbInv'
    <2>1. ThumbInv /\ UNCHANGED thumbVars => ThumbInv'
      BY DEF ThumbInv, ThumbTypeOK, Attended, Alive, SlotsKept, Holding, thumbVars
    <2> QED
      BY <2>1, SlotsStep, AttendedStep DEF ThumbInv
  <1> QED
    BY <1>1, <1>2, PTL DEF ThumbSpec

\* However many requests come and are cut, and however long their decoders go on:
\* there are never more decoders than slots (files.go, "thumbnailSlots").
THEOREM CapIsKept == ThumbSpec => []ThumbnailCap
  <1>1. ThumbInv => ThumbnailCap
    <2> SUFFICES ASSUME ThumbInv PROVE ThumbnailCap
      OBVIOUS
    <2> DEFINE Decoding == {v \in Viewer : decoder[v] \in {"starts", "decodes"}}
    <2>1. Decoding \subseteq Holding
      BY DEF ThumbInv, Attended, Alive, Holding
    <2>2. Cardinality(Decoding) <= Cardinality(Holding) /\ Cardinality(Decoding) \in Nat
      BY <2>1, HoldingIsFinite, FS_Subset, FS_CardinalityType
    <2> QED
      BY <2>2, HoldingIsFinite, ThumbnailAssumption DEF ThumbInv, SlotsKept, ThumbnailCap
  <1> QED
    BY <1>1, ThumbInvariance, PTL

-----------------------------------------------------------------------------
(* Git folders.  A request looks at a repository in several steps; what it *)
(* has seen so far stays true because nobody may switch next to it.        *)

Steps == {"idle", "lock", "rev-parse", "symbolic-ref", "for-each-ref", "status", "show-ref", "switch", "end"}
Heads == [branch : Branch \cup {Detached}, commit : Commit \cup {Absent}]

Call  == [step : Steps, kind : {"inspect", "plan", "switch"}, want : Branch, expected : SUBSET Heads,
          lock : {"none", "shared", "exclusive"}, again : BOOLEAN, local : BOOLEAN,
          result : {"none", "shown", "refused"}]
Finding == [branch : Branch \cup {Detached}, commit : Commit \cup {Absent}, branches : SUBSET Branch,
            dirty : BOOLEAN]

GitTypeOK ==
  /\ Branch # {}
  /\ head \in Heads /\ tip \in [Branch -> Commit \cup {Absent}]
  /\ files \in Commit \cup {Absent, Mixed} /\ edited \in BOOLEAN /\ indexLock \in BOOLEAN
  /\ callers \in [Client -> Call]
  /\ report \in [Client -> Finding]
  /\ stepped \subseteq Client

\* A request holds the lock of its kind from LockRoot to its end, and nobody holds any
\* besides one that is exclusive.
Locked ==
  /\ \A r \in Client :
       callers[r].lock = IF callers[r].step \in {"idle", "lock", "end"} THEN "none" ELSE LockMode(callers[r].kind)
  /\ \A r, q \in Client : r # q /\ callers[r].lock = "exclusive" => callers[q].lock = "none"

\* What a request has seen is so for as long as no other git comes in: of a request on
\* its way to the switch, also that it was allowed.
Current(r) ==
  LET c == callers[r] IN
  /\ c.step \in {"symbolic-ref", "for-each-ref", "status", "show-ref", "switch"} => report[r].commit = head.commit
  /\ c.step \in {"for-each-ref", "status", "show-ref", "switch"} => report[r].branch \in {head.branch, Detached}
  /\ c.step \in {"status", "show-ref", "switch"} => report[r].branches = KnownBranches
  /\ c.step \in {"show-ref", "switch"} =>
       ~Dirty /\ \A e \in c.expected : e.commit = head.commit /\ e.branch \in {head.branch, Detached}

OnlySwitches == \A r \in Client : callers[r].step \in {"show-ref", "switch"} => callers[r].kind = "switch"

GitInv == GitTypeOK /\ Locked /\ OnlySwitches /\ \A r \in Client : r \notin stepped => Current(r)

\* A repository with nobody in it has the invariant.
LEMMA GitInitInv == GitInit => GitInv
<1> SUFFICES ASSUME GitInit PROVE GitInv
  OBVIOUS
<1>1. PICK b \in Branch : tip[b] # Absent /\ head = [branch |-> b, commit |-> tip[b]]
  BY DEF GitInit
<1>2. tip \in [Branch -> Commit \cup {Absent}] /\ head \in Heads /\ head.commit \in Commit \cup {Absent}
  BY <1>1, GitAssumption DEF GitInit, Heads
<1>3. Branch # {} /\ Idle \in Call
  BY <1>1 DEF Idle, Steps, Call
<1>4. NoReport \in Finding
  BY DEF NoReport, Finding
<1>5. GitTypeOK
  BY <1>2, <1>3, <1>4 DEF GitInit, GitTypeOK
<1>6. QED
  BY <1>5 DEF GitInit, GitInv, Locked, OnlySwitches, Current, Idle

\* Every git leaves values of their types.
LEMMA GitTypes == GitTypeOK /\ GitNext => GitTypeOK'
<1> SUFFICES ASSUME GitTypeOK, GitNext PROVE GitTypeOK'
  OBVIOUS
<1>1. Idle \in Call /\ NoReport \in Finding /\ \A r \in Client : callers[r] \in Call
  BY DEF Idle, Steps, NoReport, GitTypeOK, Call, Finding
<1>2. ASSUME NEW r \in Client, NEW s \in Call, Set(r, s) PROVE callers' \in [Client -> Call]
  BY <1>2 DEF Set, GitTypeOK
<1>3. ASSUME NEW r \in Client, Quit(r)
      PROVE  callers' \in [Client -> Call] /\ report' \in [Client -> Finding]
  <2>1. PICK s \in Call : s = [Idle EXCEPT !.step = "end", !.result = "refused"]
    BY <1>1 DEF Steps, Call
  <2>2. Set(r, s)
    BY <1>3, <2>1 DEF Quit, EndCall
  <2>3. report' \in [Client -> Finding]
    BY <1>1, <1>3 DEF Quit, GitTypeOK
  <2>4. QED BY <1>2, <2>2, <2>3
<1>4. ASSUME NEW r \in Client, NEW s \in Steps, Go(r, s) PROVE callers' \in [Client -> Call]
  <2>1. [callers[r] EXCEPT !.step = s] \in Call
    BY DEF GitTypeOK, Call
  <2>2. QED BY <1>2, <1>4, <2>1 DEF Go
<1>5. CASE Others
  <2>1. head' \in Heads /\ tip' \in [Branch -> Commit \cup {Absent}] /\ files' \in Commit \cup {Absent, Mixed}
        /\ edited' \in BOOLEAN /\ indexLock' \in BOOLEAN
    <3>0. head.commit \in Commit \cup {Absent} /\ head.branch \in Branch \cup {Detached}
      BY DEF GitTypeOK, Heads
    <3>1. CASE edited' = TRUE /\ UNCHANGED <<head, tip, files, indexLock>>
      BY <3>1 DEF GitTypeOK
    <3>2. CASE edited' = FALSE /\ indexLock' = FALSE /\ files' = head.commit /\ UNCHANGED <<head, tip>>
      BY <3>0, <3>2 DEF GitTypeOK
    <3>3. CASE \E c \in Commit \ {head.commit} :
          /\ ~indexLock /\ files = head.commit
          /\ head' = [head EXCEPT !.commit = c] /\ files' = c /\ edited' = FALSE
          /\ tip' = IF head.branch = Detached THEN tip ELSE [tip EXCEPT ![head.branch] = c]
          /\ UNCHANGED indexLock
      <4>1. PICK c \in Commit :
              /\ head' = [head EXCEPT !.commit = c] /\ files' = c /\ edited' = FALSE
              /\ tip' = IF head.branch = Detached THEN tip ELSE [tip EXCEPT ![head.branch] = c]
              /\ UNCHANGED indexLock
        BY <3>3
      <4>2. head' \in Heads
        BY <4>1 DEF GitTypeOK, Heads
      <4>3. tip' \in [Branch -> Commit \cup {Absent}]
        BY <3>0, <4>1 DEF GitTypeOK
      <4>4. QED
        BY <4>1, <4>2, <4>3 DEF GitTypeOK
    <3>4. CASE \E b \in Branch : Switchable(b, TRUE) /\ Switch(b, TRUE)
      <4>1. PICK b \in Branch : Switch(b, TRUE) BY <3>4
      <4>2. Target(b, TRUE) \in Commit \cup {Absent} BY DEF Target, GitTypeOK
      <4>3. QED BY <4>1, <4>2 DEF Switch, GitTypeOK, Heads
    <3>5. CASE head' = [head EXCEPT !.branch = Detached] /\ UNCHANGED <<tip, files, edited, indexLock>>
      BY <3>5 DEF GitTypeOK, Heads
    <3>6. QED BY <1>5, <3>1, <3>2, <3>3, <3>4, <3>5 DEF Others
  <2>2. stepped' \subseteq Client /\ UNCHANGED <<callers, report>>
    BY <1>5 DEF Others, GitTypeOK
  <2>3. QED BY <2>1, <2>2 DEF GitTypeOK
<1>6. ASSUME NEW r \in Client, Arrive(r) PROVE GitTypeOK'
  <2>1. PICK kind \in {"inspect", "plan", "switch"}, w \in Branch, expected \in {{}, {head}} :
          Set(r, [callers[r] EXCEPT !.step = "lock", !.kind = kind, !.want = w, !.expected = expected])
    BY <1>6 DEF Arrive
  <2>2. [callers[r] EXCEPT !.step = "lock", !.kind = kind, !.want = w, !.expected = expected] \in Call
    BY <1>1 DEF GitTypeOK, Steps, Call, LockMode
  <2>3. QED BY <1>2, <1>6, <2>1, <2>2 DEF Arrive, GitTypeOK, repo
<1>7. ASSUME NEW r \in Client, LockRoot(r) PROVE GitTypeOK'
  <2>1. [callers[r] EXCEPT !.step = "rev-parse", !.lock = LockMode(callers[r].kind)] \in Call
    BY <1>1 DEF GitTypeOK, Steps, Call, LockMode
  <2>2. QED BY <1>2, <1>3, <1>7, <2>1 DEF LockRoot, GitTypeOK, repo
<1>8. ASSUME NEW r \in Client, RevParse(r) PROVE GitTypeOK'
  <2>1. CASE Quit(r) BY <1>3, <1>8, <2>1 DEF RevParse, GitTypeOK, repo
  <2>2. CASE Go(r, "symbolic-ref") /\ report' = [report EXCEPT ![r].commit = head.commit]
    <3>1. report' \in [Client -> Finding] BY <2>2 DEF GitTypeOK, Heads, Finding
    <3>2. QED BY <1>4, <1>8, <2>2, <3>1 DEF RevParse, GitTypeOK, repo, Steps
  <2>3. QED BY <1>8, <2>1, <2>2 DEF RevParse
<1>9. ASSUME NEW r \in Client, SymbolicRef(r) PROVE GitTypeOK'
  <2>1. report' \in [Client -> Finding] BY <1>9 DEF SymbolicRef, GitTypeOK, Heads, Finding
  <2>2. QED BY <1>4, <1>9, <2>1 DEF SymbolicRef, GitTypeOK, repo, Steps
<1>10. ASSUME NEW r \in Client, ForEachRef(r) PROVE GitTypeOK'
  <2>1. CASE Quit(r) BY <1>3, <1>10, <2>1 DEF ForEachRef, GitTypeOK, repo
  <2>2. CASE Go(r, "status") /\ report' = [report EXCEPT ![r].branches = KnownBranches]
    <3>1. report' \in [Client -> Finding] BY <2>2 DEF GitTypeOK, KnownBranches, Finding
    <3>2. QED BY <1>4, <1>10, <2>2, <3>1 DEF ForEachRef, GitTypeOK, repo, Steps
  <2>3. QED BY <1>10, <2>1, <2>2 DEF ForEachRef
<1>11. ASSUME NEW r \in Client, Status(r) PROVE GitTypeOK'
  <2>1. CASE Quit(r) BY <1>3, <1>11, <2>1 DEF Status, GitTypeOK, repo
  <2>2. CASE report' = [report EXCEPT ![r].dirty = Dirty] /\ (EndCall(r, "shown") \/ Go(r, "show-ref"))
    <3>1. report' \in [Client -> Finding] BY <2>2 DEF GitTypeOK, Dirty, Finding
    <3>2. [Idle EXCEPT !.step = "end", !.result = "shown"] \in Call
      BY <1>1 DEF Steps, Call
    <3>3. callers' \in [Client -> Call]
      BY <1>2, <1>4, <2>2, <3>2 DEF EndCall, Steps
    <3>4. QED BY <1>11, <3>1, <3>3 DEF Status, GitTypeOK, repo
  <2>3. QED BY <1>11, <2>1, <2>2 DEF Status
<1>12. ASSUME NEW r \in Client, ShowRef(r) PROVE GitTypeOK'
  <2>1. PICK local \in BOOLEAN : Set(r, [callers[r] EXCEPT !.step = "switch", !.local = local])
    BY <1>12 DEF ShowRef
  <2>2. [callers[r] EXCEPT !.step = "switch", !.local = local] \in Call
    BY <1>1 DEF GitTypeOK, Steps, Call, LockMode
  <2>3. QED BY <1>2, <1>12, <2>1, <2>2 DEF ShowRef, GitTypeOK, repo
<1>13. ASSUME NEW r \in Client, RunSwitch(r) PROVE GitTypeOK'
  <2> DEFINE b == callers[r].want  l == callers[r].local
  <2>0. b \in Branch /\ l \in BOOLEAN /\ Target(b, l) \in Commit \cup {Absent}
    BY <1>1, GitAssumption DEF GitTypeOK, Target, Call
  <2>1. Switch(b, l) => head' \in Heads /\ tip' \in [Branch -> Commit \cup {Absent}]
          /\ files' \in Commit \cup {Absent, Mixed} /\ edited' \in BOOLEAN /\ indexLock' \in BOOLEAN
    BY <2>0 DEF Switch, GitTypeOK, Heads
  <2>2. CASE Switch(b, l) /\ LookAgain(r) /\ UNCHANGED report
    <3>1. [callers[r] EXCEPT !.step = "rev-parse", !.again = TRUE] \in Call
      BY <1>1 DEF GitTypeOK, Steps, Call, LockMode
    <3>2. QED BY <1>2, <1>13, <2>1, <2>2, <3>1 DEF LookAgain, RunSwitch, GitTypeOK
  <2>3. CASE Quit(r)
    <3>1. head' \in Heads /\ tip' \in [Branch -> Commit \cup {Absent}]
          /\ files' \in Commit \cup {Absent, Mixed} /\ edited' \in BOOLEAN /\ indexLock' \in BOOLEAN
      <4>1. CASE UNCHANGED repo BY <4>1 DEF repo, GitTypeOK
      <4>2. CASE Switch(b, l) BY <4>2, <2>1
      <4>3. CASE /\ indexLock' = TRUE /\ files' \in {files, Mixed, Target(b, l)}
                 /\ UNCHANGED <<head, tip, edited>>
        BY <2>0, <4>3 DEF GitTypeOK
      <4>4. CASE /\ files' = Target(b, l) /\ tip' \in {tip, [tip EXCEPT ![b] = files']}
                 /\ UNCHANGED <<head, edited, indexLock>>
        BY <2>0, <4>4 DEF GitTypeOK
      <4>5. QED BY <1>13, <2>1, <4>1, <4>2, <4>3, <4>4 DEF RunSwitch
    <3>2. QED BY <1>3, <1>13, <2>3, <3>1 DEF RunSwitch, GitTypeOK
  <2>4. QED BY <1>13, <2>2, <2>3 DEF RunSwitch
<1>14. QED BY <1>5, <1>6, <1>7, <1>8, <1>9, <1>10, <1>11, <1>12, <1>13 DEF GitNext, Command

\* A call that ends holds no lock.
LEMMA Ending ==
  ASSUME GitTypeOK, NEW r \in Client, NEW outcome, EndCall(r, outcome)
  PROVE  /\ \A q \in Client \ {r} : callers'[q] = callers[q]
         /\ callers'[r].step = "end" /\ callers'[r].lock = "none" /\ callers'[r].result = outcome
  BY DEF EndCall, Set, GitTypeOK, Idle

\* The call of a request that is refused ends.
LEMMA Quitting ==
  ASSUME GitTypeOK, NEW r \in Client, Quit(r)
  PROVE  /\ \A q \in Client \ {r} : callers'[q] = callers[q] /\ report'[q] = report[q]
         /\ callers'[r].step = "end" /\ callers'[r].lock = "none" /\ callers'[r].result = "refused"
  BY Ending DEF Quit, GitTypeOK

\* A call that goes on.
LEMMA Going ==
  ASSUME GitTypeOK, NEW r \in Client, NEW next, Go(r, next)
  PROVE  /\ \A q \in Client \ {r} : callers'[q] = callers[q]
         /\ callers'[r] = [callers[r] EXCEPT !.step = next]
         /\ callers'[r].step = next /\ callers'[r].lock = callers[r].lock
         /\ callers'[r].kind = callers[r].kind /\ callers'[r].expected = callers[r].expected
  BY DEF Go, Set, GitTypeOK, Call

\* What a step of a request does to its call: it leaves those of the others alone, and
\* ends, arrives, takes the lock, or goes on with the lock that it has.
LEMMA CallSteps ==
  ASSUME GitTypeOK, NEW r \in Client, Command(r)
  PROVE  /\ \A q \in Client \ {r} : callers'[q] = callers[q] /\ report'[q] = report[q]
         /\ stepped' = stepped
         /\ \/ /\ callers'[r].step = "end" /\ callers'[r].lock = "none"
               /\ callers'[r].result = "refused" \/ Status(r)
            \/ callers'[r].step = "lock" /\ callers[r].step = "idle" /\ callers'[r].lock = callers[r].lock
            \/ /\ callers'[r].step = "rev-parse" /\ callers[r].step = "lock" /\ callers'[r].kind = callers[r].kind
               /\ callers'[r].lock = LockMode(callers[r].kind) /\ Free(r, LockMode(callers[r].kind))
            \/ /\ callers[r].step \notin {"idle", "lock", "end"}
               /\ callers'[r].step \notin {"idle", "lock", "end"}
               /\ callers'[r].kind = callers[r].kind /\ callers'[r].lock = callers[r].lock
               /\ callers'[r].step = "show-ref" => callers[r].kind = "switch"
               /\ callers'[r].step = "switch" => callers[r].step = "show-ref"
<1>1. CASE Arrive(r)
  <2>1. PICK c \in Call : c = callers[r]
    BY DEF GitTypeOK
  <2>2. PICK kind \in {"inspect", "plan", "switch"}, w \in Branch, e \in {{}, {head}} :
          Set(r, [c EXCEPT !.step = "lock", !.kind = kind, !.want = w, !.expected = e])
    BY <1>1, <2>1 DEF Arrive
  <2>6. callers'[r] = [c EXCEPT !.step = "lock", !.kind = kind, !.want = w, !.expected = e]
    BY <2>2 DEF Set, GitTypeOK
  <2>3. callers'[r].step = "lock" /\ callers'[r].lock = c.lock
    BY <2>6 DEF Call
  <2>4. \A q \in Client \ {r} : callers'[q] = callers[q] /\ report'[q] = report[q]
    BY <1>1 DEF Arrive, Set, GitTypeOK
  <2>5. QED BY <1>1, <2>1, <2>3, <2>4 DEF Arrive, AtStep
<1>2. CASE LockRoot(r)
  <2>1. CASE Quit(r)
    BY <1>2, <2>1, Quitting DEF LockRoot
  <2>2. CASE ~Quit(r)
    <3>1. PICK c \in Call : c = callers[r]
      BY DEF GitTypeOK
    <3>2. callers'[r] = [c EXCEPT !.step = "rev-parse", !.lock = LockMode(c.kind)] /\ Free(r, LockMode(c.kind))
      BY <1>2, <2>2, <3>1 DEF LockRoot, Set, GitTypeOK
    <3>3. callers'[r].step = "rev-parse" /\ callers'[r].lock = LockMode(c.kind) /\ callers'[r].kind = c.kind
      BY <3>2 DEF Call
    <3>4. \A q \in Client \ {r} : callers'[q] = callers[q] /\ report'[q] = report[q]
      BY <1>2, <2>2 DEF LockRoot, Set, GitTypeOK
    <3>5. QED BY <1>2, <3>1, <3>2, <3>3, <3>4 DEF LockRoot, AtStep
  <2>3. QED BY <2>1, <2>2
<1>3. CASE RevParse(r)
  <2>1. CASE Quit(r)
    BY <1>3, <2>1, Quitting DEF RevParse
  <2>2. CASE ~Quit(r)
    <3>1. Go(r, "symbolic-ref") /\ \A q \in Client \ {r} : report'[q] = report[q]
      BY <1>3, <2>2 DEF RevParse, GitTypeOK
    <3>2. /\ \A q \in Client \ {r} : callers'[q] = callers[q]
          /\ callers'[r].step = "symbolic-ref"
          /\ callers'[r].lock = callers[r].lock /\ callers'[r].kind = callers[r].kind
      BY <3>1, Going
    <3>3. callers[r].step = "rev-parse" /\ stepped' = stepped
      BY <1>3 DEF RevParse, AtStep
    <3>4. QED BY <3>1, <3>2, <3>3
  <2>3. QED BY <2>1, <2>2
<1>4. CASE SymbolicRef(r)
  <2>1. Go(r, "for-each-ref") /\ \A q \in Client \ {r} : report'[q] = report[q]
    BY <1>4 DEF SymbolicRef, GitTypeOK
  <2>2. /\ \A q \in Client \ {r} : callers'[q] = callers[q]
        /\ callers'[r].step = "for-each-ref"
        /\ callers'[r].lock = callers[r].lock /\ callers'[r].kind = callers[r].kind
    BY <2>1, Going
  <2>3. callers[r].step = "symbolic-ref" /\ stepped' = stepped
    BY <1>4 DEF SymbolicRef, AtStep
  <2>4. QED BY <2>1, <2>2, <2>3
<1>5. CASE ForEachRef(r)
  <2>1. CASE Quit(r)
    BY <1>5, <2>1, Quitting DEF ForEachRef
  <2>2. CASE ~Quit(r)
    <3>1. Go(r, "status") /\ \A q \in Client \ {r} : report'[q] = report[q]
      BY <1>5, <2>2 DEF ForEachRef, GitTypeOK
    <3>2. /\ \A q \in Client \ {r} : callers'[q] = callers[q]
          /\ callers'[r].step = "status"
          /\ callers'[r].lock = callers[r].lock /\ callers'[r].kind = callers[r].kind
      BY <3>1, Going
    <3>3. callers[r].step = "for-each-ref" /\ stepped' = stepped
      BY <1>5 DEF ForEachRef, AtStep
    <3>4. QED BY <3>1, <3>2, <3>3
  <2>3. QED BY <2>1, <2>2
<1>6. CASE Status(r)
  <2>1. CASE Quit(r)
    BY <1>6, <2>1, Quitting DEF Status
  <2>2. CASE EndCall(r, "shown") /\ report' = [report EXCEPT ![r].dirty = Dirty]
    BY <1>6, <2>2, Ending DEF Status, GitTypeOK
  <2>3. CASE Go(r, "show-ref") /\ callers[r].kind = "switch" /\ report' = [report EXCEPT ![r].dirty = Dirty]
    <3>1. \A q \in Client \ {r} : report'[q] = report[q]
      BY <2>3 DEF GitTypeOK
    <3>2. /\ \A q \in Client \ {r} : callers'[q] = callers[q]
          /\ callers'[r].step = "show-ref"
          /\ callers'[r].lock = callers[r].lock /\ callers'[r].kind = callers[r].kind
      BY <2>3, Going
    <3>3. callers[r].step = "status" /\ stepped' = stepped
      BY <1>6 DEF Status, AtStep
    <3>4. QED BY <2>3, <3>1, <3>2, <3>3
  <2>4. QED BY <1>6, <2>1, <2>2, <2>3 DEF Status
<1>7. CASE ShowRef(r)
  <2>1. PICK c \in Call : c = callers[r]
    BY DEF GitTypeOK
  <2>2. PICK l : callers'[r] = [c EXCEPT !.step = "switch", !.local = l]
    BY <1>7, <2>1 DEF ShowRef, Set, GitTypeOK
  <2>3. callers'[r].step = "switch" /\ callers'[r].lock = c.lock /\ callers'[r].kind = c.kind
    BY <2>2 DEF Call
  <2>4. \A q \in Client \ {r} : callers'[q] = callers[q] /\ report'[q] = report[q]
    BY <1>7 DEF ShowRef, Set, GitTypeOK
  <2>5. QED BY <1>7, <2>1, <2>3, <2>4 DEF ShowRef, AtStep
<1>8. CASE RunSwitch(r)
  <2>1. CASE Quit(r)
    BY <1>8, <2>1, Quitting DEF RunSwitch
  <2>2. CASE LookAgain(r) /\ UNCHANGED report
    <3>1. PICK c \in Call : c = callers[r]
      BY DEF GitTypeOK
    <3>2. callers'[r] = [c EXCEPT !.step = "rev-parse", !.again = TRUE]
      BY <2>2, <3>1 DEF LookAgain, Set, GitTypeOK
    <3>3. callers'[r].step = "rev-parse" /\ callers'[r].lock = c.lock /\ callers'[r].kind = c.kind
      BY <3>2 DEF Call
    <3>4. \A q \in Client \ {r} : callers'[q] = callers[q] /\ report'[q] = report[q]
      BY <2>2 DEF LookAgain, Set, GitTypeOK
    <3>5. QED BY <1>8, <3>1, <3>3, <3>4 DEF RunSwitch, AtStep
  <2>3. QED BY <1>8, <2>1, <2>2 DEF RunSwitch
<1>9. QED
  BY <1>1, <1>2, <1>3, <1>4, <1>5, <1>6, <1>7, <1>8 DEF Command

\* The lock is exclusive.
LEMMA LockedStep == GitTypeOK /\ Locked /\ GitNext => Locked'
<1> SUFFICES ASSUME GitTypeOK, Locked, GitNext PROVE Locked'
  OBVIOUS
<1>1. CASE Others
  BY <1>1 DEF Others, Locked
<1>2. ASSUME NEW r \in Client, Command(r) PROVE Locked'
  <2>1. \A q \in Client \ {r} : callers'[q] = callers[q]
    BY <1>2, CallSteps
  <2>2. CASE callers'[r].lock \in {"none", callers[r].lock}
    BY <1>2, <2>1, <2>2, CallSteps DEF Locked, LockMode
  <2>3. CASE callers'[r].lock \notin {"none", callers[r].lock}
    <3>1. /\ callers'[r].step = "rev-parse" /\ callers'[r].kind = callers[r].kind
          /\ callers'[r].lock = LockMode(callers[r].kind) /\ Free(r, LockMode(callers[r].kind))
      BY <1>2, <2>3, CallSteps
    <3>2. \A q \in Client \ {r} :
            callers[q].lock = "none" \/ (callers'[r].lock = "shared" /\ callers[q].lock = "shared")
      BY <3>1 DEF Free
    <3>3. QED BY <2>1, <3>1, <3>2 DEF Locked
  <2>4. QED BY <2>2, <2>3
<1>3. QED
  BY <1>1, <1>2 DEF GitNext

\* Only a request to switch comes to the switch.
LEMMA OnlySwitchesStep == GitTypeOK /\ OnlySwitches /\ GitNext => OnlySwitches'
<1> SUFFICES ASSUME GitTypeOK, OnlySwitches, GitNext PROVE OnlySwitches'
  OBVIOUS
<1>1. CASE Others
  BY <1>1 DEF Others, OnlySwitches
<1>2. ASSUME NEW r \in Client, Command(r) PROVE OnlySwitches'
  BY <1>2, CallSteps DEF OnlySwitches
<1>3. QED
  BY <1>1, <1>2 DEF GitNext

\* Only a switch changes the repository, and only by a request that holds it alone.
LEMMA AloneStep ==
  ASSUME GitInv, NEW r \in Client, Command(r), ~UNCHANGED repo
  PROVE  /\ RunSwitch(r)
         /\ \A q \in Client \ {r} : callers[q].step \in {"idle", "lock", "end"}
<1>1. RunSwitch(r)
  BY DEF Command, Arrive, LockRoot, RevParse, SymbolicRef, ForEachRef, Status, ShowRef
<1>2. callers[r].lock = "exclusive"
  BY <1>1 DEF RunSwitch, AtStep, GitInv, Locked, OnlySwitches, LockMode
<1>3. QED
  BY <1>1, <1>2 DEF GitInv, Locked, LockMode

\* What others have seen stays so, and what a request has just seen is so.
LEMMA CurrentStep ==
  ASSUME GitInv, GitNext, NEW r \in Client, r \notin stepped'
  PROVE  Current(r)'
<1>1. CASE Others
  <2>1. r \notin stepped /\ callers[r].lock = "none" /\ UNCHANGED <<callers, report>>
    BY <1>1 DEF Others
  <2>2. callers[r].step \in {"idle", "lock", "end"}
    BY <2>1 DEF GitInv, Locked, LockMode
  <2>3. QED BY <2>1, <2>2 DEF Current
<1>2. ASSUME NEW q \in Client, q # r, Command(q) PROVE Current(r)'
  <2>1. callers'[r] = callers[r] /\ report'[r] = report[r] /\ r \notin stepped
    BY <1>2, CallSteps DEF GitInv
  <2>2. CASE UNCHANGED repo
    BY <2>1, <2>2 DEF GitInv, Current, repo, KnownBranches, Dirty
  <2>3. CASE ~UNCHANGED repo
    <3>1. callers[r].step \in {"idle", "lock", "end"}
      BY <1>2, <2>3, AloneStep
    <3>2. QED BY <2>1, <3>1 DEF Current
  <2>4. QED BY <2>2, <2>3
<1>3. CASE Command(r)
  <2>0. GitTypeOK /\ Current(r) /\ callers[r].expected \subseteq Heads
    BY <1>3, CallSteps DEF GitInv, GitTypeOK, Call
  <2> USE DEF Set, Go, AtStep, EndCall
  <2>1. callers'[r].step \in {"idle", "lock", "end", "rev-parse"} => Current(r)'
    BY DEF Current
  <2>2. Quit(r) => callers'[r].step = "end"
    BY <2>0, Quitting
  <2>3. CASE Arrive(r)
    BY <2>0, <2>1, <2>3 DEF Arrive, GitTypeOK, Call
  <2>4. CASE LockRoot(r)
    BY <2>0, <2>1, <2>2, <2>4 DEF LockRoot, GitTypeOK, Call
  <2>5. CASE RevParse(r)
    BY <2>0, <2>1, <2>2, <2>5 DEF RevParse, GitTypeOK, Call, Finding, Current, repo
  <2>6. CASE SymbolicRef(r)
    BY <2>0, <2>6 DEF SymbolicRef, GitTypeOK, Call, Finding, Current, repo
  <2>7. CASE ForEachRef(r)
    BY <2>0, <2>1, <2>2, <2>7 DEF ForEachRef, GitTypeOK, Call, Finding, Current, repo, KnownBranches
  <2>8. CASE Status(r)
    <3>1. CASE callers'[r].step = "end"
      BY <2>1, <3>1
    <3>2. CASE callers'[r].step # "end"
      <4>0. ~Quit(r) /\ ~EndCall(r, "shown")
        BY <2>0, <3>2, Ending DEF Quit
      <4>1. /\ callers'[r] = [callers[r] EXCEPT !.step = "show-ref"]
            /\ report'[r] = [report[r] EXCEPT !.dirty = Dirty]
            /\ ~Dirty /\ UNCHANGED repo
            /\ callers[r].expected \in {{}, {[branch |-> report[r].branch, commit |-> report[r].commit]}}
            /\ callers[r].step = "status"
        BY <2>0, <2>8, <4>0 DEF Status, GitTypeOK
      <4>2. callers'[r].step = "show-ref" /\ callers'[r].expected = callers[r].expected
            /\ report'[r].branch = report[r].branch /\ report'[r].commit = report[r].commit
            /\ report'[r].branches = report[r].branches
        BY <2>0, <4>1 DEF GitTypeOK, Call, Finding
      <4>3. QED BY <2>0, <4>1, <4>2 DEF Current, repo, Dirty, KnownBranches
    <3>3. QED BY <3>1, <3>2
  <2>9. CASE ShowRef(r)
    BY <2>0, <2>9 DEF ShowRef, GitTypeOK, Call, Finding, Current, repo, Dirty, KnownBranches
  <2>10. CASE RunSwitch(r)
    <3>1. callers[r].step = "switch" /\ (Quit(r) \/ LookAgain(r))
      BY <2>10 DEF RunSwitch
    <3>2. CASE LookAgain(r)
      <4>1. callers'[r] = [callers[r] EXCEPT !.step = "rev-parse", !.again = TRUE]
        BY <2>0, <3>2 DEF LookAgain, GitTypeOK
      <4>2. callers'[r].step = "rev-parse"
        BY <2>0, <4>1 DEF GitTypeOK, Call
      <4>3. QED BY <2>1, <4>2
    <3>3. QED BY <2>1, <2>2, <3>1, <3>2
  <2>11. QED BY <1>3, <2>3, <2>4, <2>5, <2>6, <2>7, <2>8, <2>9, <2>10 DEF Command
<1>4. QED
  BY <1>1, <1>2, <1>3 DEF GitNext

\* Nothing of the invariant depends on anything else.
LEMMA GitStutter == GitInv /\ UNCHANGED gitVars => GitInv'
<1> SUFFICES ASSUME GitInv, UNCHANGED gitVars PROVE GitInv'
  OBVIOUS
<1>1. GitTypeOK' /\ Locked' /\ OnlySwitches'
  BY DEF GitInv, GitTypeOK, Locked, OnlySwitches, gitVars, repo
<1>2. \A r \in Client : r \notin stepped' => Current(r)'
  BY DEF GitInv, Current, gitVars, repo, KnownBranches, Dirty
<1>3. QED BY <1>1, <1>2 DEF GitInv

\* The invariant of the git folders, for any number of requests, branches and commits.
THEOREM GitInvariance == GitSpec => []GitInv
<1>1. GitInv /\ [GitNext]_gitVars => GitInv'
  <2>1. GitInv /\ GitNext => GitInv'
    BY GitTypes, LockedStep, OnlySwitchesStep, CurrentStep DEF GitInv
  <2>2. QED BY <2>1, GitStutter
<1>2. QED
  BY <1>1, GitInitInv, PTL DEF GitSpec

\* A switch of a branch finds the repository as it was looked at and confirmed, unless
\* another git came in after that (runGitSwitch).
THEOREM WhatWasSeenIsSwitched == GitSpec => SwitchesWhatWasSeen
<1>1. GitInv /\ [GitNext]_gitVars =>
        [\A r \in Client :
           /\ AtStep(r, "switch") /\ callers'[r] # callers[r]
           /\ <<head, tip, files>>' # <<head, tip, files>>
           /\ r \notin stepped
           => /\ ~Dirty
              /\ \A e \in callers[r].expected : e.commit = head.commit /\ e.branch \in {head.branch, Detached}]_gitVars
  BY DEF GitInv, Current, AtStep
<1>2. QED
  BY <1>1, GitInvariance, PTL DEF GitSpec, SwitchesWhatWasSeen

\* What a request is shown was true of the repository at one moment, unless another git
\* came in meanwhile (loadGitStatus).
THEOREM WhatIsReportedIsReal == GitSpec => ReportIsReal
<1> DEFINE Real ==
      \A r \in Client :
       /\ ~AtStep(r, "end") /\ callers'[r].step = "end" /\ callers'[r].result = "shown"
       /\ r \notin stepped
       => /\ report'[r].branch \in {head'.branch, Detached}
          /\ report'[r] = [branch |-> report'[r].branch, commit |-> head'.commit,
                           branches |-> KnownBranches', dirty |-> Dirty']
<1>1. ASSUME GitInv, GitNext, NEW r \in Client, ~AtStep(r, "end"), callers'[r].step = "end",
             callers'[r].result = "shown", r \notin stepped
      PROVE  /\ report'[r].branch \in {head'.branch, Detached}
             /\ report'[r] = [branch |-> report'[r].branch, commit |-> head'.commit,
                           branches |-> KnownBranches', dirty |-> Dirty']
  <2>1. GitTypeOK /\ Current(r)
    BY <1>1 DEF GitInv
  <2>2. ~Others /\ \A q \in Client \ {r} : ~Command(q)
    BY <1>1, <2>1, CallSteps DEF Others, AtStep
  <2>3. Command(r)
    BY <1>1, <2>2 DEF GitNext
  <2>4. ~Quit(r)
    BY <1>1, <2>1, Ending DEF Quit
  <2>5. Status(r)
    BY <1>1, <2>1, <2>3, CallSteps
  <2>6. callers[r].step = "status" /\ report'[r] = [report[r] EXCEPT !.dirty = Dirty] /\ UNCHANGED repo
    BY <2>1, <2>4, <2>5 DEF Status, AtStep, GitTypeOK
  <2>7. /\ report'[r].branch = report[r].branch
        /\ report'[r] = [branch |-> report[r].branch, commit |-> report[r].commit,
                         branches |-> report[r].branches, dirty |-> Dirty]
    BY <2>1, <2>6 DEF GitTypeOK, Finding
  <2>8. KnownBranches' = KnownBranches /\ Dirty' = Dirty /\ head' = head
    BY <2>6 DEF repo, KnownBranches, Dirty
  <2>9. QED
    BY <2>1, <2>6, <2>7, <2>8 DEF Current
<1>2. GitInv /\ [GitNext]_gitVars => [Real]_gitVars
  BY <1>1
<1>3. QED
  BY <1>2, GitInvariance, PTL DEF GitSpec, ReportIsReal

-----------------------------------------------------------------------------
(* The space for previews.  A preview looks at the file system, then       *)
(* writes a step without looking: what it may still write is counted       *)
(* as if it were taken.                                                    *)

\* The units that previews may write without looking, and how many they are.
Blind(a)  == {x \in Preview \X (1..Step) : x[2] <= a[x[1]]}
Spread(a) == Cardinality(Blind(a))
\* What all previews but one may write without looking.
OfOthers == Step * (Cardinality(Preview) - 1)

\* The allowances of the other previews are at most OfOthers, whatever one preview has.
LEMMA SpreadIs ==
  ASSUME NEW a \in [Preview -> 0..Step], NEW b \in [Preview -> 0..Step], NEW p \in Preview,
         \A q \in Preview \ {p} : b[q] = a[q]
  PROVE  /\ OfOthers \in Nat
         /\ \E m \in 0..OfOthers : Spread(a) = m + a[p] /\ Spread(b) = m + b[p]
<1> DEFINE Off == {x \in (Preview \ {p}) \X (1..Step) : x[2] <= a[x[1]]}
           On(k) == {p} \X (1..k)
<1>1. /\ IsFiniteSet(Preview \ {p}) /\ Cardinality(Preview \ {p}) = Cardinality(Preview) - 1
      /\ Cardinality(Preview \ {p}) \in Nat
  BY SpaceAssumption, FS_RemoveElement, FS_CardinalityType
<1>2. IsFiniteSet(1..Step) /\ Cardinality(1..Step) = Step
  <2>1. Step \in Int /\ 1 \in Int /\ Step >= 1
    BY SpaceAssumption
  <2>2. QED BY <2>1, FS_Interval
<1>3. /\ IsFiniteSet((Preview \ {p}) \X (1..Step))
      /\ Cardinality((Preview \ {p}) \X (1..Step)) = (Cardinality(Preview) - 1) * Step
  <2>1. /\ IsFiniteSet((Preview \ {p}) \X (1..Step))
        /\ Cardinality((Preview \ {p}) \X (1..Step)) = Cardinality(Preview \ {p}) * Cardinality(1..Step)
    BY <1>1, <1>2, FS_Product
  <2>2. QED BY <1>1, <1>2, <2>1, Zenon
<1>4. IsFiniteSet(Off) /\ Cardinality(Off) <= (Cardinality(Preview) - 1) * Step /\ Cardinality(Off) \in Nat
  <2>1. Off \in SUBSET ((Preview \ {p}) \X (1..Step))
    OBVIOUS
  <2>2. QED BY <1>3, <2>1, FS_Subset, FS_CardinalityType
<1>5. ASSUME NEW k \in 0..Step PROVE IsFiniteSet(On(k)) /\ Cardinality(On(k)) = k
  <2>1. k \in Int /\ 1 \in Int
    BY SpaceAssumption
  <2>5. IsFiniteSet(1..k) /\ Cardinality(1..k) = IF 1 > k THEN 0 ELSE k - 1 + 1
    BY <2>1, FS_Interval
  <2>2. IsFiniteSet(1..k) /\ Cardinality(1..k) = k
    BY <1>5, <2>5, SpaceAssumption
  <2>3. IsFiniteSet({p}) /\ Cardinality({p}) = 1
    BY FS_Singleton
  <2>4. QED BY <2>1, <2>2, <2>3, FS_Product
<1>6. ASSUME NEW c \in [Preview -> 0..Step], \A q \in Preview \ {p} : c[q] = a[q]
      PROVE  Spread(c) = Cardinality(Off) + c[p]
  <2>1. Blind(c) = Off \cup On(c[p])
    <3>1. ASSUME NEW x \in Blind(c) PROVE x \in Off \cup On(c[p])
      BY <1>6, <3>1 DEF Blind
    <3>2. ASSUME NEW x \in Off PROVE x \in Blind(c)
      BY <1>6 DEF Blind
    <3>3. ASSUME NEW x \in On(c[p]) PROVE x \in Blind(c)
      BY SpaceAssumption DEF Blind
    <3>4. QED BY <3>1, <3>2, <3>3
  <2>2. Off \cap On(c[p]) = {}
    OBVIOUS
  <2>3. Cardinality(Off \cap On(c[p])) = 0
    BY <2>2, FS_EmptySet
  <2>4. IsFiniteSet(On(c[p])) /\ Cardinality(On(c[p])) = c[p] /\ c[p] \in Nat
    <3>1. PICK k \in 0..Step : k = c[p]
      BY <1>6
    <3>2. IsFiniteSet(On(k)) /\ Cardinality(On(k)) = k
      BY <1>5
    <3>3. QED BY <3>1, <3>2, SpaceAssumption
  <2>5. Cardinality(Blind(c)) = Cardinality(Off) + Cardinality(On(c[p])) - 0
    BY <1>4, <2>1, <2>3, <2>4, FS_Union
  <2>6. QED BY <1>4, <2>4, <2>5 DEF Spread
<1>7. PICK n \in Nat : n = Cardinality(Preview) - 1
  BY <1>1
<1>8. n * Step = Step * n /\ Step * n \in Nat
  BY <1>7, SpaceAssumption
<1>9. Cardinality(Off) \in 0..OfOthers /\ OfOthers \in Nat
  BY <1>4, <1>7, <1>8 DEF OfOthers
<1>10. Spread(a) = Cardinality(Off) + a[p] /\ Spread(b) = Cardinality(Off) + b[p]
  BY <1>6
<1>11. QED
  BY <1>9, <1>10

SpaceTypeOK ==
  /\ free \in Nat /\ taken \in Nat
  /\ phase \in [Preview -> {"idle", "reads", "open", "closed"}] /\ size \in [Preview -> Nat \cup {-1}]
  /\ written \in [Preview -> Nat] /\ allowance \in [Preview -> 0..Step]
  /\ pending \in [Preview -> 0..Chunk]
  /\ \A p \in Preview : pending[p] <= allowance[p] /\ (pending[p] = 0 \/ phase[p] = "reads")

\* Whatever has been written, and may yet be written without looking, leaves this much
\* of the headroom.
Reserved ==
  Spread(allowance) > 0 \/ (\E p \in Preview : written[p] > 0) =>
    free + taken + OfOthers >= Headroom + Spread(allowance)

SpaceInv == SpaceTypeOK /\ Reserved

\* There is no more spare than is free beyond the headroom.
LEMMA SpareIs == ASSUME SpaceTypeOK PROVE Spare \in Nat /\ (Spare > 0 => free = Headroom + Spare)
  BY SpaceAssumption DEF SpaceTypeOK, Spare, Most

\* Preview p has found that it may put n.
LookedFor(p, n) ==
  /\ ~(n > allowance[p] /\ n > Spare)
  /\ allowance' = [allowance EXCEPT ![p] = Allowed(p, n)] /\ pending' = [pending EXCEPT ![p] = n]
  /\ UNCHANGED <<free, phase, written>>

\* The checks of a write end the preview or let it go on.
LEMMA LookOutcome ==
  ASSUME NEW p \in Preview, CheckSpace(p), ~Close(p)
  PROVE  \E n \in 1..Chunk : LookedFor(p, n)
  BY DEF CheckSpace, LookedFor

\* Either covers the write.
LEMMA AllowedIs ==
  ASSUME SpaceTypeOK, NEW p \in Preview, NEW n \in 1..Chunk, ~(n > allowance[p] /\ n > Spare)
  PROVE  Allowed(p, n) \in n..Step
<1>1. n \in Nat /\ n <= Step /\ Spare \in Nat /\ allowance[p] \in 0..Step
  BY SpareIs, SpaceAssumption DEF SpaceTypeOK
<1>2. QED BY <1>1, SpaceAssumption DEF Allowed, Least, Most

\* Numbers stay numbers, and nobody may write more than a step without looking.
LEMMA SpaceTypes == ASSUME SpaceTypeOK, SpaceNext PROVE SpaceTypeOK'
<1>1. CASE OthersTake \/ OthersFree
  BY <1>1, SpaceAssumption DEF OthersTake, OthersFree, SpaceTypeOK
<1>2. ASSUME NEW p \in Preview, Close(p), UNCHANGED <<size, taken>> PROVE SpaceTypeOK'
  BY <1>2, SpaceAssumption DEF Close, SpaceTypeOK
<1>3. ASSUME NEW p \in Preview, Begin(p) PROVE SpaceTypeOK'
  <2>1. FirstAllowance \in 0..Step
    BY SpareIs, SpaceAssumption DEF FirstAllowance, Least
  <2>2. pending[p] = 0
    BY <1>3 DEF Begin, SpaceTypeOK
  <2>3. QED BY <1>3, <2>1, <2>2, SpaceAssumption DEF Begin, SpaceTypeOK
<1>4. ASSUME NEW p \in Preview, CheckSpace(p) PROVE SpaceTypeOK'
  <2>1. UNCHANGED <<size, taken>>
    BY <1>4 DEF CheckSpace
  <2>2. CASE Close(p)
    BY <1>2, <2>1, <2>2
  <2>3. CASE ~Close(p)
    <3>1. PICK n \in 1..Chunk : LookedFor(p, n)
      BY <1>4, <2>3, LookOutcome
    <3>2. Allowed(p, n) \in n..Step
      BY <3>1, AllowedIs DEF LookedFor
    <3>3. phase[p] = "reads"
      BY <1>4 DEF CheckSpace
    <3>4. allowance' \in [Preview -> 0..Step] /\ pending' \in [Preview -> 0..Chunk]
      BY <3>1, <3>2, SpaceAssumption DEF LookedFor, SpaceTypeOK
    <3>5. ASSUME NEW q \in Preview
          PROVE  pending'[q] <= allowance'[q] /\ (pending'[q] = 0 \/ phase[q] = "reads")
      BY <3>1, <3>2, <3>3, SpaceAssumption DEF LookedFor, SpaceTypeOK
    <3>6. QED BY <2>1, <3>1, <3>4, <3>5 DEF LookedFor, SpaceTypeOK
  <2>4. QED BY <2>2, <2>3
<1>5. ASSUME NEW p \in Preview, Put(p) PROVE SpaceTypeOK'
  <2>1. UNCHANGED <<size, taken>>
    BY <1>5 DEF Put
  <2>2. CASE Close(p)
    BY <1>2, <2>1, <2>2
  <2>3. CASE ~Close(p)
    <3>1. pending[p] \in Nat /\ pending[p] <= allowance[p] /\ pending[p] <= free
      BY <1>5, <2>3, SpaceAssumption DEF Put, SpaceTypeOK
    <3>2. free - pending[p] \in Nat /\ allowance[p] - pending[p] \in 0..Step
      BY <3>1, SpaceAssumption DEF SpaceTypeOK
    <3>3. QED BY <1>5, <2>1, <2>3, <3>1, <3>2, SpaceAssumption DEF Put, SpaceTypeOK
  <2>4. QED BY <2>2, <2>3
<1>6. ASSUME NEW p \in Preview, EndOfRead(p) PROVE SpaceTypeOK'
  <2>1. CASE Close(p)
    BY <1>2, <1>6, <2>1 DEF EndOfRead
  <2>2. CASE ~Close(p)
    BY <1>6, <2>2, SpaceAssumption DEF EndOfRead, SpaceTypeOK
  <2>3. QED BY <2>1, <2>2
<1>7. ASSUME NEW p \in Preview, Done(p) PROVE SpaceTypeOK'
  BY <1>2, <1>7 DEF Done
<1>8. QED BY <1>1, <1>3, <1>4, <1>5, <1>6, <1>7 DEF SpaceNext

\* A preview that gives back what it wrote.
LEMMA ClosedReserved ==
  ASSUME SpaceInv, SpaceTypeOK', NEW p \in Preview, Close(p), UNCHANGED taken
  PROVE  Reserved'
<1>1. PICK m \in 0..OfOthers : Spread(allowance) = m + allowance[p] /\ Spread(allowance') = m + allowance'[p]
  <2>1. allowance \in [Preview -> 0..Step] /\ allowance' \in [Preview -> 0..Step]
    BY DEF SpaceInv, SpaceTypeOK
  <2>2. \A q \in Preview \ {p} : allowance'[q] = allowance[q]
    BY <2>1 DEF Close
  <2>3. QED BY <2>1, <2>2, SpreadIs
<1>2. allowance[p] \in Nat /\ allowance'[p] = 0 /\ free' = free + written[p] /\ written[p] \in Nat
      /\ \A q \in Preview : written'[q] > 0 => written[q] > 0
  BY SpaceAssumption DEF Close, SpaceInv, SpaceTypeOK
<1>3. OfOthers \in Nat
  BY SpreadIs DEF SpaceInv, SpaceTypeOK
<1>4. QED
  BY <1>1, <1>2, <1>3, SpaceAssumption DEF SpaceInv, SpaceTypeOK, Reserved

\* A put takes as much of its allowance as of what is free; a look is the only way to a
\* new allowance, and finds more than the headroom.
LEMMA ReservedStep == ASSUME SpaceInv, SpaceNext, SpaceTypeOK' PROVE Reserved'
<1>0. allowance \in [Preview -> 0..Step] /\ allowance' \in [Preview -> 0..Step]
  BY DEF SpaceInv, SpaceTypeOK
<1>1. CASE OthersTake \/ OthersFree
  <2>1. free' + taken' = free + taken /\ UNCHANGED <<written, allowance>>
    <3>1. free \in Nat /\ taken \in Nat
      BY DEF SpaceInv, SpaceTypeOK
    <3>2. PICK n \in Nat : \/ free' = free - n /\ taken' = taken + n
                           \/ free' = free + n /\ taken' = taken - n
      BY <1>1, <3>1 DEF OthersTake, OthersFree
    <3>3. QED BY <1>1, <3>1, <3>2 DEF OthersTake, OthersFree
  <2>2. OfOthers' = OfOthers
    OBVIOUS
  <2>3. QED BY <2>1, <2>2 DEF SpaceInv, Reserved
<1>2. ASSUME NEW p \in Preview, Begin(p) PROVE Reserved'
  <2>1. /\ \A q \in Preview \ {p} : allowance'[q] = allowance[q]
        /\ allowance'[p] = FirstAllowance /\ UNCHANGED <<free, written, taken>>
    BY <1>0, <1>2 DEF Begin
  <2>2. PICK m \in 0..OfOthers : Spread(allowance) = m + allowance[p] /\ Spread(allowance') = m + allowance'[p]
    BY <1>0, <2>1, SpreadIs
  <2>3. OfOthers \in Nat
    BY <1>0, SpreadIs, <1>2
  <2>4. /\ Spare \in Nat /\ (Spare > 0 => free = Headroom + Spare)
        /\ FirstAllowance <= Spare /\ FirstAllowance \in Nat
    BY SpareIs, SpaceAssumption DEF FirstAllowance, Least, SpaceInv
  <2>5. QED
    BY <1>0, <2>1, <2>2, <2>3, <2>4, SpaceAssumption DEF SpaceInv, SpaceTypeOK, Reserved
<1>3. ASSUME NEW p \in Preview, CheckSpace(p) PROVE Reserved'
  <2>1. UNCHANGED taken
    BY <1>3 DEF CheckSpace
  <2>2. CASE Close(p)
    BY <2>1, <2>2, ClosedReserved
  <2>3. CASE ~Close(p)
    <3>1. PICK n \in 1..Chunk : LookedFor(p, n)
      BY <1>3, <2>3, LookOutcome
    <3>2. /\ \A q \in Preview \ {p} : allowance'[q] = allowance[q]
          /\ allowance'[p] = Allowed(p, n) /\ UNCHANGED <<free, written>> /\ n \in Nat \ {0}
          /\ ~(n > allowance[p] /\ n > Spare)
      BY <1>0, <3>1, SpaceAssumption DEF LookedFor
    <3>3. PICK m \in 0..OfOthers : Spread(allowance) = m + allowance[p] /\ Spread(allowance') = m + allowance'[p]
      BY <1>0, <3>2, SpreadIs
    <3>4. OfOthers \in Nat /\ allowance[p] \in Nat /\ allowance'[p] \in Nat
      BY <1>0, SpreadIs, <1>3, SpaceAssumption
    <3>5. CASE n > allowance[p]
      <4>1. /\ Spare \in Nat /\ Spare > 0 /\ free = Headroom + Spare
            /\ Allowed(p, n) <= Spare /\ Allowed(p, n) \in Nat
        BY <3>2, <3>4, <3>5, SpareIs, SpaceAssumption DEF SpaceInv, Allowed, Least, Most
      <4>2. QED
        BY <2>1, <3>2, <3>3, <3>4, <4>1, SpaceAssumption DEF SpaceInv, SpaceTypeOK, Reserved
    <3>6. CASE n <= allowance[p]
      <4>1. Allowed(p, n) = allowance[p]
        BY <3>2, <3>4, <3>6 DEF Allowed
      <4>2. Spread(allowance') = Spread(allowance)
        BY <3>2, <3>3, <4>1
      <4>3. QED
        BY <2>1, <3>2, <4>2 DEF SpaceInv, Reserved
    <3>7. QED BY <3>2, <3>4, <3>5, <3>6
  <2>4. QED BY <2>2, <2>3
<1>4. ASSUME NEW p \in Preview, Put(p) PROVE Reserved'
  <2>1. UNCHANGED taken
    BY <1>4 DEF Put
  <2>2. CASE Close(p)
    BY <2>1, <2>2, ClosedReserved
  <2>3. CASE ~Close(p)
    <3>1. /\ pending[p] \in Nat \ {0} /\ pending[p] <= allowance[p] /\ allowance[p] \in Nat
          /\ free' = free - pending[p]
      BY <1>4, <2>3, SpaceAssumption DEF Put, SpaceInv, SpaceTypeOK
    <3>2. /\ \A q \in Preview \ {p} : allowance'[q] = allowance[q]
          /\ allowance'[p] = allowance[p] - pending[p]
      BY <1>0, <1>4, <2>3 DEF Put
    <3>3. PICK m \in 0..OfOthers : Spread(allowance) = m + allowance[p] /\ Spread(allowance') = m + allowance'[p]
      BY <1>0, <3>2, SpreadIs
    <3>4. OfOthers \in Nat
      BY <1>0, SpreadIs, <1>4
    <3>5. free + taken + OfOthers >= Headroom + Spread(allowance)
      BY <3>1, <3>3 DEF SpaceInv, Reserved
    <3>6. QED
      BY <2>1, <3>1, <3>2, <3>3, <3>4, <3>5, SpaceAssumption DEF SpaceInv, SpaceTypeOK, Reserved
  <2>4. QED BY <2>2, <2>3
<1>5. ASSUME NEW p \in Preview, EndOfRead(p) PROVE Reserved'
  <2>1. CASE Close(p)
    BY <1>5, <2>1, ClosedReserved DEF EndOfRead
  <2>2. CASE ~Close(p)
    <3>1. allowance' = [allowance EXCEPT ![p] = 0] /\ UNCHANGED <<free, written, taken>>
      BY <1>5, <2>2 DEF EndOfRead
    <3>2. PICK m \in 0..OfOthers : Spread(allowance) = m + allowance[p] /\ Spread(allowance') = m + allowance'[p]
      BY <1>0, <3>1, SpreadIs
    <3>3. OfOthers \in Nat /\ allowance[p] \in Nat /\ allowance'[p] = 0
      BY <1>0, <3>1, SpreadIs, <1>5, SpaceAssumption
    <3>4. QED BY <3>1, <3>2, <3>3, SpaceAssumption DEF SpaceInv, SpaceTypeOK, Reserved
  <2>3. QED BY <2>1, <2>2
<1>6. ASSUME NEW p \in Preview, Done(p) PROVE Reserved'
  BY <1>6, ClosedReserved DEF Done
<1>7. QED BY <1>1, <1>2, <1>3, <1>4, <1>5, <1>6 DEF SpaceNext

\* The invariant of the space for previews, for any number of them and any sizes.
THEOREM SpaceInvariance == SpaceSpec => []SpaceInv
<1>1. SpaceInit => SpaceInv
  <2> SUFFICES ASSUME SpaceInit PROVE SpaceInv
    OBVIOUS
  <2>1. SpaceTypeOK
    <3>1. free \in Nat /\ taken \in Nat /\ phase \in [Preview -> {"idle", "reads", "open", "closed"}]
      BY SpaceAssumption DEF SpaceInit
    <3>2. size \in [Preview -> Nat \cup {-1}]
      BY SpaceAssumption DEF SpaceInit
    <3>3. written \in [Preview -> Nat] /\ allowance \in [Preview -> 0..Step]
      BY SpaceAssumption DEF SpaceInit
    <3>4. pending \in [Preview -> 0..Chunk] /\ \A p \in Preview : pending[p] <= allowance[p] /\ pending[p] = 0
      BY SpaceAssumption DEF SpaceInit
    <3>5. QED BY <3>1, <3>2, <3>3, <3>4 DEF SpaceTypeOK
  <2>2. Blind(allowance) = {}
    BY SpaceAssumption DEF SpaceInit, Blind
  <2>3. Spread(allowance) = 0
    BY <2>2, FS_EmptySet DEF Spread
  <2>4. QED BY <2>1, <2>3 DEF SpaceInv, Reserved, SpaceInit
<1>2. SpaceInv /\ [SpaceNext]_spaceVars => SpaceInv'
  <2>1. SpaceInv /\ SpaceNext => SpaceInv'
    BY SpaceTypes, ReservedStep DEF SpaceInv
  <2>2. SpaceInv /\ UNCHANGED spaceVars => SpaceInv'
    BY DEF SpaceInv, SpaceTypeOK, Reserved, spaceVars
  <2>3. QED BY <2>1, <2>2
<1>3. QED BY <1>1, <1>2, PTL DEF SpaceSpec

\* Previews leave the headroom free but for one step of each of the others (previewWriter.Write).
THEOREM HeadroomIsShared == SpaceSpec => []HeadroomShared
<1>1. SpaceInv => HeadroomShared
  <2> SUFFICES ASSUME SpaceInv, NEW p \in Preview, written[p] > 0
               PROVE  free + taken >= Headroom - Step * (Cardinality(Preview) - 1)
    BY DEF HeadroomShared
  <2>1. /\ OfOthers \in Nat
        /\ \E m \in 0..OfOthers : Spread(allowance) = m + allowance[p]
    BY SpreadIs DEF SpaceInv, SpaceTypeOK
  <2>2. Spread(allowance) \in Nat
    BY <2>1, SpaceAssumption DEF SpaceInv, SpaceTypeOK
  <2>3. free + taken >= Headroom - OfOthers
    BY <2>1, <2>2, SpaceAssumption DEF SpaceInv, SpaceTypeOK, Reserved
  <2>4. QED BY <2>3 DEF OfOthers
<1>2. QED BY <1>1, SpaceInvariance, PTL

-----------------------------------------------------------------------------
(* Permissions.  One inode may be several items of a selection; nobody     *)
(* else touches it, or nothing is said of it.                              *)

Inodes == [owner : Owner, bits : SUBSET Bits]
Stats  == [id : Inode, owner : Owner, bits : SUBSET Bits]
Items  == [id : Inode, mode : SUBSET Bits]

PermTypeOK ==
  /\ link \in [Path -> Inode] /\ inode \in [Inode -> Inodes]
  /\ step \in {"idle", "check", "chown", "chmod", "end"} /\ change \in Changes
  /\ result \in {"none", "refused", "done", "failed", "died"}
  /\ held \in Seq(Items) /\ was \in Seq(Stats) /\ done \in Nat

\* Items are changed only after all of them were checked, and counted when they are.
Stage ==
  /\ Len(was) = Len(held) /\ Len(held) <= Len(change.paths) /\ done <= Len(held)
  /\ step \in {"idle", "check"} => Len(held) < Len(change.paths)
  /\ step # "end" => result = "none"
  /\ step \in {"idle", "check"} \/ result = "refused" \/ ~change.apply => done = 0
  /\ step \in {"chown", "chmod"} => change.apply /\ Len(held) = Len(change.paths) /\ done < Len(held)
  /\ result = "done" => (change.apply => done = Len(held)) /\ Len(held) = Len(change.paths)

\* The mode an item is to get is the one asked for, as it was when it was checked; an
\* inode that nobody touched was the same whenever it was checked.
Meant ==
  /\ \A k \in DOMAIN held : was[k].id = held[k].id /\ held[k].mode = Asked(k).bits
  /\ \A j, k \in DOMAIN held :
       held[j].id = held[k].id /\ held[k].id \notin touched => was[j] = was[k]

\* What an inode is to be by now: as asked once an item that it is was changed.
Due(k) == IF \E j \in 1..done : held[j].id = held[k].id THEN Asked(k) ELSE was[k]
InHand(k) == done < Len(held) /\ held[done + 1].id = held[k].id
\* Between the two calls it has its owner, and at most the bits from before.
Half(k) ==
  /\ InHand(k)
  /\ inode[held[k].id].owner = Asked(k).owner /\ inode[held[k].id].bits \subseteq Due(k).bits

Settled(k) ==
  held[k].id \notin touched =>
    IF step = "chmod" /\ InHand(k) THEN Half(k)
    ELSE Stat(held[k].id) = Due(k) \/ (result \in {"failed", "died"} /\ Half(k))

PermInv == PermTypeOK /\ Stage /\ Meant /\ \A k \in DOMAIN held : Settled(k)

\* The inode in hand is one.
LEMMA HeldIs ==
  ASSUME PermTypeOK, Stage
  PROVE  /\ DOMAIN held = 1..Len(held) /\ DOMAIN was = 1..Len(held) /\ Len(held) \in Nat
         /\ \A k \in 1..Len(held) : held[k] \in Items /\ was[k] \in Stats
         /\ step \in {"chown", "chmod"} => done + 1 \in 1..Len(held) /\ Item \in Items /\ Item = held[done + 1]
<1>1. DOMAIN held = 1..Len(held) /\ DOMAIN was = 1..Len(held) /\ Len(held) \in Nat
  BY DEF PermTypeOK, Stage
<1>2. \A k \in 1..Len(held) : held[k] \in Items /\ was[k] \in Stats
  <2>1. held \in Seq(Items) /\ was \in Seq(Stats) /\ Len(was) = Len(held)
    BY DEF PermTypeOK, Stage
  <2>2. QED BY <2>1
<1>3. step \in {"chown", "chmod"} => done + 1 \in 1..Len(held)
  <2>1. done \in Nat /\ (step \in {"chown", "chmod"} => done < Len(held))
    BY DEF PermTypeOK, Stage
  <2>2. QED BY <1>1, <2>1
<1>4. QED BY <1>1, <1>2, <1>3 DEF Item

\* What is asked for has a type.
LEMMA ChangeIs ==
  ASSUME PermTypeOK
  PROVE  /\ change \in Change /\ change.paths \in Seq(Path) /\ Len(change.paths) \in Nat \ {0}
         /\ change.mask \in SUBSET Bits /\ change.bits \in SUBSET Bits
         /\ change.owner \in Owner \cup {Same} /\ change.apply \in BOOLEAN
<1>1. change \in Change /\ change.paths # <<>>
  BY PermissionAssumption DEF PermTypeOK
<1>2. change.paths \in Seq(Path)
  BY <1>1 DEF Change
<1>3. Len(change.paths) \in Nat \ {0}
  BY <1>1, <1>2
<1>4. QED BY <1>1, <1>2, <1>3 DEF Change

\* What was asked of an item depends on how it was found.
LEMMA AskedIs ==
  ASSUME PermTypeOK, Stage, NEW k \in 1..Len(held)
  PROVE  /\ Asked(k) \in Stats /\ Asked(k).id = was[k].id
         /\ Asked(k).owner = IF change.owner = Same THEN was[k].owner ELSE change.owner
<1>1. PICK w \in Stats : w = was[k]
  BY HeldIs
<1>2. change.owner \in Owner \cup {Same} /\ change.bits \in SUBSET Bits
  BY ChangeIs
<1>3. QED
  BY <1>1, <1>2 DEF Asked, Stats

\* Before a request there is nothing to hold.
LEMMA PermInitInv == PermInit => PermInv
<1> SUFFICES ASSUME PermInit PROVE PermInv
  OBVIOUS
<1>1. PermTypeOK
  BY PermissionAssumption DEF PermInit, PermTypeOK, Inodes
<1>2. Stage
  BY <1>1, ChangeIs DEF PermInit, Stage
<1>3. QED
  BY <1>1, <1>2 DEF PermInit, PermInv, Meant

\* If an item is neither checked nor changed, what holds of the items stays.
LEMMA Unmoved ==
  ASSUME PermInv, PermTypeOK', Stage', UNCHANGED <<inode, held, was, change, done, touched>>,
         step' = "chmod" => step = "chmod",
         step = "chmod" => step' = "chmod" \/ result' \in {"failed", "died"},
         result \in {"failed", "died"} => result' \in {"failed", "died"}
  PROVE  PermInv'
<1>1. /\ \A k : Asked(k)' = Asked(k) /\ Due(k)' = Due(k) /\ InHand(k)' = InHand(k) /\ Half(k)' = Half(k)
      /\ \A i : Stat(i)' = Stat(i)
  BY DEF Asked, Due, InHand, Half, Stat
<1>2. Meant'
  BY <1>1 DEF PermInv, Meant
<1>3. ASSUME NEW k \in DOMAIN held PROVE Settled(k)'
  BY <1>1 DEF PermInv, Settled
<1>4. QED
  BY <1>2, <1>3 DEF PermInv

\* A request that arrives has checked nothing.
LEMMA OpenPerm == ASSUME PermInv, Open PROVE PermInv'
<1>1. PermTypeOK'
  BY DEF Open, PermInv, PermTypeOK
<1>2. Stage' /\ step # "chmod" /\ step' # "chmod"
  <2>1. step = "idle" /\ step' = "check" /\ UNCHANGED <<inode, change, held, done, result, was, touched>>
    BY DEF Open
  <2>2. Len(held) < Len(change.paths)
    BY <2>1 DEF PermInv, Stage
  <2>3. QED
    BY <2>1 DEF PermInv, Stage
<1>3. QED
  BY <1>1, <1>2, Unmoved DEF Open

\* One more item is found as it is, and is to get what was asked.
LEMMA CheckPerm == ASSUME PermInv, Check PROVE PermInv'
<1>0. PICK n : n = Len(held) + 1
  OBVIOUS
<1>9. PICK i : i = link[change.paths[n]]
  OBVIOUS
<1>1. /\ step = "check" /\ UNCHANGED <<link, inode, change, done, touched>>
      /\ PermTypeOK /\ Stage /\ done = 0 /\ result = "none" /\ Len(held) < Len(change.paths)
  BY DEF Check, PermInv, Stage
<1>2. n \in Nat /\ n \in 1..Len(change.paths) /\ Len(held) \in Nat /\ DOMAIN held = 1..Len(held)
  BY <1>0, <1>1, HeldIs, ChangeIs
<1>3. i \in Inode /\ inode[i] \in Inodes
  <2>1. change.paths[n] \in Path
    BY <1>1, <1>2, ChangeIs
  <2>2. QED BY <1>1, <1>9, <2>1 DEF PermTypeOK
<1>4. CASE UNCHANGED <<held, was>> /\ step' = "end" /\ result' = "refused"
  <2>1. PermTypeOK' /\ Stage'
    BY <1>1, <1>4 DEF PermTypeOK, Stage
  <2>2. QED
    BY <1>1, <1>4, <2>1, Unmoved
<1>5. CASE /\ held' = Append(held, [id |-> i, mode |-> Mode(i)]) /\ was' = Append(was, Stat(i))
           /\ \/ n # Len(change.paths) /\ UNCHANGED <<step, result>>
              \/ n = Len(change.paths) /\ change.apply /\ step' = "chown" /\ UNCHANGED result
              \/ n = Len(change.paths) /\ ~change.apply /\ step' = "end" /\ result' = "done"
  <2>1. Mode(i) \in SUBSET Bits
    BY <1>1, <1>3, ChangeIs DEF Mode, Mask, Inodes
  <2>2. Stat(i) \in Stats /\ [id |-> i, mode |-> Mode(i)] \in Items
    BY <1>3, <2>1 DEF Stat, Stats, Items, Inodes
  <2>3. held' \in Seq(Items) /\ was' \in Seq(Stats) /\ Len(held') = n /\ Len(was') = n
    BY <1>0, <1>1, <1>5, <2>2 DEF PermTypeOK, Stage
  <2>4. PermTypeOK'
    BY <1>1, <1>5, <2>3 DEF PermTypeOK
  <2>5. Stage'
    BY <1>0, <1>1, <1>2, <1>5, <2>3 DEF Stage
  <2>6. /\ DOMAIN held' = 1..n /\ \A k \in 1..Len(held) : held'[k] = held[k] /\ was'[k] = was[k]
        /\ held'[n] = [id |-> i, mode |-> Mode(i)] /\ was'[n] = Stat(i)
    BY <1>0, <1>1, <1>5, <2>2, <2>3 DEF PermTypeOK, Stage
  <2>7. \A k \in 1..Len(held) : Asked(k)' = Asked(k)
    BY <1>0, <1>1, <2>6 DEF Asked
  <2>8. Asked(n)'.bits = Mode(i)
    <3>1. was'[n].id = i /\ was'[n].bits = inode[i].bits /\ inode[i].bits \in SUBSET Bits
      BY <1>3, <2>6 DEF Stat, Inodes
    <3>2. change.mask \in SUBSET Bits /\ change.bits \in SUBSET Bits /\ change' = change
      BY <1>1, ChangeIs
    <3>3. QED
      BY <3>1, <3>2 DEF Asked, Mode, Mask
  <2>9. \A k \in 1..Len(held) : held[k].id \notin touched => Stat(held[k].id) = was[k]
    BY <1>1, <1>2 DEF PermInv, Settled, Due
  <2>10. Meant'
    <3>1. ASSUME NEW k \in 1..n PROVE was'[k].id = held'[k].id /\ held'[k].mode = Asked(k)'.bits
      <4>1. CASE k = n
        <5>1. held'[n].id = i /\ held'[n].mode = Mode(i) /\ was'[n].id = i
          BY <2>6 DEF Stat
        <5>2. QED BY <2>8, <4>1, <5>1
      <4>2. CASE k # n
        BY <1>0, <1>2, <2>6, <2>7, <4>2 DEF PermInv, Meant
      <4>3. QED BY <4>1, <4>2
    <3>2. ASSUME NEW k \in 1..Len(held), held[k].id = i, i \notin touched PROVE was[k] = Stat(i)
      BY <2>9, <3>2
    <3>3. ASSUME NEW j \in 1..n, NEW k \in 1..n, held'[j].id = held'[k].id, held'[k].id \notin touched
          PROVE  was'[j] = was'[k]
      <4>1. CASE j # n /\ k # n
        BY <1>0, <1>2, <2>6, <3>3, <4>1 DEF PermInv, Meant
      <4>2. CASE j = n /\ k # n
        BY <1>0, <1>2, <2>6, <3>2, <3>3, <4>2
      <4>3. CASE j # n /\ k = n
        BY <1>0, <1>2, <2>6, <3>2, <3>3, <4>3
      <4>4. QED BY <4>1, <4>2, <4>3
    <3>4. QED BY <1>1, <2>6, <3>1, <3>3 DEF Meant
  <2>11. ASSUME NEW k \in 1..n PROVE Settled(k)'
    <3>0. PICK q : q = held'[k].id
      OBVIOUS
    <3>1. Stat(q)' = Stat(q) /\ Due(k)' = was'[k] /\ step' # "chmod"
      <4>1. Stat(q)' = Stat(q) /\ step' # "chmod" /\ done' = 0
        BY <1>1, <1>5 DEF Stat
      <4>2. QED BY <4>1 DEF Due
    <3>2. q \notin touched => Stat(q) = was'[k]
      <4>1. CASE k = n
        BY <2>6, <3>0, <4>1
      <4>2. CASE k # n
        <5>1. k \in 1..Len(held)
          BY <1>0, <1>2, <4>2
        <5>2. QED BY <2>6, <2>9, <3>0, <5>1
      <4>3. QED BY <4>1, <4>2
    <3>4. QED BY <1>1, <3>0, <3>1, <3>2 DEF Settled
  <2>12. QED BY <2>4, <2>5, <2>6, <2>10, <2>11 DEF PermInv
<1>6. QED
  BY <1>0, <1>4, <1>5, <1>9 DEF Check, End, Calls

\* The owner of the item in hand.
LEMMA ChownPerm == ASSUME PermInv, Chown PROVE PermInv'
<1>0. PICK i : i = Item.id
  OBVIOUS
<1>1. /\ step = "chown" /\ UNCHANGED <<link, change, held, was, touched>>
      /\ PermTypeOK /\ Stage /\ result = "none" /\ change.apply /\ done < Len(held)
  BY DEF Chown, PermInv, Stage
<1>2. i \in Inode /\ Item = held[done + 1] /\ inode[i] \in Inodes
  BY <1>0, <1>1, HeldIs DEF Items, PermTypeOK
<1>3. CASE End("failed") /\ UNCHANGED <<inode, done>>
  <2>1. PermTypeOK' /\ Stage'
    BY <1>1, <1>3 DEF End, PermTypeOK, Stage
  <2>2. QED
    BY <1>1, <1>3, <2>1, Unmoved DEF End
<1>4. ASSUME step' = "chmod", UNCHANGED <<done, result>>, NEW s \in Inodes,
             inode' = [inode EXCEPT ![i] = s], s.bits \subseteq inode[i].bits,
             IF change.owner = Same THEN s.owner = inode[i].owner ELSE s.owner = change.owner
      PROVE  PermInv'
  <2>1. PermTypeOK' /\ Stage'
    BY <1>1, <1>4 DEF PermTypeOK, Stage
  <2>2. \A k : Asked(k)' = Asked(k) /\ Due(k)' = Due(k) /\ InHand(k)' = InHand(k)
    BY <1>1, <1>4 DEF Asked, Due, InHand
  <2>3. Meant'
    BY <1>1, <2>2 DEF PermInv, Meant
  <2>4. ASSUME NEW k \in DOMAIN held, held[k].id \notin touched PROVE Settled(k)'
    <3>1. Stat(held[k].id) = Due(k)
      BY <1>1, <2>4 DEF PermInv, Settled
    <3>2. held[k].id \in Inode
      BY <1>1, <2>4, HeldIs DEF Items
    <3>3. CASE ~InHand(k)
      <4>1. held[k].id # i
        BY <1>0, <1>1, <1>2, <3>3 DEF InHand
      <4>2. Stat(held[k].id)' = Stat(held[k].id)
        BY <1>1, <1>4, <3>2, <4>1 DEF Stat, PermTypeOK
      <4>3. QED
        BY <1>1, <2>2, <3>1, <3>3, <4>2 DEF Settled
    <3>4. CASE InHand(k)
      <4>1. held[k].id = i /\ inode'[i] = s
        BY <1>0, <1>1, <1>2, <1>4, <3>4 DEF InHand, PermTypeOK
      <4>2. Due(k).bits = inode[i].bits /\ Due(k).owner = inode[i].owner
        BY <3>1, <4>1 DEF Stat
      <4>3. Asked(k).owner = IF change.owner = Same THEN was[k].owner ELSE change.owner
        BY <1>1, <2>4, AskedIs, HeldIs
      <4>4. s.owner = Asked(k).owner
        BY <1>4, <4>2, <4>3 DEF Due
      <4>5. Half(k)'
        BY <1>1, <1>4, <2>2, <3>4, <4>1, <4>2, <4>4 DEF Half
      <4>6. QED
        BY <1>4, <2>2, <3>4, <4>5 DEF Settled
    <3>5. QED BY <3>3, <3>4
  <2>5. ASSUME NEW k \in DOMAIN held, held[k].id \in touched PROVE Settled(k)'
    BY <1>1, <2>5 DEF Settled
  <2>6. QED
    BY <1>1, <2>1, <2>3, <2>4, <2>5 DEF PermInv
<1>5. CASE change.owner = Same /\ Advance("chown") /\ UNCHANGED inode
  <2>1. inode' = [inode EXCEPT ![i] = inode[i]]
    BY <1>1, <1>2, <1>5 DEF PermTypeOK
  <2>2. step' = "chmod" /\ UNCHANGED <<done, result>>
    BY <1>5 DEF Advance, Calls
  <2>3. QED BY <1>2, <1>4, <1>5, <2>1, <2>2
<1>6. CASE change.owner # Same /\ Advance("chown") /\ Alter(i, change.owner, Kept(i))
  <2>1. change.owner \in Owner /\ Kept(i) \subseteq inode[i].bits
    BY <1>1, <1>6, ChangeIs DEF Kept
  <2>2. PICK s \in Inodes : s = [owner |-> change.owner, bits |-> Kept(i)]
    BY <1>2, <2>1 DEF Inodes
  <2>3. step' = "chmod" /\ UNCHANGED <<done, result>>
    BY <1>6 DEF Advance, Calls
  <2>4. s.owner = change.owner /\ s.bits = Kept(i) /\ inode' = [inode EXCEPT ![i] = s]
    BY <1>6, <2>2 DEF Alter
  <2>5. QED BY <1>4, <1>6, <2>1, <2>3, <2>4
<1>7. QED
  BY <1>0, <1>3, <1>5, <1>6 DEF Chown

\* The mode of the item in hand; all items that are this inode are as asked.
LEMMA ChmodPerm == ASSUME PermInv, Chmod PROVE PermInv'
<1>0. PICK i : i = Item.id
  OBVIOUS
<1>1. /\ step = "chmod" /\ UNCHANGED <<link, change, held, was, touched>>
      /\ PermTypeOK /\ Stage /\ Meant /\ result = "none" /\ change.apply /\ done < Len(held) /\ done \in Nat
      /\ Len(held) = Len(change.paths)
  BY DEF Chmod, PermInv, PermTypeOK, Stage
<1>2. /\ i \in Inode /\ Item = held[done + 1] /\ inode[i] \in Inodes /\ Item.mode \in SUBSET Bits
      /\ done + 1 \in 1..Len(held) /\ DOMAIN held = 1..Len(held) /\ Len(held) \in Nat
  BY <1>0, <1>1, HeldIs DEF Items, PermTypeOK
<1>3. CASE End("failed") /\ UNCHANGED <<inode, done>>
  <2>1. PermTypeOK' /\ Stage'
    BY <1>1, <1>3 DEF End, PermTypeOK, Stage
  <2>2. QED
    BY <1>1, <1>3, <2>1, Unmoved DEF End
<1>4. CASE Advance("chmod") /\ Alter(i, inode[i].owner, Item.mode)
  <2>1. /\ done' = done + 1
        /\ \/ done + 1 = Len(held) /\ step' = "end" /\ result' = "done"
           \/ done + 1 # Len(held) /\ step' = "chown" /\ UNCHANGED result
    BY <1>4 DEF Advance, Calls, End
  <2>2. PICK s \in Inodes : s = [owner |-> inode[i].owner, bits |-> Item.mode]
    BY <1>2 DEF Inodes
  <2>3. inode' = [inode EXCEPT ![i] = s] /\ inode'[i] = s
    BY <1>1, <1>2, <1>4, <2>2 DEF Alter, PermTypeOK
  <2>4. PermTypeOK'
    <3>1. inode' \in [Inode -> Inodes]
      BY <1>1, <2>3 DEF PermTypeOK
    <3>2. done' \in Nat /\ step' \in {"chown", "end"} /\ result' \in {"none", "done"}
      BY <1>1, <2>1
    <3>3. QED
      BY <1>1, <3>1, <3>2 DEF PermTypeOK
  <2>5. Stage'
    BY <1>1, <1>2, <2>1 DEF Stage
  <2>6. \A k : Asked(k)' = Asked(k)
    BY <1>1 DEF Asked
  <2>7. Meant'
    BY <1>1, <2>6 DEF Meant
  <2>8. ASSUME NEW k \in DOMAIN held, held[k].id \notin touched PROVE Settled(k)'
    <3>0. held[k].id \in Inode /\ was[k].id = held[k].id /\ k \in 1..Len(held)
      BY <1>1, <2>8, HeldIs DEF Items, Meant
    <3>1. CASE held[k].id = i
      <4>1. InHand(k)
        BY <1>0, <1>1, <1>2, <3>1 DEF InHand
      <4>2. inode[i].owner = Asked(k).owner
        BY <1>1, <2>8, <3>1, <4>1 DEF PermInv, Settled, Half
      <4>3. Item.mode = Asked(k).bits
        <5>1. was[done + 1] = was[k] /\ Item.mode = Asked(done + 1).bits
          BY <1>0, <1>1, <1>2, <2>8, <3>1 DEF Meant
        <5>2. QED BY <5>1 DEF Asked
      <4>4. Due(k)' = Asked(k)
        BY <1>0, <1>1, <1>2, <2>1, <2>6, <3>1 DEF Due
      <4>5. Stat(i)' = [id |-> i, owner |-> Asked(k).owner, bits |-> Asked(k).bits]
        BY <2>2, <2>3, <4>2, <4>3 DEF Stat
      <4>6. Asked(k).id = i /\ Asked(k) \in Stats
        BY <1>1, <3>0, <3>1, AskedIs
      <4>7. Stat(i)' = Asked(k)
        BY <4>5, <4>6 DEF Stats
      <4>8. QED
        BY <1>1, <2>1, <3>1, <4>4, <4>7 DEF Settled
    <3>2. CASE held[k].id # i
      <4>1. ~InHand(k)
        BY <1>0, <1>2, <3>2 DEF InHand
      <4>2. Stat(held[k].id) = Due(k)
        BY <1>1, <2>8, <4>1 DEF PermInv, Settled
      <4>3. Stat(held[k].id)' = Stat(held[k].id)
        BY <1>1, <2>3, <3>0, <3>2 DEF Stat, PermTypeOK
      <4>4. (\E j \in 1..(done + 1) : held[j].id = held[k].id) <=> (\E j \in 1..done : held[j].id = held[k].id)
        BY <1>0, <1>1, <1>2, <3>2
      <4>5. Due(k)' = Due(k)
        BY <1>1, <2>1, <2>6, <4>4 DEF Due
      <4>6. QED
        BY <1>1, <2>1, <4>2, <4>3, <4>5 DEF Settled
    <3>3. QED BY <3>1, <3>2
  <2>9. ASSUME NEW k \in DOMAIN held, held[k].id \in touched PROVE Settled(k)'
    BY <1>1, <2>9 DEF Settled
  <2>10. QED
    BY <1>1, <2>4, <2>5, <2>7, <2>8, <2>9 DEF PermInv
<1>5. QED
  BY <1>0, <1>3, <1>4 DEF Chmod

\* What others change, they have touched.
LEMMA MeddlePerm == ASSUME PermInv, Meddle PROVE PermInv'
<1>1. UNCHANGED <<step, change, held, done, result, was>> /\ PermTypeOK /\ Stage /\ Meant
  BY DEF Meddle, PermInv
<1>2. CASE \E p \in Path, i \in Inode : link' = [link EXCEPT ![p] = i] /\ UNCHANGED <<inode, touched>>
  <2>1. PermTypeOK' /\ Stage'
    BY <1>1, <1>2 DEF PermTypeOK, Stage
  <2>2. QED
    BY <1>1, <1>2, <2>1, Unmoved
<1>3. ASSUME NEW i \in Inode, NEW o \in Owner, NEW b \in SUBSET Bits, Alter(i, o, b),
             touched' = IF \E k \in DOMAIN held : held[k].id = i THEN touched \cup {i} ELSE touched,
             UNCHANGED link
      PROVE  PermInv'
  <2>1. PermTypeOK' /\ Stage'
    <3>1. [owner |-> o, bits |-> b] \in Inodes
      BY DEF Inodes
    <3>2. inode' \in [Inode -> Inodes]
      BY <1>1, <1>3, <3>1 DEF Alter, PermTypeOK
    <3>3. QED BY <1>1, <1>3, <3>2 DEF PermTypeOK, Stage
  <2>2. \A k : Asked(k)' = Asked(k) /\ Due(k)' = Due(k) /\ InHand(k)' = InHand(k)
    BY <1>1 DEF Asked, Due, InHand
  <2>3. touched \subseteq touched'
    BY <1>3
  <2>4. Meant'
    BY <1>1, <2>2, <2>3 DEF Meant
  <2>5. ASSUME NEW k \in DOMAIN held PROVE Settled(k)'
    <3>1. CASE held[k].id \in touched'
      BY <1>1, <3>1 DEF Settled
    <3>2. CASE held[k].id \notin touched'
      <4>1. held[k].id # i /\ held[k].id \notin touched
        BY <1>3, <3>2
      <4>2. held[k].id \in Inode
        BY <1>1, HeldIs DEF Items
      <4>3. inode'[held[k].id] = inode[held[k].id]
        BY <1>1, <1>3, <4>1, <4>2 DEF Alter, PermTypeOK
      <4>4. Stat(held[k].id)' = Stat(held[k].id) /\ Half(k)' = Half(k)
        BY <1>1, <2>2, <4>3 DEF Stat, Half
      <4>5. Settled(k)
        BY DEF PermInv
      <4>6. QED
        BY <1>1, <2>2, <4>1, <4>4, <4>5 DEF Settled
    <3>3. QED BY <3>1, <3>2
  <2>6. QED
    BY <1>1, <2>1, <2>4, <2>5 DEF PermInv
<1>4. \A i \in Inode : Kept(i) \in SUBSET Bits /\ inode[i].owner \in Owner
  BY <1>1 DEF PermTypeOK, Inodes, Kept
<1>5. QED
  BY <1>2, <1>3, <1>4 DEF Meddle

\* The invariant of a change of permissions, for any selection and whatever others do.
THEOREM PermInvariance == PermSpec => []PermInv
<1>1. PermInv /\ PermNext => PermInv'
  <2>1. ASSUME PermInv, Die PROVE PermInv'
    <3>1. PermTypeOK' /\ Stage'
      BY <2>1 DEF Die, End, PermInv, PermTypeOK, Stage
    <3>2. QED
      BY <2>1, <3>1, Unmoved DEF Die, End
  <2>2. QED
    BY <2>1, OpenPerm, CheckPerm, ChownPerm, ChmodPerm, MeddlePerm DEF PermNext
<1>2. PermInv /\ UNCHANGED permVars => PermInv'
  <2> SUFFICES ASSUME PermInv, UNCHANGED permVars PROVE PermInv'
    OBVIOUS
  <2>1. PermTypeOK' /\ Stage'
    BY DEF permVars, PermInv, PermTypeOK, Stage
  <2>2. QED
    BY <2>1, Unmoved DEF permVars
<1>3. QED
  BY <1>1, <1>2, PermInitInv, PTL DEF PermSpec

\* However a request ends.
THEOREM BatchesArePrefixes == PermSpec => []BatchIsPrefix
<1>1. PermInv => BatchIsPrefix
  <2> SUFFICES ASSUME PermInv PROVE BatchIsPrefix
    OBVIOUS
  <2>1. /\ PermTypeOK /\ Stage /\ Meant /\ done \in 0..Len(held) /\ Len(held) \in Nat
        /\ DOMAIN held = 1..Len(held)
    BY HeldIs DEF PermInv, PermTypeOK, Stage
  <2>2. /\ result = "refused" \/ ~change.apply => done = 0
        /\ (result = "done" /\ change.apply => done = Len(change.paths))
    BY <2>1 DEF Stage
  <2>3. ASSUME NEW k \in DOMAIN held, held[k].id \notin touched, \A j \in 1..(k - 1) : held[j].id # held[k].id
        PROVE  LET i == held[k].id
                   due == IF k <= done THEN Asked(k) ELSE was[k]
               IN \/ Stat(i) = due
                  \/ /\ step \in {"chown", "chmod"} \/ result \in {"failed", "died"}
                     /\ \E j \in DOMAIN held : j = done + 1 /\ held[j].id = i
                     /\ Stat(i).owner = Asked(k).owner /\ Stat(i).bits \subseteq due.bits
    <3>1. Due(k) = IF k <= done THEN Asked(k) ELSE was[k]
      BY <2>1, <2>3 DEF Due
    <3>2. \/ Stat(held[k].id) = Due(k)
          \/ (step = "chmod" \/ result \in {"failed", "died"}) /\ Half(k)
      BY <2>3 DEF PermInv, Settled
    <3>3. Half(k) => (\E j \in DOMAIN held : j = done + 1 /\ held[j].id = held[k].id)
      BY <2>1 DEF Half, InHand
    <3>4. QED
      BY <3>1, <3>2, <3>3 DEF Half, Stat
  <2>4. QED
    BY <2>1, <2>2, <2>3 DEF BatchIsPrefix
<1>2. QED
  BY <1>1, PermInvariance, PTL

-----------------------------------------------------------------------------
(* The origin of a trashed item.  Only the trash folder of the volume can  *)
(* be believed, since any other is below a longer root, and in it there    *)
(* is one container of a name.                                             *)

\* A set of numbers that is not empty has a least one: it is the one whose initial
\* segment is minimal among finite sets.
LEMMA LeastNumber ==
  ASSUME NEW N \in SUBSET Nat, N # {} PROVE \E n \in N : \A m \in N : n <= m
<1> DEFINE T == {0..n : n \in N}
<1>1. T \subseteq FiniteSubsetsOf(Nat) /\ T # {}
  <2>1. ASSUME NEW n \in N PROVE 0..n \in FiniteSubsetsOf(Nat)
    <3>1. 0 \in Int /\ n \in Int /\ 0..n \in SUBSET Nat
      OBVIOUS
    <3>2. IsFiniteSet(0..n)
      BY <3>1, FS_Interval
    <3>3. QED
      BY <3>1, <3>2 DEF FiniteSubsetsOf
  <2>2. QED
    BY <2>1
<1>2. PICK I \in T : \A J \in T : <<J, I>> \notin StrictSubsetOrdering(Nat)
  <2> HIDE DEF T
  <2>1. QED
    BY <1>1, FS_StrictSubsetOrderingWellFounded, WFMin, Zenon
<1>3. PICK n \in N : I = 0..n
  BY <1>2
<1>4. ASSUME NEW m \in N, m < n PROVE FALSE
  <2>1. 0..m \in T /\ 0..m \subseteq 0..n /\ n \in 0..n /\ n \notin 0..m
    BY <1>4
  <2>2. 0..m \in SUBSET Nat /\ 0..n \in SUBSET Nat
    OBVIOUS
  <2>3. QED
    BY <1>2, <1>3, <2>1, <2>2 DEF StrictSubsetOrdering
<1>5. QED
  BY <1>4

\* What a path is made of.
AnyName == Name \cup {TrashDir} \cup Container

OriginTypeOK ==
  /\ mounted \in [Volume -> Point \cup {<<>>}]
  /\ trashed \subseteq [volume : Volume, container : Seq(AnyName), item : Name, note : Seq(AnyName),
                        from : Seq(AnyName)]

\* Two volumes are not mounted at one place.
Apart == \A u, v \in Volume : mounted[u] = mounted[v] /\ mounted[u] # <<>> => u = v

\* A container is in a trash folder, and there is one of a name.
Containers ==
  /\ \A t \in trashed :
       /\ Len(t.container) >= 2
       /\ t.container[Len(t.container) - 1] = TrashDir /\ t.container[Len(t.container)] \in Container
  /\ \A t, u \in trashed : t.volume = u.volume /\ t.container = u.container => t = u

\* What lies in a container in the trash folder of its volume is of that container.
Hosted ==
  \A t \in trashed : t.container[1] = TrashDir =>
    \E u \in trashed : u.volume = t.volume /\ u.container = <<TrashDir, t.container[2]>>

\* A note that was not forged tells the truth.
Honest == \A t \in trashed : t.from # <<>> => t.note = t.from

OriginInv == OriginTypeOK /\ Apart /\ Containers /\ Hosted /\ Honest

\* Names are of different kinds.
LEMMA NamesDiffer ==
  /\ TrashDir \notin Name /\ Name \cap Container = {} /\ TrashDir \notin Container
  /\ \A p \in Point : p \in Seq(Name) /\ p \in Seq(AnyName) /\ p # <<>>
  /\ \A p \in Seq(Name) : p \in Seq(AnyName)
<1>1. \A p \in Seq(Name) : p \in Seq(AnyName)
  BY DEF AnyName
<1>2. QED
  BY <1>1, OriginAssumption

\* Where volumes are mounted.
LEMMA MountedIs ==
  ASSUME OriginTypeOK, NEW v \in Volume
  PROVE  mounted[v] \in Seq(Name) /\ mounted[v] \in Seq(AnyName) /\ (mounted[v] # <<>> => mounted[v] \in Roots)
<1>1. mounted[v] \in Point \cup {<<>>}
  BY DEF OriginTypeOK
<1>2. <<>> \in Seq(Name) /\ <<>> \in Seq(AnyName)
  BY EmptySeq
<1>3. QED
  BY <1>1, <1>2, NamesDiffer DEF Roots

\* The storage that a path is on is at least as deep as any other root above the path.
LEMMA LongestRoot ==
  ASSUME OriginTypeOK, NEW path \in Seq(AnyName), trashBase(path) # <<>>, NEW q \in Roots, IsStrictPrefix(q, path)
  PROVE  Len(q) <= Len(trashBase(path))
<1> DEFINE above == {p \in Roots : IsStrictPrefix(p, path)}
<1>1. \A p \in Roots : p \in Seq(AnyName) /\ Len(p) \in Nat
  <2>1. ASSUME NEW p \in Roots PROVE p \in Seq(AnyName)
    BY <2>1, MountedIs DEF Roots
  <2>2. QED BY <2>1
<1>2. \A p \in above : Len(path) - Len(p) \in Nat
  <2>1. \A p \in above : Len(p) \in Nat /\ Len(p) <= Len(path)
    BY <1>1 DEF IsStrictPrefix, IsPrefix
  <2>2. Len(path) \in Nat
    OBVIOUS
  <2>3. QED BY <2>1, <2>2
<1>3. \E p \in above : \A r \in above : Len(r) <= Len(p)
  <2> DEFINE N == {Len(path) - Len(p) : p \in above}
  <2>1. N \in SUBSET Nat /\ N # {}
    BY <1>2
  <2>2. PICK n \in N : \A m \in N : n <= m
    <3> HIDE DEF N
    <3>1. QED BY <2>1, LeastNumber
  <2>3. PICK p \in above : n = Len(path) - Len(p)
    BY <2>2
  <2>4. ASSUME NEW r \in above PROVE Len(r) <= Len(p)
    <3>1. n <= Len(path) - Len(r)
      BY <2>2
    <3>2. Len(r) \in Nat /\ Len(p) \in Nat /\ Len(path) \in Nat
      BY <1>1
    <3>3. QED BY <2>3, <3>1, <3>2
  <2>5. QED BY <2>4
<1>4. trashBase(path) = CHOOSE p \in above : \A r \in above : Len(r) <= Len(p)
  BY DEF trashBase
<1>5. \A r \in above : Len(r) <= Len(trashBase(path))
  <2> HIDE DEF above
  <2>1. QED BY <1>3, <1>4
<1>6. QED
  BY <1>5

\* The first name that is the trash folder's.
LEMMA TrashIndexIs ==
  ASSUME NEW s \in Seq(AnyName), NEW i \in 1..Len(s), s[i] = TrashDir, \A j \in 1..(i - 1) : s[j] # TrashDir
  PROVE  TrashIndex(s) = i
<1> DEFINE found == {j \in DOMAIN s : s[j] = TrashDir}
<1>1. DOMAIN s = 1..Len(s) /\ Len(s) \in Nat
  OBVIOUS
<1>2. i \in found /\ \A j \in found : i <= j
  BY <1>1
<1>3. \A k \in found : (\A j \in found : k <= j) => k = i
  BY <1>1, <1>2
<1>4. Min(found) = i
  <2> HIDE DEF found
  <2>1. QED BY <1>2, <1>3 DEF Min
<1>5. QED
  BY <1>2, <1>4 DEF TrashIndex

\* Before the first name that is the trash folder's there is none.
LEMMA BeforeTrashIndex ==
  ASSUME NEW s \in Seq(AnyName), NEW i \in 1..Len(s), TrashIndex(s) = i
  PROVE  s[i] = TrashDir /\ \A j \in 1..(i - 1) : s[j] # TrashDir
<1> DEFINE found == {j \in DOMAIN s : s[j] = TrashDir}
<1>1. DOMAIN s = 1..Len(s) /\ Len(s) \in Nat
  OBVIOUS
<1>2. found # {} /\ found \in SUBSET Nat /\ Min(found) = i
  BY <1>1 DEF TrashIndex
<1>3. \E n \in found : \A m \in found : n <= m
  BY <1>2, LeastNumber
<1>4. i \in found /\ \A m \in found : i <= m
  <2> HIDE DEF found
  <2>1. QED BY <1>2, <1>3 DEF Min
<1>5. QED
  BY <1>1, <1>4

\* A path into a trash leads to what lies there.
LEMMA OneContainer ==
  ASSUME OriginInv, NEW t \in trashed, Reached(t)
  PROVE  TrashOriginal(ContainerPath(t)) = t.note
<1> DEFINE at == {u \in trashed : Reached(u) /\ ContainerPath(u) = ContainerPath(t)}
<1>1. ASSUME NEW u \in at PROVE u = t
  <2>1. mounted[u.volume] = mounted[t.volume] /\ mounted[t.volume] # <<>>
    BY <1>1 DEF Reached
  <2>2. /\ u.volume \in Volume /\ t.volume \in Volume
        /\ u.container \in Seq(AnyName) /\ t.container \in Seq(AnyName)
    BY DEF OriginInv, OriginTypeOK
  <2>3. u.volume = t.volume
    BY <2>1, <2>2 DEF OriginInv, Apart
  <2>4. mounted[t.volume] \in Seq(AnyName)
    BY <2>2, MountedIs DEF OriginInv
  <2>5. mounted[t.volume] \o u.container = mounted[t.volume] \o t.container
    BY <1>1, <2>1 DEF ContainerPath
  <2>6. u.container = t.container
    BY <2>2, <2>4, <2>5, ConcatSimplifications
  <2>7. QED
    BY <2>3, <2>6 DEF OriginInv, Containers
<1>2. t \in at
  OBVIOUS
<1>3. at = {t}
  BY <1>1, <1>2
<1>4. QED
  BY <1>3 DEF TrashOriginal

\* Parts of sequences are equal if their elements are.
LEMMA SameParts ==
  ASSUME NEW s \in Seq(AnyName), NEW t \in Seq(AnyName), NEW a \in Nat \ {0}, NEW b \in Nat, NEW d \in Nat,
         b <= Len(s), b + d <= Len(t), \A j \in a..b : s[j] = t[j + d]
  PROVE  SubSeq(s, a, b) = SubSeq(t, a + d, b + d)
<1>1. (\A i \in a..b : s[i] \in AnyName) /\ (\A i \in (a + d)..(b + d) : t[i] \in AnyName)
  OBVIOUS
<1>2. a \in Int /\ b \in Int /\ a + d \in Int /\ b + d \in Int
  OBVIOUS
<1>3. /\ SubSeq(s, a, b) \in Seq(AnyName) /\ Len(SubSeq(s, a, b)) = IF a <= b THEN b - a + 1 ELSE 0
      /\ \A i \in 1..(b - a + 1) : SubSeq(s, a, b)[i] = s[a + i - 1]
  BY <1>1, <1>2, SubSeqProperties
<1>4. /\ SubSeq(t, a + d, b + d) \in Seq(AnyName)
      /\ Len(SubSeq(t, a + d, b + d)) = IF a + d <= b + d THEN (b + d) - (a + d) + 1 ELSE 0
      /\ \A i \in 1..((b + d) - (a + d) + 1) : SubSeq(t, a + d, b + d)[i] = t[(a + d) + i - 1]
  BY <1>1, <1>2, SubSeqProperties
<1>5. Len(SubSeq(s, a, b)) = Len(SubSeq(t, a + d, b + d))
  BY <1>2, <1>3, <1>4
<1>6. ASSUME NEW i \in 1..Len(SubSeq(s, a, b)) PROVE SubSeq(s, a, b)[i] = SubSeq(t, a + d, b + d)[i]
  <2>1. i \in 1..(b - a + 1) /\ i \in 1..((b + d) - (a + d) + 1) /\ a + i - 1 \in a..b
    BY <1>3
  <2>2. s[a + i - 1] = t[(a + i - 1) + d] /\ (a + i - 1) + d = (a + d) + i - 1
    BY <2>1
  <2>3. QED
    BY <1>3, <1>4, <2>1, <2>2
<1>7. QED
  BY <1>3, <1>4, <1>5, <1>6, SeqEqual

\* The same of their beginnings.
LEMMA SameBeginnings ==
  ASSUME NEW s \in Seq(AnyName), NEW t \in Seq(AnyName), NEW b \in Nat, b <= Len(s), b <= Len(t),
         \A j \in 1..b : s[j] = t[j]
  PROVE  SubSeq(s, 1, b) = SubSeq(t, 1, b)
<1>1. b + 0 = b /\ 1 + 0 = 1 /\ 0 \in Nat /\ 1 \in Nat \ {0} /\ b + 0 <= Len(t)
  OBVIOUS
<1>2. ASSUME NEW j \in 1..b PROVE s[j] = t[j + 0]
  <2>1. j + 0 = j
    OBVIOUS
  <2>2. QED BY <2>1, Zenon
<1>3. SubSeq(s, 1, b) = SubSeq(t, 1 + 0, b + 0)
  BY <1>1, <1>2, SameParts
<1>4. QED
  BY <1>1, <1>3, Zenon

\* The storage, or the folder in it, that a trash folder is in, and the trash folder.
BaseOf(t)  == SubSeq(ContainerPath(t), 1, Len(ContainerPath(t)) - 2)
TrashOf(t) == SubSeq(ContainerPath(t), 1, Len(ContainerPath(t)) - 1)

\* When the note of a container is believed.
Believed(t) ==
  /\ BaseOf(t) \in Roots /\ t.note # <<>> /\ Last(t.note) = t.item
  /\ ~IsPrefix(TrashOf(t), t.note) /\ SameStorage(t.note, BaseOf(t))

\* The elements of two sequences put together.
LEMMA Joined ==
  ASSUME NEW a \in Seq(AnyName), NEW b \in Seq(AnyName)
  PROVE  /\ a \o b \in Seq(AnyName) /\ Len(a \o b) = Len(a) + Len(b)
         /\ \A j \in 1..Len(a) : (a \o b)[j] = a[j]
         /\ \A j \in 1..Len(b) : (a \o b)[Len(a) + j] = b[j]
<1>1. Len(a) \in Nat /\ Len(b) \in Nat
  OBVIOUS
<1>2. /\ a \o b \in Seq(AnyName) /\ Len(a \o b) = Len(a) + Len(b)
      /\ \A j \in 1..(Len(a) + Len(b)) : (a \o b)[j] = IF j <= Len(a) THEN a[j] ELSE b[j - Len(a)]
  BY ConcatProperties
<1>3. \A j \in 1..Len(a) : (a \o b)[j] = a[j]
  BY <1>1, <1>2
<1>4. ASSUME NEW j \in 1..Len(b) PROVE (a \o b)[Len(a) + j] = b[j]
  <2>1. PICK n \in Nat : n = Len(a) + j
    BY <1>1
  <2>2. n \in 1..(Len(a) + Len(b)) /\ ~(n <= Len(a)) /\ n - Len(a) = j
    BY <1>1, <2>1
  <2>3. QED BY <1>2, <2>1, <2>2
<1>5. QED
  BY <1>2, <1>3, <1>4

\* Where a container is.
LEMMA ContainerIs ==
  ASSUME OriginInv, NEW t \in trashed
  PROVE  /\ t.volume \in Volume /\ t.container \in Seq(AnyName) /\ t.item \in Name /\ t.note \in Seq(AnyName)
         /\ t.from \in Seq(AnyName) /\ mounted[t.volume] \in Seq(AnyName) /\ mounted[t.volume] \in Seq(Name)
         /\ ContainerPath(t) \in Seq(AnyName)
         /\ Len(ContainerPath(t)) = Len(mounted[t.volume]) + Len(t.container)
         /\ \A j \in 1..Len(mounted[t.volume]) : ContainerPath(t)[j] = mounted[t.volume][j]
         /\ \A j \in 1..Len(t.container) : ContainerPath(t)[Len(mounted[t.volume]) + j] = t.container[j]
         /\ Len(t.container) \in Nat /\ Len(t.container) >= 2 /\ Len(mounted[t.volume]) \in Nat
         /\ t.container[Len(t.container) - 1] = TrashDir /\ t.container[Len(t.container)] \in Container
<1>1. /\ t.volume \in Volume /\ t.container \in Seq(AnyName) /\ t.item \in Name /\ t.note \in Seq(AnyName)
      /\ t.from \in Seq(AnyName)
  BY DEF OriginInv, OriginTypeOK
<1>2. mounted[t.volume] \in Seq(AnyName) /\ mounted[t.volume] \in Seq(Name)
  BY <1>1, MountedIs DEF OriginInv
<1>3. PICK m \in Seq(AnyName), c \in Seq(AnyName) : m = mounted[t.volume] /\ c = t.container
  BY <1>1, <1>2
<1>4. /\ ContainerPath(t) \in Seq(AnyName) /\ Len(ContainerPath(t)) = Len(m) + Len(c)
      /\ \A j \in 1..Len(m) : ContainerPath(t)[j] = m[j]
      /\ \A j \in 1..Len(c) : ContainerPath(t)[Len(m) + j] = c[j]
  <2>1. ContainerPath(t) = m \o c
    BY <1>3 DEF ContainerPath
  <2>2. /\ m \o c \in Seq(AnyName) /\ Len(m \o c) = Len(m) + Len(c)
        /\ \A j \in 1..Len(m) : (m \o c)[j] = m[j]
        /\ \A j \in 1..Len(c) : (m \o c)[Len(m) + j] = c[j]
    BY Joined
  <2>3. QED BY <2>1, <2>2, Zenon
<1>5. Len(c) \in Nat /\ Len(m) \in Nat
  OBVIOUS
<1>6. /\ Len(t.container) >= 2
      /\ t.container[Len(t.container) - 1] = TrashDir /\ t.container[Len(t.container)] \in Container
  BY DEF OriginInv, Containers
<1>7. QED
  BY <1>1, <1>2, <1>3, <1>4, <1>5, <1>6

\* What is restored from below an item of a container goes below the place of the note.
LEMMA OriginOf ==
  ASSUME OriginInv, NEW t \in trashed, Reached(t), TrashIndex(t.container) = Len(t.container) - 1,
         NEW s \in Seq(AnyName)
  PROVE  trashOrigin((ContainerPath(t) \o <<t.item>>) \o s) = IF Believed(t) THEN t.note \o s ELSE <<>>
<1>1. PICK path : path = (ContainerPath(t) \o <<t.item>>) \o s
  OBVIOUS
<1>2. PICK C \in Seq(AnyName) : C = ContainerPath(t)
  BY ContainerIs
<1>3. PICK L \in Nat : L = Len(C)
  OBVIOUS
<1>4. /\ path \in Seq(AnyName) /\ Len(path) = L + 1 + Len(s) /\ Len(s) \in Nat
      /\ \A j \in 1..L : path[j] = C[j]
      /\ path[L + 1] = t.item
      /\ \A j \in 1..Len(s) : path[L + 1 + j] = s[j]
  <2>1. t.item \in AnyName
    BY ContainerIs DEF AnyName
  <2>2. <<t.item>> \in Seq(AnyName) /\ Len(<<t.item>>) = 1 /\ <<t.item>>[1] = t.item
    BY <2>1
  <2>3. PICK d \in Seq(AnyName) : d = C \o <<t.item>>
    BY <2>2, ConcatProperties
  <2>4. Len(d) = L + 1 /\ \A j \in 1..(L + 1) : d[j] = IF j <= L THEN C[j] ELSE t.item
    <3>1. /\ Len(d) = Len(C) + Len(<<t.item>>)
          /\ \A j \in 1..(Len(C) + Len(<<t.item>>)) : d[j] = IF j <= Len(C) THEN C[j] ELSE <<t.item>>[j - Len(C)]
      BY <2>2, <2>3, ConcatProperties
    <3>2. \A j \in 1..(L + 1) : ~(j <= L) => j - L = 1
      OBVIOUS
    <3>3. QED BY <1>3, <2>2, <3>1, <3>2
  <2>5. /\ path \in Seq(AnyName) /\ Len(path) = Len(d) + Len(s)
        /\ \A j \in 1..(Len(d) + Len(s)) : path[j] = IF j <= Len(d) THEN d[j] ELSE s[j - Len(d)]
    BY <1>1, <1>2, <2>3, ConcatProperties
  <2>6. Len(s) \in Nat
    OBVIOUS
  <2>7. \A j \in 1..(L + 1) : path[j] = d[j]
    BY <2>4, <2>5, <2>6
  <2>8. ASSUME NEW j \in 1..Len(s) PROVE path[L + 1 + j] = s[j]
    <3>1. PICK n \in Nat : n = L + 1 + j
      BY <2>6
    <3>2. n \in 1..(Len(d) + Len(s)) /\ ~(n <= Len(d)) /\ n - Len(d) = j
      BY <2>4, <2>6, <3>1
    <3>3. QED BY <2>5, <3>1, <3>2
  <2>9. QED
    BY <2>4, <2>5, <2>6, <2>7, <2>8
<1>5. L >= 2 /\ C[L - 1] = TrashDir /\ C[L] \in Container /\ \A j \in 1..(L - 2) : C[j] # TrashDir
  <2>0. PICK m \in Seq(Name), c \in Seq(AnyName) : m = mounted[t.volume] /\ c = t.container
    BY ContainerIs
  <2>1. /\ Len(c) >= 2 /\ L = Len(m) + Len(c)
        /\ \A j \in 1..Len(m) : C[j] = m[j]
        /\ \A j \in 1..Len(c) : C[Len(m) + j] = c[j]
        /\ c[Len(c) - 1] = TrashDir /\ c[Len(c)] \in Container
    BY <1>2, <1>3, <2>0, ContainerIs
  <2>2. Len(c) \in Nat /\ Len(m) \in Nat
    OBVIOUS
  <2>3. \A j \in 1..((Len(c) - 1) - 1) : c[j] # TrashDir
    <3>1. Len(c) - 1 \in 1..Len(c)
      BY <2>1, <2>2
    <3>2. QED BY <2>0, <3>1, BeforeTrashIndex
  <2>4. \A j \in 1..Len(m) : C[j] # TrashDir
    <3>1. \A j \in 1..Len(m) : m[j] \in Name
      OBVIOUS
    <3>2. QED BY <2>1, <3>1, NamesDiffer
  <2>5. ASSUME NEW j \in 1..(L - 2), j > Len(m) PROVE C[j] # TrashDir
    <3>0. PICK a \in Nat : a = Len(m)
      BY <2>2
    <3>1. PICK n \in Nat : n = j - a
      BY <2>5, <3>0
    <3>2. n \in 1..((Len(c) - 1) - 1) /\ n \in 1..Len(c) /\ j = Len(m) + n
      BY <2>1, <2>2, <2>5, <3>0, <3>1
    <3>3. QED BY <2>1, <2>3, <3>2
  <2>6. C[L - 1] = TrashDir /\ C[L] \in Container
    <3>1. L - 1 = Len(m) + (Len(c) - 1) /\ Len(c) - 1 \in 1..Len(c) /\ Len(c) \in 1..Len(c)
      BY <2>1, <2>2
    <3>2. QED BY <2>1, <3>1
  <2>7. \A j \in 1..(L - 2) : C[j] # TrashDir
    BY <2>1, <2>2, <2>4, <2>5
  <2>8. QED
    BY <2>1, <2>2, <2>6, <2>7
<1>6. TrashIndex(path) = L - 1
  <2>3. L - 1 \in 1..Len(path) /\ L - 1 \in 1..L /\ (L - 1) - 1 = L - 2 /\ \A j \in 1..(L - 2) : j \in 1..L
    BY <1>4, <1>5
  <2>1. L - 1 \in 1..Len(path) /\ path[L - 1] = TrashDir /\ \A j \in 1..((L - 1) - 1) : path[j] # TrashDir
    BY <1>4, <1>5, <2>3
  <2>2. QED BY <1>4, <2>1, TrashIndexIs
<1>7. SubSeq(path, 1, L - 2) = BaseOf(t) /\ SubSeq(path, 1, L - 1) = TrashOf(t)
  <2>1. ASSUME NEW b \in {L - 2, L - 1} PROVE SubSeq(path, 1, b) = SubSeq(C, 1, b)
    <3>1. b \in Nat /\ b <= Len(path) /\ b <= Len(C) /\ \A j \in 1..b : path[j] = C[j]
      BY <1>3, <1>4, <1>5
    <3>2. QED BY <1>4, <3>1, SameBeginnings
  <2>2. QED
    BY <1>2, <1>3, <2>1 DEF BaseOf, TrashOf
<1>8. PICK parts : parts = SubSeq(path, L, Len(path))
  OBVIOUS
<1>9. /\ parts \in Seq(AnyName) /\ Len(parts) = 2 + Len(s) /\ parts[1] = C[L] /\ parts[2] = t.item
      /\ \A j \in 1..Len(s) : parts[j + 2] = s[j]
  <2>1. L \in Int /\ Len(path) \in Int /\ \A j \in L..Len(path) : path[j] \in AnyName
    BY <1>4, <1>5
  <2>2. /\ parts \in Seq(AnyName) /\ Len(parts) = IF L <= Len(path) THEN Len(path) - L + 1 ELSE 0
        /\ \A j \in 1..(Len(path) - L + 1) : parts[j] = path[L + j - 1]
    BY <1>8, <2>1, SubSeqProperties
  <2>3. Len(path) - L + 1 = 2 + Len(s) /\ L <= Len(path) /\ Len(s) \in Nat
    BY <1>4
  <2>4. parts[1] = path[L] /\ parts[2] = path[L + 1]
    <3>1. 1 \in 1..(Len(path) - L + 1) /\ 2 \in 1..(Len(path) - L + 1) /\ L + 1 - 1 = L /\ L + 2 - 1 = L + 1
      BY <2>3
    <3>2. QED BY <2>2, <3>1
  <2>5. ASSUME NEW j \in 1..Len(s) PROVE parts[j + 2] = s[j]
    <3>1. j + 2 \in 1..(Len(path) - L + 1) /\ L + (j + 2) - 1 = L + 1 + j
      BY <2>3
    <3>2. parts[j + 2] = path[L + (j + 2) - 1]
      BY <2>2, <3>1
    <3>3. QED BY <1>4, <3>1, <3>2
  <2>6. QED
    BY <1>4, <1>5, <2>2, <2>3, <2>4, <2>5
<1>10. SubSeq(parts, 3, Len(parts)) = s
  <2>1. PICK n \in Nat : n = Len(s)
    OBVIOUS
  <2>2. SubSeq(s, 1, n) = SubSeq(parts, 1 + 2, n + 2)
    <3>1. /\ 1 \in Nat \ {0} /\ 2 \in Nat /\ n <= Len(s) /\ n + 2 <= Len(parts)
          /\ \A j \in 1..n : s[j] = parts[j + 2]
      BY <1>9, <2>1
    <3>2. QED BY <1>9, <3>1, SameParts
  <2>3. SubSeq(s, 1, n) = s
    <3>1. 1 \in Int /\ n \in Int /\ \A j \in 1..n : s[j] \in AnyName
      BY <2>1
    <3>2. /\ SubSeq(s, 1, n) \in Seq(AnyName) /\ Len(SubSeq(s, 1, n)) = IF 1 <= n THEN n - 1 + 1 ELSE 0
          /\ \A j \in 1..(n - 1 + 1) : SubSeq(s, 1, n)[j] = s[1 + j - 1]
      BY <3>1, SubSeqProperties
    <3>3. Len(SubSeq(s, 1, n)) = Len(s) /\ \A j \in 1..Len(SubSeq(s, 1, n)) : SubSeq(s, 1, n)[j] = s[j]
      BY <2>1, <3>2
    <3>4. QED BY <3>2, <3>3, SeqEqual
  <2>4. 1 + 2 = 3 /\ n + 2 = Len(parts)
    BY <1>9, <2>1
  <2>5. QED BY <2>2, <2>3, <2>4
<1>11. Append(TrashOf(t), parts[1]) = C
  <2>1. PICK q : q = SubSeq(C, 1, L - 1)
    OBVIOUS
  <2>2. 1 \in Int /\ L - 1 \in Int /\ \A j \in 1..(L - 1) : C[j] \in AnyName
    BY <1>3
  <2>3. /\ q \in Seq(AnyName) /\ Len(q) = IF 1 <= L - 1 THEN (L - 1) - 1 + 1 ELSE 0
        /\ \A j \in 1..((L - 1) - 1 + 1) : q[j] = C[1 + j - 1]
    BY <2>1, <2>2, SubSeqProperties
  <2>4. Len(q) = L - 1 /\ \A j \in 1..(L - 1) : q[j] = C[j]
    BY <1>5, <2>3
  <2>5. C[L] \in AnyName
    BY <1>3, <1>5
  <2>6. /\ Append(q, C[L]) \in Seq(AnyName) /\ Len(Append(q, C[L])) = L
        /\ \A j \in 1..(L - 1) : Append(q, C[L])[j] = C[j]
        /\ Append(q, C[L])[L] = C[L]
    <3>1. /\ Append(q, C[L]) \in Seq(AnyName) /\ Len(Append(q, C[L])) = Len(q) + 1
          /\ \A j \in 1..Len(q) : Append(q, C[L])[j] = q[j]
          /\ Append(q, C[L])[Len(q) + 1] = C[L]
      BY <2>3, <2>5, AppendProperties
    <3>2. Len(q) + 1 = L
      BY <1>5, <2>4
    <3>3. QED BY <2>4, <3>1, <3>2
  <2>7. \A j \in 1..L : Append(q, C[L])[j] = C[j]
    BY <2>6
  <2>8. Append(q, C[L]) = C
    BY <1>3, <2>6, <2>7, SeqEqual
  <2>9. QED
    BY <1>2, <1>3, <1>9, <2>1, <2>8 DEF TrashOf
<1>12. TrashOriginal(Append(TrashOf(t), parts[1])) = t.note
  BY <1>2, <1>11, OneContainer
<1>13. L - 1 > 0 /\ (L - 1) - 1 = L - 2 /\ (L - 1) + 1 = L /\ Len(parts) >= 2
  BY <1>5, <1>9
<1>14. parts[1] \in Container /\ parts[2] = t.item
  BY <1>5, <1>9
<1>15. trashOrigin(path) = IF Believed(t) THEN t.note \o s ELSE <<>>
  BY <1>6, <1>7, <1>8, <1>10, <1>12, <1>13, <1>14, Zenon DEF trashOrigin, Believed
<1>16. QED
  BY <1>1, <1>15

\* If the note of an outermost container is believed, the trash is the one of its volume.
LEMMA OutermostTrash ==
  ASSUME OriginInv, NEW t \in trashed, Reached(t), Believed(t)
  PROVE  BaseOf(t) = mounted[t.volume] /\ TrashOf(t) = mounted[t.volume] \o <<TrashDir>>
<1>1. PICK m \in Seq(AnyName), c \in Seq(AnyName), C \in Seq(AnyName) :
        m = mounted[t.volume] /\ c = t.container /\ C = ContainerPath(t)
  BY ContainerIs
<1>2. /\ Len(C) = Len(m) + Len(c) /\ Len(c) >= 2 /\ c[Len(c) - 1] = TrashDir
      /\ \A j \in 1..Len(m) : C[j] = m[j]
      /\ \A j \in 1..Len(c) : C[Len(m) + j] = c[j]
  BY <1>1, ContainerIs
<1>3. PICK M \in Nat, K \in Nat : M = Len(m) /\ K = Len(c)
  OBVIOUS
<1>4. PICK base \in Seq(AnyName) : base = BaseOf(t) /\ Len(base) = M + K - 2 /\ base = SubSeq(C, 1, M + K - 2)
  <2>1. 1 \in Int /\ M + K - 2 \in Int /\ \A j \in 1..(M + K - 2) : C[j] \in AnyName
    BY <1>2, <1>3
  <2>2. /\ SubSeq(C, 1, M + K - 2) \in Seq(AnyName)
        /\ Len(SubSeq(C, 1, M + K - 2)) = IF 1 <= M + K - 2 THEN (M + K - 2) - 1 + 1 ELSE 0
    BY <2>1, SubSeqProperties
  <2>3. Len(SubSeq(C, 1, M + K - 2)) = M + K - 2
    BY <1>2, <1>3, <2>2
  <2>4. BaseOf(t) = SubSeq(C, 1, M + K - 2)
    BY <1>1, <1>2, <1>3 DEF BaseOf
  <2>5. QED BY <2>2, <2>3, <2>4
<1>5. IsStrictPrefix(base, C)
  <2>1. base # C
    BY <1>2, <1>3, <1>4
  <2>2. SubSeq(base, 1, Len(base)) = base
    BY SubSeqFull
  <2>3. Len(base) <= Len(C)
    BY <1>2, <1>3, <1>4
  <2>4. QED
    BY <1>4, <2>1, <2>2, <2>3 DEF IsStrictPrefix, IsPrefix
<1>6. K = 2
  <2>1. trashBase(C) = m /\ m # <<>>
    BY <1>1 DEF Reached
  <2>2. base \in Roots
    BY <1>4 DEF Believed
  <2>3. Len(base) <= M
    BY <1>3, <1>5, <2>1, <2>2, LongestRoot DEF OriginInv
  <2>4. QED
    BY <1>2, <1>3, <1>4, <2>3
<1>7. SubSeq(C, 1, M) = m
  <2>1. SubSeq(m, 1, M) = SubSeq(C, 1, M)
    <3>1. M <= Len(m) /\ M <= Len(C) /\ \A j \in 1..M : m[j] = C[j]
      BY <1>2, <1>3, <1>6
    <3>2. QED BY <3>1, SameBeginnings
  <2>2. QED
    BY <1>3, <2>1, SubSeqFull
<1>8. BaseOf(t) = m
  <2>1. M + K - 2 = M
    BY <1>6
  <2>2. QED BY <1>4, <1>7, <2>1
<1>9. TrashOf(t) = m \o <<TrashDir>>
  <2>1. /\ TrashDir \in AnyName /\ <<TrashDir>> \in Seq(AnyName)
        /\ Len(<<TrashDir>>) = 1 /\ <<TrashDir>>[1] = TrashDir
    BY DEF AnyName
  <2>2. PICK d \in Seq(AnyName) : d = m \o <<TrashDir>>
    BY <2>1, ConcatProperties
  <2>3. Len(d) = M + 1 /\ (\A j \in 1..Len(m) : d[j] = m[j]) /\ d[Len(m) + 1] = TrashDir
    <3>1. 1 \in 1..Len(<<TrashDir>>)
      BY <2>1
    <3>2. QED BY <1>3, <2>1, <2>2, <3>1, Joined
  <2>4. \A j \in 1..(M + 1) : d[j] = C[j]
    <3>1. C[Len(m) + 1] = TrashDir
      <4>1. Len(c) - 1 = 1 /\ 1 \in 1..Len(c)
        BY <1>3, <1>6
      <4>2. C[Len(m) + 1] = c[1] /\ c[1] = TrashDir
        BY <1>2, <4>1
      <4>3. QED BY <4>2
    <3>2. \A j \in 1..M : d[j] = C[j]
      BY <1>2, <1>3, <2>3
    <3>3. d[M + 1] = C[M + 1]
      BY <1>3, <2>3, <3>1
    <3>4. \A j \in 1..(M + 1) : j \in 1..M \/ j = M + 1
      OBVIOUS
    <3>5. QED BY <3>2, <3>3, <3>4
  <2>5. SubSeq(d, 1, M + 1) = SubSeq(C, 1, M + 1)
    <3>1. M + 1 \in Nat /\ M + 1 <= Len(d) /\ M + 1 <= Len(C)
      BY <1>2, <1>3, <1>6, <2>3
    <3>2. QED BY <2>4, <3>1, SameBeginnings
  <2>6. SubSeq(d, 1, M + 1) = d
    BY <2>3, SubSeqFull
  <2>7. TrashOf(t) = SubSeq(C, 1, M + 1)
    <3>1. Len(C) - 1 = M + 1
      BY <1>2, <1>3, <1>6
    <3>2. QED BY <1>1, <3>1 DEF TrashOf
  <2>8. QED
    BY <2>2, <2>5, <2>6, <2>7
<1>10. QED
  BY <1>1, <1>8, <1>9

\* A note that is believed is of the trash of its own volume, and so is what is below its item.
LEMMA OriginInvImpliesTrue == OriginInv => OriginIsTrue
<1> SUFFICES ASSUME OriginInv, NEW t \in trashed,
                    Reached(t), TrashIndex(t.container) = Len(t.container) - 1,
                    trashOrigin(ContainerPath(t) \o <<t.item>>) # <<>>
             PROVE  LET origin == trashOrigin(ContainerPath(t) \o <<t.item>>) IN
                      /\ trashBase(origin) = mounted[t.volume] /\ Last(origin) = t.item
                      /\ ~IsPrefix(mounted[t.volume] \o <<TrashDir>>, origin)
                      /\ t.from # <<>> => origin = t.from
                      /\ \A n \in Name :
                           trashOrigin(Append(ContainerPath(t) \o <<t.item>>, n)) = Append(origin, n)
  BY DEF OriginIsTrue
<1>1. PICK item \in Seq(AnyName) : item = ContainerPath(t) \o <<t.item>>
  <2>1. t.item \in AnyName /\ ContainerPath(t) \in Seq(AnyName)
    BY ContainerIs DEF AnyName
  <2>2. <<t.item>> \in Seq(AnyName)
    BY <2>1
  <2>3. QED BY <2>1, <2>2, ConcatProperties
<1>2. t.note \in Seq(AnyName)
  BY ContainerIs
<1>3. trashOrigin(item) = IF Believed(t) THEN t.note ELSE <<>>
  <2>1. <<>> \in Seq(AnyName)
    BY EmptySeq
  <2>2. trashOrigin(item \o <<>>) = IF Believed(t) THEN t.note \o <<>> ELSE <<>>
    BY <1>1, <2>1, OriginOf
  <2>3. item \o <<>> = item /\ t.note \o <<>> = t.note
    BY <1>1, <1>2, ConcatEmptySeq
  <2>4. QED BY <2>2, <2>3
<1>4. Believed(t) /\ trashOrigin(item) = t.note
  BY <1>1, <1>3
<1>5. BaseOf(t) = mounted[t.volume] /\ TrashOf(t) = mounted[t.volume] \o <<TrashDir>>
  BY <1>4, OutermostTrash
<1>6. trashBase(t.note) = mounted[t.volume] /\ Last(t.note) = t.item
  BY <1>4, <1>5 DEF Believed, SameStorage
<1>7. ~IsPrefix(mounted[t.volume] \o <<TrashDir>>, t.note)
  BY <1>4, <1>5 DEF Believed
<1>8. t.from # <<>> => t.note = t.from
  BY DEF OriginInv, Honest
<1>9. ASSUME NEW n \in Name PROVE trashOrigin(Append(item, n)) = Append(t.note, n)
  <2>1. n \in AnyName
    BY DEF AnyName
  <2>2. <<n>> \in Seq(AnyName)
    BY <2>1
  <2>3. trashOrigin(item \o <<n>>) = t.note \o <<n>>
    BY <1>1, <1>4, <2>2, OriginOf
  <2>4. item \o <<n>> = Append(item, n) /\ t.note \o <<n>> = Append(t.note, n)
    BY <1>1, <1>2, <2>1, AppendIsConcat
  <2>5. QED BY <2>3, <2>4
<1>10. QED
  BY <1>1, <1>4, <1>6, <1>7, <1>8, <1>9

\* What is in a folder that is trashed, by its container before and after.
Shifted(place, c, k) == <<TrashDir, c>> \o <<Last(place)>> \o SubSeq(k, Len(place) + 1, Len(k))

\* A place of the user's.
LEMMA PlaceIs ==
  ASSUME NEW place \in Place
  PROVE  /\ place \in Seq(Name) /\ place \in Seq(AnyName) /\ Len(place) \in Nat /\ Len(place) >= 1
         /\ Last(place) \in Name
<1>1. CASE \E n \in Name : place = <<n>>
  <2>1. PICK n \in Name : place = <<n>>
    BY <1>1
  <2>2. place \in Seq(Name) /\ Len(place) = 1 /\ Last(place) = n
    BY <2>1 DEF Last
  <2>3. QED BY <2>2, NamesDiffer
<1>2. CASE \E m, n \in Name : place = <<m, n>>
  <2>1. PICK m \in Name, n \in Name : place = <<m, n>>
    BY <1>2
  <2>2. place \in Seq(Name) /\ Len(place) = 2 /\ Last(place) = n
    BY <2>1 DEF Last
  <2>3. QED BY <2>2, NamesDiffer
<1>3. QED
  BY <1>1, <1>2 DEF Place

\* A container in a folder that is trashed is below that folder, so it keeps its last two names.
LEMMA ShiftedIs ==
  ASSUME NEW place \in Place, NEW c \in Container, NEW k \in Seq(AnyName), IsPrefix(place, k), Len(k) >= 2,
         k[Len(k) - 1] = TrashDir, k[Len(k)] \in Container
  PROVE  /\ Shifted(place, c, k) \in Seq(AnyName)
         /\ Len(place) <= Len(k) - 2 /\ Len(Shifted(place, c, k)) = Len(k) - Len(place) + 3
         /\ Shifted(place, c, k)[1] = TrashDir /\ Shifted(place, c, k)[2] = c
         /\ \A j \in 1..Len(place) : k[j] = place[j]
         /\ \A j \in (Len(place) + 1)..Len(k) : Shifted(place, c, k)[j - Len(place) + 3] = k[j]
<1>1. PICK P \in Nat, K \in Nat : P = Len(place) /\ K = Len(k) /\ P >= 1 /\ K >= 2
  BY PlaceIs
<1>2. P <= K /\ \A j \in 1..P : k[j] = place[j]
  <2>1. P <= K /\ SubSeq(place, 1, P) = SubSeq(k, 1, P)
    BY <1>1 DEF IsPrefix
  <2>2. \A j \in 1..P : place[j] \in AnyName /\ k[j] \in AnyName
    BY <1>1, <2>1, PlaceIs
  <2>3. /\ \A j \in 1..(P - 1 + 1) : SubSeq(place, 1, P)[j] = place[1 + j - 1]
        /\ \A j \in 1..(P - 1 + 1) : SubSeq(k, 1, P)[j] = k[1 + j - 1]
    BY <2>2, SubSeqProperties
  <2>4. \A j \in 1..P : j \in 1..(P - 1 + 1) /\ 1 + j - 1 = j
    OBVIOUS
  <2>5. QED BY <2>1, <2>3, <2>4
<1>3. P <= K - 2
  <2>1. \A j \in 1..P : k[j] \in Name
    <3>1. \A j \in 1..P : place[j] \in Name
      BY <1>1, PlaceIs
    <3>2. QED BY <1>2, <3>1
  <2>2. k[K - 1] \notin Name /\ k[K] \notin Name
    BY <1>1, NamesDiffer
  <2>3. ~(K - 1 \in 1..P) /\ ~(K \in 1..P)
    BY <2>1, <2>2
  <2>4. QED BY <1>1, <1>2, <2>3
<1>4. PICK r \in Seq(AnyName) : r = SubSeq(k, P + 1, K) /\ Len(r) = K - P /\ \A j \in 1..(K - P) : r[j] = k[P + j]
  <2>1. P + 1 \in Int /\ K \in Int /\ \A j \in (P + 1)..K : k[j] \in AnyName
    BY <1>1
  <2>2. /\ SubSeq(k, P + 1, K) \in Seq(AnyName)
        /\ Len(SubSeq(k, P + 1, K)) = IF P + 1 <= K THEN K - (P + 1) + 1 ELSE 0
        /\ \A j \in 1..(K - (P + 1) + 1) : SubSeq(k, P + 1, K)[j] = k[(P + 1) + j - 1]
    BY <2>1, SubSeqProperties
  <2>3. K - (P + 1) + 1 = K - P
    OBVIOUS
  <2>4. P + 1 <= K
    BY <1>3
  <2>5. PICK r : r = SubSeq(k, P + 1, K)
    OBVIOUS
  <2>6. r \in Seq(AnyName) /\ Len(r) = K - P
    BY <2>2, <2>3, <2>4, <2>5
  <2>7. \A j \in 1..(K - P) : r[j] = k[P + j]
    <3>1. \A j \in 1..(K - P) : (P + 1) + j - 1 = P + j
      OBVIOUS
    <3>2. \A j \in 1..(K - P) : r[j] = k[(P + 1) + j - 1]
      BY <2>2, <2>3, <2>5
    <3>3. QED BY <3>1, <3>2
  <2>8. QED BY <2>5, <2>6, <2>7
<1>5. PICK h \in Seq(AnyName) :
        h = <<TrashDir, c>> \o <<Last(place)>> /\ Len(h) = 3 /\ h[1] = TrashDir /\ h[2] = c
  <2>1. PICK l \in AnyName : l = Last(place)
    BY PlaceIs DEF AnyName
  <2>2. TrashDir \in AnyName /\ c \in AnyName
    BY DEF AnyName
  <2>3. PICK a \in Seq(AnyName) : a = <<TrashDir, c>> /\ Len(a) = 2 /\ a[1] = TrashDir /\ a[2] = c
    <3>1. <<TrashDir, c>> \in Seq(AnyName)
      BY <2>2
    <3>2. Len(<<TrashDir, c>>) = 2 /\ <<TrashDir, c>>[1] = TrashDir /\ <<TrashDir, c>>[2] = c
      OBVIOUS
    <3>3. QED BY <3>1, <3>2, Zenon
  <2>4. PICK b \in Seq(AnyName) : b = <<l>> /\ Len(b) = 1
    <3>1. <<l>> \in Seq(AnyName) /\ Len(<<l>>) = 1
      OBVIOUS
    <3>2. QED BY <3>1, Zenon
  <2>5. /\ a \o b \in Seq(AnyName) /\ Len(a \o b) = Len(a) + Len(b)
        /\ \A j \in 1..Len(a) : (a \o b)[j] = a[j]
    BY Joined
  <2>6. Len(a \o b) = 3 /\ (a \o b)[1] = a[1] /\ (a \o b)[2] = a[2]
    BY <2>3, <2>4, <2>5
  <2>7. a \o b = <<TrashDir, c>> \o <<Last(place)>>
    BY <2>1, <2>3, <2>4
  <2>8. QED
    BY <2>3, <2>5, <2>6, <2>7
<1>6. PICK s \in Seq(AnyName) :
        /\ s = Shifted(place, c, k) /\ s = h \o r
        /\ Len(s) = Len(h) + Len(r)
        /\ \A j \in 1..Len(h) : s[j] = h[j]
        /\ \A j \in 1..Len(r) : s[Len(h) + j] = r[j]
  <2>1. h \o r = Shifted(place, c, k)
    BY <1>1, <1>4, <1>5 DEF Shifted
  <2>2. QED
    BY <2>1, Joined
<1>7. Len(s) = K - P + 3 /\ s[1] = TrashDir /\ s[2] = c
  <2>1. Len(s) = 3 + (K - P) /\ 1 \in 1..3 /\ 2 \in 1..3
    BY <1>4, <1>5, <1>6
  <2>2. QED BY <1>3, <1>5, <1>6, <2>1
<1>8. ASSUME NEW j \in (P + 1)..K PROVE s[j - P + 3] = k[j]
  <2>1. PICK i \in 1..(K - P) : i = j - P
    BY <1>8
  <2>2. s[3 + i] = r[i] /\ r[i] = k[P + i]
    BY <1>4, <1>5, <1>6, <2>1
  <2>3. 3 + i = j - P + 3 /\ P + i = j
    BY <2>1
  <2>4. QED BY <2>2, <2>3
<1>9. QED
  BY <1>1, <1>2, <1>3, <1>6, <1>7, <1>8

\* Two containers of a folder stay two.
LEMMA ShiftedTwo ==
  ASSUME NEW place \in Place, NEW c \in Container, NEW k \in Seq(AnyName), IsPrefix(place, k), Len(k) >= 2,
         k[Len(k) - 1] = TrashDir, k[Len(k)] \in Container,
         NEW i \in Seq(AnyName), IsPrefix(place, i), Len(i) >= 2,
         i[Len(i) - 1] = TrashDir, i[Len(i)] \in Container, Shifted(place, c, k) = Shifted(place, c, i)
  PROVE  k = i
<1>1. PICK s \in Seq(AnyName), P \in Nat, K \in Nat, I \in Nat :
        s = Shifted(place, c, k) /\ P = Len(place) /\ K = Len(k) /\ I = Len(i)
  BY ShiftedIs, PlaceIs
<1>2. /\ Len(s) = K - P + 3 /\ \A j \in 1..P : k[j] = place[j]
      /\ \A j \in (P + 1)..K : s[j - P + 3] = k[j]
  <2>1. /\ Len(Shifted(place, c, k)) = Len(k) - Len(place) + 3 /\ \A j \in 1..Len(place) : k[j] = place[j]
        /\ \A j \in (Len(place) + 1)..Len(k) : Shifted(place, c, k)[j - Len(place) + 3] = k[j]
    BY ShiftedIs, SMTT(30)
  <2>2. QED BY <1>1, <2>1, Zenon
<1>3. /\ Len(s) = I - P + 3 /\ \A j \in 1..P : i[j] = place[j]
      /\ \A j \in (P + 1)..I : s[j - P + 3] = i[j]
  <2>1. /\ Len(Shifted(place, c, i)) = Len(i) - Len(place) + 3 /\ \A j \in 1..Len(place) : i[j] = place[j]
        /\ \A j \in (Len(place) + 1)..Len(i) : Shifted(place, c, i)[j - Len(place) + 3] = i[j]
    BY ShiftedIs
  <2>2. QED BY <1>1, <2>1, Zenon
<1>4. K = I
  BY <1>2, <1>3
<1>5. ASSUME NEW j \in 1..K PROVE k[j] = i[j]
  <2>1. CASE j \in 1..P
    BY <1>2, <1>3, <2>1
  <2>2. CASE j \in (P + 1)..K
    BY <1>2, <1>3, <1>4, <2>2
  <2>3. QED BY <2>1, <2>2
<1>6. QED
  BY <1>1, <1>4, <1>5, SeqEqual

\* Nothing is mounted or trashed in the beginning.
LEMMA OriginInitInv == OriginInit => OriginInv
<1> SUFFICES ASSUME OriginInit PROVE OriginInv
  OBVIOUS
<1>1. OriginTypeOK
  BY DEF OriginInit, OriginTypeOK
<1>2. \A v \in Volume : mounted[v] = <<>>
  BY DEF OriginInit
<1>3. trashed = {}
  BY DEF OriginInit
<1>4. QED
  BY <1>1, <1>2, <1>3 DEF OriginInv, Apart, Containers, Hosted, Honest

\* A mount takes a place that is free.
LEMMA MountInv == OriginInv /\ (\E v \in Volume : Mount(v)) => OriginInv'
<1> SUFFICES ASSUME OriginInv, NEW v \in Volume, Mount(v) PROVE OriginInv'
  OBVIOUS
<1>1. PICK p \in (Point \ Roots) \cup {<<>>} : mounted' = [mounted EXCEPT ![v] = p]
  BY DEF Mount
<1>2. trashed' = trashed
  BY DEF Mount
<1>3. mounted \in [Volume -> Point \cup {<<>>}]
  BY DEF OriginInv, OriginTypeOK
<1>4. OriginTypeOK'
  BY <1>1, <1>2, <1>3 DEF OriginInv, OriginTypeOK
<1>5. Apart'
  <2> SUFFICES ASSUME NEW u \in Volume, NEW w \in Volume, mounted'[u] = mounted'[w], mounted'[u] # <<>>
               PROVE  u = w
    BY DEF Apart
  <2>1. \A x \in Volume : mounted'[x] = IF x = v THEN p ELSE mounted[x]
    BY <1>1, <1>3
  <2>2. \A x \in Volume : mounted[x] # <<>> => mounted[x] \in Roots
    BY DEF Roots
  <2>3. CASE u = v /\ w # v
    BY <2>1, <2>2, <2>3
  <2>4. CASE u # v /\ w = v
    BY <2>1, <2>2, <2>4
  <2>5. CASE u # v /\ w # v
    BY <2>1, <2>5 DEF OriginInv, Apart
  <2>6. QED BY <2>3, <2>4, <2>5
<1>6. Containers' /\ Hosted' /\ Honest'
  BY <1>2 DEF OriginInv, Containers, Hosted, Honest
<1>7. QED
  BY <1>4, <1>5, <1>6 DEF OriginInv

\* A copied container is in a folder of the user's, and keeps its last two names.
LEMMA CopyTrashInv ==
  OriginInv /\ (\E t \in trashed, v \in Volume, n \in Name : CopyTrash(t, v, n)) => OriginInv'
<1> SUFFICES ASSUME OriginInv, NEW t \in trashed, NEW v \in Volume, NEW n \in Name, CopyTrash(t, v, n)
             PROVE  OriginInv'
  OBVIOUS
<1>1. PICK c \in Seq(AnyName) : c = t.container
  BY ContainerIs
<1>2. PICK h \in Seq(AnyName) : h = <<n>> /\ Len(h) = 1 /\ h[1] = n
  <2>1. n \in AnyName
    BY DEF AnyName
  <2>2. <<n>> \in Seq(AnyName) /\ Len(<<n>>) = 1 /\ <<n>>[1] = n
    BY <2>1
  <2>3. QED BY <2>2, Zenon
<1>3. PICK d \in Seq(AnyName) :
        d = h \o c /\ Len(d) = 1 + Len(c) /\ d[1] = n /\ \A j \in 1..Len(c) : d[1 + j] = c[j]
  <2>1. /\ h \o c \in Seq(AnyName) /\ Len(h \o c) = Len(h) + Len(c)
        /\ \A j \in 1..Len(h) : (h \o c)[j] = h[j]
        /\ \A j \in 1..Len(c) : (h \o c)[Len(h) + j] = c[j]
    BY Joined
  <2>2. (h \o c)[1] = n
    <3>1. 1 \in 1..Len(h)
      BY <1>2
    <3>2. QED BY <1>2, <2>1, <3>1
  <2>3. QED BY <1>2, <2>1, <2>2, Zenon
<1>4. PICK K \in Nat : K = Len(c) /\ K >= 2 /\ c[K - 1] = TrashDir /\ c[K] \in Container
  BY <1>1, ContainerIs
<1>5. Len(d) >= 2 /\ d[Len(d) - 1] = TrashDir /\ d[Len(d)] \in Container
  <2>1. d[1 + (K - 1)] = c[K - 1] /\ d[1 + K] = c[K]
    <3>1. K - 1 \in 1..K /\ K \in 1..K
      BY <1>4
    <3>2. QED BY <1>3, <1>4, <3>1
  <2>2. Len(d) = 1 + K /\ Len(d) - 1 = 1 + (K - 1) /\ 1 + K >= 2
    BY <1>3, <1>4
  <2>3. QED BY <1>4, <2>1, <2>2
<1>6. PICK new : new = [t EXCEPT !.volume = v, !.container = d]
  OBVIOUS
<1>7. mounted' = mounted /\ trashed' = trashed \cup {new}
  BY <1>1, <1>2, <1>3, <1>6 DEF CopyTrash, Deed
<1>8. t \in [volume : Volume, container : Seq(AnyName), item : Name, note : Seq(AnyName), from : Seq(AnyName)]
  BY DEF OriginInv, OriginTypeOK
<1>9. /\ new \in [volume : Volume, container : Seq(AnyName), item : Name, note : Seq(AnyName),
                 from : Seq(AnyName)]
      /\ new.volume = v /\ new.container = d /\ new.note = t.note /\ new.from = t.from
  BY <1>6, <1>8
<1>10. \A u \in trashed : u.volume = v => u.container # d
  BY <1>1, <1>2, <1>3 DEF CopyTrash
<1>11. OriginTypeOK' /\ Apart'
  BY <1>7, <1>9 DEF OriginInv, OriginTypeOK, Apart
<1>12. Containers'
  BY <1>5, <1>7, <1>9, <1>10 DEF OriginInv, Containers
<1>13. Hosted'
  <2>1. new.container[1] # TrashDir
    BY <1>3, <1>9, NamesDiffer
  <2>2. QED
    BY <1>7, <2>1 DEF OriginInv, Hosted
<1>14. Honest'
  BY <1>7, <1>9 DEF OriginInv, Honest
<1>15. QED
  BY <1>11, <1>12, <1>13, <1>14 DEF OriginInv

\* What is forged is a path.
LEMMA ForgedIs == Forged \subseteq Seq(AnyName)
<1> DEFINE Below == Place \cup {<<TrashDir>>} \cup {<<TrashDir, c, n>> : c \in Container, n \in Name}
<1>1. ASSUME NEW q \in Below PROVE q \in Seq(AnyName)
  <2>1. CASE q \in Place
    BY <2>1, PlaceIs
  <2>2. CASE q = <<TrashDir>>
    BY <2>2 DEF AnyName
  <2>3. CASE \E c \in Container, n \in Name : q = <<TrashDir, c, n>>
    <3>1. PICK c \in AnyName, n \in AnyName : q = <<TrashDir, c, n>>
      BY <2>3 DEF AnyName
    <3>2. TrashDir \in AnyName
      BY DEF AnyName
    <3>3. QED BY <3>1, <3>2
  <2>4. QED BY <2>1, <2>2, <2>3
<1>2. ASSUME NEW p \in Point, NEW q \in Below PROVE p \o q \in Seq(AnyName)
  <2>1. p \in Seq(AnyName) /\ q \in Seq(AnyName)
    BY <1>1, NamesDiffer
  <2>2. QED BY <2>1, ConcatProperties
<1>3. Forged = {p \o q : p \in Point, q \in Below}
  BY DEF Forged
<1>4. QED
  <2> SUFFICES ASSUME NEW path \in Forged PROVE path \in Seq(AnyName)
    OBVIOUS
  <2> HIDE DEF Below
  <2>1. path \in {p \o q : p \in Point, q \in Below}
    BY <1>3
  <2>2. \E p \in Point, q \in Below : path = p \o q
    BY <2>1
  <2>3. QED BY <1>2, <2>2, Zenon

\* A forged note is in the same container.
LEMMA ForgeInv == OriginInv /\ (\E t \in trashed, path \in Forged, n \in Name : Forge(t, path, n)) => OriginInv'
<1> SUFFICES ASSUME OriginInv, NEW t \in trashed, NEW path \in Forged, NEW n \in Name, Forge(t, path, n)
             PROVE  OriginInv'
  OBVIOUS
<1>1. PICK new : new = [t EXCEPT !.note = path, !.item = n, !.from = <<>>]
  OBVIOUS
<1>2. mounted' = mounted /\ trashed' = (trashed \ {t}) \cup {new}
  BY <1>1 DEF Forge, Deed
<1>3. t \in [volume : Volume, container : Seq(AnyName), item : Name, note : Seq(AnyName), from : Seq(AnyName)]
  BY DEF OriginInv, OriginTypeOK
<1>4. path \in Seq(AnyName) /\ <<>> \in Seq(AnyName)
  BY ForgedIs, EmptySeq
<1>5. /\ new \in [volume : Volume, container : Seq(AnyName), item : Name, note : Seq(AnyName),
                 from : Seq(AnyName)]
      /\ new.volume = t.volume /\ new.container = t.container /\ new.from = <<>>
  BY <1>1, <1>3, <1>4
<1>6. OriginTypeOK' /\ Apart'
  BY <1>2, <1>5 DEF OriginInv, OriginTypeOK, Apart
<1>7. Containers'
  BY <1>2, <1>5 DEF OriginInv, Containers
<1>8. Hosted'
  <2> SUFFICES ASSUME NEW u \in trashed', u.container[1] = TrashDir
               PROVE  \E w \in trashed' : w.volume = u.volume /\ w.container = <<TrashDir, u.container[2]>>
    BY DEF Hosted
  <2>1. \E s \in trashed : s.volume = u.volume /\ s.container = u.container
    BY <1>2, <1>5
  <2>2. PICK w \in trashed : w.volume = u.volume /\ w.container = <<TrashDir, u.container[2]>>
    BY <2>1 DEF OriginInv, Hosted
  <2>3. CASE w = t
    BY <1>2, <1>5, <2>2, <2>3
  <2>4. CASE w # t
    BY <1>2, <2>2, <2>4
  <2>5. QED BY <2>3, <2>4
<1>9. Honest'
  BY <1>2, <1>5 DEF OriginInv, Honest
<1>10. QED
  BY <1>6, <1>7, <1>8, <1>9 DEF OriginInv

\* A folder of the user's is trashed with the trashes that are in it.
LEMMA TrashItemInv ==
  OriginInv /\ (\E v \in Volume, place \in Place, c \in Container : TrashItem(v, place, c)) => OriginInv'
<1> SUFFICES ASSUME OriginInv, NEW v \in Volume, NEW place \in Place, NEW c \in Container, TrashItem(v, place, c)
             PROVE  OriginInv'
  OBVIOUS
<1> DEFINE Within(t) == t.volume = v /\ IsPrefix(place, t.container)
           Record == [volume : Volume, container : Seq(AnyName), item : Name, note : Seq(AnyName),
                      from : Seq(AnyName)]
           After(t) == IF Within(t) THEN [t EXCEPT !.container = Shifted(place, c, @)] ELSE t
<1>1. PICK path \in Seq(AnyName) : path = mounted[v] \o place
  BY MountedIs, PlaceIs, ConcatProperties DEF OriginInv
<1>2. PICK top \in Seq(AnyName) : top = <<TrashDir, c>> /\ Len(top) = 2 /\ top[1] = TrashDir /\ top[2] = c
  <2>1. TrashDir \in AnyName /\ c \in AnyName
    BY DEF AnyName
  <2>2. <<TrashDir, c>> \in Seq(AnyName)
    BY <2>1
  <2>3. Len(<<TrashDir, c>>) = 2 /\ <<TrashDir, c>>[1] = TrashDir /\ <<TrashDir, c>>[2] = c
    OBVIOUS
  <2>4. QED BY <2>2, <2>3, Zenon
<1>3. PICK new \in Record :
        new = [volume |-> v, container |-> top, item |-> Last(place), note |-> path, from |-> path]
  BY PlaceIs
<1>4. /\ mounted' = mounted /\ trashed' = {After(t) : t \in trashed} \cup {new}
      /\ \A t \in trashed : t.volume = v => t.container # top
  BY <1>1, <1>2, <1>3, Zenon DEF TrashItem, Deed, Shifted
<1>5. new.volume = v /\ new.container = top /\ new.note = path /\ new.from = path
  BY <1>3
<1>6. \A t \in trashed : t \in Record
  BY DEF OriginInv, OriginTypeOK
<1>7. ASSUME NEW t \in trashed, Within(t)
      PROVE  /\ After(t) \in Record /\ After(t).container = Shifted(place, c, t.container)
             /\ After(t).volume = v /\ After(t).item = t.item /\ After(t).note = t.note /\ After(t).from = t.from
             /\ Len(After(t).container) >= 5 /\ After(t).container[Len(After(t).container) - 1] = TrashDir
             /\ After(t).container[Len(After(t).container)] \in Container
             /\ After(t).container[1] = TrashDir /\ After(t).container[2] = c
  <2>1. PICK k \in Seq(AnyName), s \in Seq(AnyName), K \in Nat, P \in Nat :
          k = t.container /\ s = Shifted(place, c, k) /\ K = Len(k) /\ P = Len(place)
    BY <1>7, ContainerIs, ShiftedIs, PlaceIs
  <2>2. K >= 2 /\ k[K - 1] = TrashDir /\ k[K] \in Container
    BY <2>1, ContainerIs
  <2>3. /\ P <= K - 2 /\ Len(s) = K - P + 3 /\ s[1] = TrashDir /\ s[2] = c
        /\ \A j \in (P + 1)..K : s[j - P + 3] = k[j]
    <3>1. IsPrefix(place, k)
      BY <1>7, <2>1
    <3>2. /\ Len(place) <= Len(k) - 2 /\ Len(Shifted(place, c, k)) = Len(k) - Len(place) + 3
          /\ Shifted(place, c, k)[1] = TrashDir /\ Shifted(place, c, k)[2] = c
          /\ \A j \in (Len(place) + 1)..Len(k) : Shifted(place, c, k)[j - Len(place) + 3] = k[j]
      <4>1. Len(k) >= 2 /\ k[Len(k) - 1] = TrashDir /\ k[Len(k)] \in Container
        BY <2>1, <2>2
      <4>2. QED BY <3>1, <4>1, ShiftedIs, SMTT(30)
    <3>3. QED BY <2>1, <3>2, Zenon
  <2>4. Len(s) >= 5 /\ s[Len(s) - 1] = TrashDir /\ s[Len(s)] \in Container
    <3>1. s[(K - 1) - P + 3] = k[K - 1] /\ s[K - P + 3] = k[K]
      <4>1. K - 1 \in (P + 1)..K /\ K \in (P + 1)..K
        BY <2>3
      <4>2. QED BY <2>3, <4>1
    <3>2. Len(s) - 1 = (K - 1) - P + 3 /\ Len(s) >= 5
      BY <2>3
    <3>3. QED BY <2>2, <2>3, <3>1, <3>2
  <2>5. After(t) = [t EXCEPT !.container = s]
    BY <1>7, <2>1
  <2>6. t \in Record /\ t.volume = v
    BY <1>6, <1>7
  <2>7. /\ After(t) \in Record /\ After(t).container = s
        /\ After(t).volume = v /\ After(t).item = t.item /\ After(t).note = t.note /\ After(t).from = t.from
    BY <2>5, <2>6
  <2>8. QED
    BY <2>1, <2>3, <2>4, <2>7
<1>8. ASSUME NEW t \in trashed PROVE After(t) \in Record /\ After(t).note = t.note /\ After(t).from = t.from
  <2>1. CASE Within(t)
    BY <1>7, <2>1
  <2>2. CASE ~Within(t)
    BY <1>6, <2>2
  <2>3. QED BY <2>1, <2>2
<1>9. OriginTypeOK' /\ Apart'
  <2>1. trashed' \subseteq Record
    BY <1>4, <1>8
  <2>2. QED
    BY <1>4, <2>1 DEF OriginInv, OriginTypeOK, Apart
<1>10. \A a \in trashed' : a = new \/ \E t \in trashed : a = After(t)
  BY <1>4
<1>11. Honest'
  <2>1. \A a \in trashed' : a.from # <<>> => a.note = a.from
    BY <1>5, <1>8, <1>10 DEF OriginInv, Honest
  <2>2. QED BY <2>1 DEF Honest
<1>12. Hosted'
  <2> SUFFICES ASSUME NEW a \in trashed', a.container[1] = TrashDir
               PROVE  \E u \in trashed' : u.volume = a.volume /\ u.container = <<TrashDir, a.container[2]>>
    BY DEF Hosted
  <2>1. CASE a = new
    BY <1>2, <1>4, <1>5, <2>1
  <2>2. ASSUME NEW t \in trashed, a = After(t), Within(t) PROVE a.volume = v /\ a.container[2] = c
    BY <1>7, <2>2
  <2>3. CASE a.volume = v /\ a.container[2] = c
    BY <1>2, <1>4, <1>5, <2>3
  <2>4. ASSUME NEW t \in trashed, a = After(t), ~Within(t)
        PROVE  \E u \in trashed' : u.volume = a.volume /\ u.container = <<TrashDir, a.container[2]>>
    <3>1. a = t
      BY <2>4
    <3>2. PICK w \in trashed : w.volume = a.volume /\ w.container = <<TrashDir, a.container[2]>>
      BY <3>1 DEF OriginInv, Hosted
    <3>3. ~Within(w)
      <4>1. SUFFICES ASSUME Within(w) PROVE FALSE
        OBVIOUS
      <4>2. \A j \in 1..Len(place) : w.container[j] = place[j]
        <5>1. PICK k \in Seq(AnyName) : k = w.container
          BY ContainerIs
        <5>2. Len(k) >= 2 /\ k[Len(k) - 1] = TrashDir /\ k[Len(k)] \in Container /\ IsPrefix(place, k)
          BY <4>1, <5>1, ContainerIs
        <5>3. \A j \in 1..Len(place) : k[j] = place[j]
          BY <5>2, ShiftedIs
        <5>4. QED BY <5>1, <5>3
      <4>3. 1 \in 1..Len(place) /\ place[1] \in Name
        <5>1. 1 \in 1..Len(place)
          BY PlaceIs
        <5>2. QED BY <5>1, PlaceIs, ElementOfSeq
      <4>4. w.container[1] = TrashDir
        BY <3>2
      <4>5. QED BY <4>2, <4>3, <4>4, NamesDiffer
    <3>4. After(w) = w
      BY <3>3
    <3>5. w \in trashed'
      BY <1>4, <3>4
    <3>6. QED BY <3>2, <3>5
  <2>5. QED
    BY <1>10, <2>1, <2>2, <2>3, <2>4
<1>13. Containers'
  <2>1. ASSUME NEW a \in trashed'
        PROVE  /\ Len(a.container) >= 2
               /\ a.container[Len(a.container) - 1] = TrashDir /\ a.container[Len(a.container)] \in Container
    <3>1. CASE a = new
      <4>1. Len(top) >= 2 /\ top[Len(top) - 1] = TrashDir /\ top[Len(top)] \in Container
        <5>1. Len(top) - 1 = 1 /\ Len(top) >= 2
          BY <1>2
        <5>2. QED BY <1>2, <5>1
      <4>2. a.container = top
        BY <1>5, <3>1
      <4>3. QED BY <4>1, <4>2, Zenon
    <3>2. ASSUME NEW t \in trashed, a = After(t), Within(t)
          PROVE  /\ Len(a.container) >= 2
                 /\ a.container[Len(a.container) - 1] = TrashDir /\ a.container[Len(a.container)] \in Container
      <4>1. PICK s \in Seq(AnyName) : s = After(t).container
        BY <1>7, <3>2
      <4>2. Len(s) >= 5 /\ s[Len(s) - 1] = TrashDir /\ s[Len(s)] \in Container
        BY <1>7, <3>2, <4>1, Zenon
      <4>3. Len(s) >= 2
        BY <4>2
      <4>4. QED BY <3>2, <4>1, <4>2, <4>3, Zenon
    <3>3. ASSUME NEW t \in trashed, a = After(t), ~Within(t)
          PROVE  /\ Len(a.container) >= 2
                 /\ a.container[Len(a.container) - 1] = TrashDir /\ a.container[Len(a.container)] \in Container
      BY <3>3 DEF OriginInv, Containers
    <3>4. QED
      BY <1>10, <3>1, <3>2, <3>3
  <2>2. ASSUME NEW t \in trashed PROVE After(t).volume = v => After(t).container # top
    <3>1. CASE Within(t)
      <4>1. Len(After(t).container) >= 5
        BY <1>7, <3>1, Zenon
      <4>2. ~(Len(top) >= 5)
        BY <1>2
      <4>3. QED BY <4>1, <4>2, Zenon
    <3>2. CASE ~Within(t)
      BY <1>4, <3>2
    <3>3. QED BY <3>1, <3>2
  <2>3. ASSUME NEW t \in trashed, Within(t), NEW u \in trashed, ~Within(u),
               After(t).volume = After(u).volume, After(t).container = After(u).container
        PROVE  FALSE
    <3>1. After(u) = u
      BY <2>3
    <3>2. u.volume = v /\ u.container[1] = TrashDir /\ u.container[2] = c
      BY <1>7, <2>3, <3>1
    <3>3. PICK w \in trashed : w.volume = v /\ w.container = <<TrashDir, c>>
      BY <3>2 DEF OriginInv, Hosted
    <3>4. QED
      BY <1>2, <1>4, <3>3
  <2>4. ASSUME NEW t \in trashed, NEW u \in trashed,
               After(t).volume = After(u).volume, After(t).container = After(u).container
        PROVE  t = u
    <3>1. CASE Within(t) /\ Within(u)
      <4>1. Shifted(place, c, t.container) = Shifted(place, c, u.container)
        BY <1>7, <2>4, <3>1
      <4>2. t.container = u.container
        <5>1. PICK k \in Seq(AnyName), i \in Seq(AnyName) : k = t.container /\ i = u.container
          BY ContainerIs
        <5>2. IsPrefix(place, k) /\ Len(k) >= 2 /\ k[Len(k) - 1] = TrashDir /\ k[Len(k)] \in Container
          BY <3>1, <5>1, ContainerIs
        <5>3. IsPrefix(place, i) /\ Len(i) >= 2 /\ i[Len(i) - 1] = TrashDir /\ i[Len(i)] \in Container
          BY <3>1, <5>1, ContainerIs
        <5>4. Shifted(place, c, k) = Shifted(place, c, i)
          BY <4>1, <5>1
        <5>5. k = i
          BY <5>2, <5>3, <5>4, ShiftedTwo
        <5>6. QED BY <5>1, <5>5
      <4>3. t.volume = u.volume
        BY <3>1
      <4>4. QED BY <4>2, <4>3 DEF OriginInv, Containers
    <3>2. CASE Within(t) /\ ~Within(u)
      BY <2>3, <2>4, <3>2
    <3>3. CASE ~Within(t) /\ Within(u)
      BY <2>3, <2>4, <3>3
    <3>4. CASE ~Within(t) /\ ~Within(u)
      <4>1. t.volume = u.volume /\ t.container = u.container
        BY <2>4, <3>4
      <4>2. QED BY <4>1 DEF OriginInv, Containers
    <3>5. QED BY <3>1, <3>2, <3>3, <3>4
  <2>5. ASSUME NEW a \in trashed', NEW b \in trashed', a.volume = b.volume, a.container = b.container
        PROVE  a = b
    <3> HIDE DEF After, Within
    <3>1. CASE a = new /\ b = new
      BY <3>1
    <3>2. CASE a = new /\ b # new
      BY <1>5, <1>10, <2>2, <2>5, <3>2
    <3>3. CASE a # new /\ b = new
      BY <1>5, <1>10, <2>2, <2>5, <3>3
    <3>4. CASE a # new /\ b # new
      BY <1>10, <2>4, <2>5, <3>4
    <3>5. QED BY <3>1, <3>2, <3>3, <3>4
  <2>6. QED
    BY <2>1, <2>5 DEF Containers
<1>14. QED
  BY <1>9, <1>11, <1>12, <1>13 DEF OriginInv

\* The invariant of the trashes, for any volumes, names and containers, and any number of deeds.
THEOREM OriginInvariance == OriginSpec => []OriginInv
<1>1. OriginInv /\ [OriginNext]_originVars => OriginInv'
  <2> SUFFICES ASSUME OriginInv, [OriginNext]_originVars PROVE OriginInv'
    OBVIOUS
  <2>1. CASE OriginNext
    BY <2>1, MountInv, TrashItemInv, CopyTrashInv, ForgeInv DEF OriginNext
  <2>2. CASE UNCHANGED originVars
    <3>1. mounted' = mounted /\ trashed' = trashed
      BY <2>2 DEF originVars
    <3>2. QED
      BY <3>1 DEF OriginInv, OriginTypeOK, Apart, Containers, Hosted, Honest
  <2>3. QED
    BY <2>1, <2>2
<1>2. QED
  BY <1>1, OriginInitInv, PTL DEF OriginSpec

\* The place that trashOrigin gives an item is on its own volume, outside of the trash, and
\* where it came from unless its note was forged.
THEOREM OriginsAreTrue == OriginSpec => []OriginIsTrue
BY OriginInvariance, OriginInvImpliesTrue, PTL
=============================================================================
