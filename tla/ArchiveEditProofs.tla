-------------------------- MODULE ArchiveEditProofs --------------------------
(***************************************************************************)
(* Proofs about ArchiveEdit, for any paths, archives and requests: types,  *)
(* that no request replaces a version it has not read, and, about batches, *)
(* that what is staged is what the archiver makes, a file is replaced only *)
(* if it was seen, and the archive changes by whole batches, as            *)
(* AtomicArchive promises.                                                 *)
(***************************************************************************)
EXTENDS ArchiveEdit, FiniteSetTheorems, SequenceTheorems, TLAPS

\* The listing of an archive has the root, the paths of its members and folders
\* above them (folderArchive.index).
LEMMA IndexType ==
  ASSUME NEW ms \in Archive PROVE Index(ms) \in Entries
<1>1. PICK P \in SUBSET Path : ms \in [P -> Content]
  BY DEF Archive
<1> DEFINE D == {Root} \cup P \cup UNION {Above(q) : q \in P}
<1>2. D \subseteq Path \cup {Root}
  BY ArchiveAssumption
<1>3. Index(ms) = [p \in D |-> IF p \in P THEN [index |-> "member", is |-> ms[p]]
                                         ELSE [index |-> "implied", is |-> Folder]]
  BY <1>1 DEF Index
<1>4. Index(ms) \in [D -> Row]
  BY <1>1, <1>3 DEF Row, Content
<1>5. QED
  BY <1>2, <1>4 DEF Entries

\* Dropping the rows under a path keeps the rest as it is (batch.stage).
LEMMA WithoutType ==
  ASSUME NEW S, NEW R, NEW f \in UNION {[P -> R] : P \in SUBSET S}, NEW p
  PROVE  Without(f, p) \in UNION {[P -> R] : P \in SUBSET S}
<1>1. PICK P \in SUBSET S : f \in [P -> R]
  OBVIOUS
<1> DEFINE Q == {r \in P : ~IsPrefix(p, r)}
<1>2. Without(f, p) \in [Q -> R]
  BY <1>1 DEF Without
<1>3. QED
  BY <1>2

\* Staging a row adds it or replaces the one that was there (batch.stage).
LEMMA AddRow ==
  ASSUME NEW f \in Entries, NEW p \in Path \cup {Root}, NEW r \in Row
  PROVE  [q \in DOMAIN f \cup {p} |-> IF q = p THEN r ELSE f[q]] \in Entries
<1> DEFINE g == [q \in DOMAIN f \cup {p} |-> IF q = p THEN r ELSE f[q]]
<1>1. PICK P \in SUBSET (Path \cup {Root}) : f \in [P -> Row]
  BY DEF Entries
<1>2. g \in [P \cup {p} -> Row]
  BY <1>1
<1>3. P \cup {p} \in SUBSET (Path \cup {Root})
  BY <1>1
<1> HIDE DEF g
<1>4. g \in Entries
  BY <1>2, <1>3 DEF Entries
<1>5. QED
  BY <1>4 DEF g

\* The same for the digests of the staged files.
LEMMA AddDigest ==
  ASSUME NEW f \in Digests, NEW p \in Path, NEW r \in Worker
  PROVE  [q \in DOMAIN f \cup {p} |-> IF q = p THEN r ELSE f[q]] \in Digests
<1>1. PICK P \in SUBSET Path : f \in [P -> Worker]
  BY DEF Digests
<1>2. [q \in P \cup {p} |-> IF q = p THEN r ELSE f[q]] \in [P \cup {p} -> Worker]
  BY <1>1
<1>3. QED
  BY <1>1, <1>2 DEF Digests

\* What the archiver makes of typed rows is an archive: the root is never among the
\* rows to write, since it is never staged (edit.go, commit).
LEMMA RewriteType ==
  ASSUME NEW ms \in Archive, NEW es \in Entries, NEW gone,
         Root \in DOMAIN es => es[Root].index # "staged"
  PROVE  Rewrite(ms, gone, Added(es), es) \in Archive
<1>1. PICK P \in SUBSET Path : ms \in [P -> Content]
  BY DEF Archive
<1>2. PICK Q \in SUBSET (Path \cup {Root}) : es \in [Q -> Row]
  BY DEF Entries
<1> DEFINE D == (P \ gone) \cup Added(es)
<1>3. Added(es) \subseteq Path /\ Added(es) \subseteq Q
  BY <1>2 DEF Added
<1>4. Rewrite(ms, gone, Added(es), es) \in [D -> Content]
  <2>1. ASSUME NEW p \in D
        PROVE (IF p \in Added(es) THEN es[p].is ELSE ms[p]) \in Content
    BY <1>1, <1>2, <1>3 DEF Row
  <2>2. QED
    BY <2>1, <1>1 DEF Rewrite
<1>5. QED
  BY <1>3, <1>4 DEF Archive

-----------------------------------------------------------------------------

\* Versions were read in the order revision, token, bytes, so what a request may
\* install was made from bytes that are not older than the version it names.
Ordered(w) ==
  /\ pc[w] = "checking" => kind[w] = "whole"
  /\ kind[w] = "whole" =>
       /\ pc[w] \notin {"statting", "reading", "ready", "staging", "replacing"}
       /\ opened[w].bytes = opened[w].rev
  /\ kind[w] # "whole" /\ pc[w] \in {"ready", "staging", "comparing", "replacing"} =>
       opened[w].rev <= opened[w].bytes /\ opened[w].token <= opened[w].bytes
  /\ pc[w] \in {"ready", "staging"} => opened[w].bytes # 0
  /\ sent[w] = "out" => pc[w] \in {"waiting", "done"} /\ opened[w].token <= opened[w].bytes

\* There is something to install, and the root of the listing is never staged.
Ready(w) ==
  /\ pc[w] \in {"checking", "comparing", "replacing"} \/ sent[w] = "out" => new[w] \in Archive
  /\ kind[w] = "whole" /\ pc[w] = "asking" => new[w] \in Archive
  /\ Root \in DOMAIN entries[w] => entries[w][Root].index # "staged"

IInv == TypeOK /\ past # <<>> /\ \A w \in Worker : Ordered(w) /\ Ready(w)

LEMMA InitInv == Init => IInv
<1> SUFFICES ASSUME Init PROVE IInv
  OBVIOUS
<1>1. past \in Seq(Archive) /\ past # <<>> /\ Now = 1
  <2>1. PICK a \in Initial : past = <<a>>
    BY DEF Init
  <2>2. QED
    BY <2>1, ArchiveAssumption DEF Now
<1>2. <<>> \in Entries /\ <<>> \in Digests
  <2>1. <<>> \in [{} -> Row] /\ <<>> \in [{} -> Worker]
    OBVIOUS
  <2>2. QED
    BY <2>1 DEF Entries, Digests
<1>3. TypeOK
  BY <1>1, <1>2, ArchiveAssumption DEF Init, TypeOK, Version, Closed
<1>4. ASSUME NEW w \in Worker PROVE Ordered(w) /\ Ready(w)
  <2>1. DOMAIN entries[w] = {}
    BY DEF Init
  <2>2. QED
    BY <2>1 DEF Init, Ordered, Ready, Closed
<1>5. QED
  BY <1>1, <1>3, <1>4 DEF IInv
-----------------------------------------------------------------------------
(* One lemma for the actions that leave the archive and the batches alone, one for *)
(* those that drop a batch, one for each of the others.                            *)

LEMMA QuietStep ==
  ASSUME IInv, NEW w \in Worker,
         Request(w) \/ CheckWhole(w) \/ OpenStat(w) \/ OpenToken(w) \/ Finish(w) \/ Compare(w)
  PROVE  IInv'
<1>1. /\ past' = past /\ Now \in Nat /\ Now' = Now
      /\ Version' = Version /\ Now \in Version /\ 0 \in Version
  BY DEF IInv, TypeOK, Now, Version, fileVars, Request, CheckWhole, OpenStat, OpenToken, Finish, Compare
<1>2. ASSUME Request(w) PROVE IInv'
  <2>1. TypeOK'
    <3>1. /\ kind' \in [Worker -> {"member", "within", "whole"}]
          /\ pc' \in [Worker -> {"idle", "statting", "asking", "reading", "ready", "staging", "checking",
                                 "comparing", "waiting", "replacing", "done"}]
      BY <1>2 DEF IInv, TypeOK, Request, Goto
    <3>2. UNCHANGED <<past, cloud, opened, entries, hashes, new, sent, answer, left, taken>>
      BY <1>2 DEF Request, fileVars, batchVars, histVars
    <3>3. QED
      BY <1>1, <3>1, <3>2 DEF IInv, TypeOK
  <2>2. ASSUME NEW v \in Worker PROVE Ordered(v)' /\ Ready(v)'
    BY <1>1, <1>2 DEF IInv, TypeOK, Ordered, Ready, Request, Goto, fileVars, batchVars, histVars, Version
  <2>3. QED
    BY <1>1, <2>1, <2>2 DEF IInv
<1>3. ASSUME CheckWhole(w) PROVE IInv'
  <2>1. TypeOK'
    BY <1>1, <1>3 DEF IInv, TypeOK, CheckWhole, Goto, End, fileVars, batchVars, histVars, Version
  <2>2. ASSUME NEW v \in Worker PROVE Ordered(v)' /\ Ready(v)'
    BY <1>1, <1>3 DEF IInv, TypeOK, Ordered, Ready, CheckWhole, Goto, End, fileVars, batchVars, histVars, Version
  <2>3. QED
    BY <1>1, <2>1, <2>2 DEF IInv
<1>4. ASSUME OpenToken(w) PROVE IInv'
  <2>0. /\ UNCHANGED <<past, cloud, kind, entries, hashes, ops, new, sent, left, taken, mine>>
        /\ opened' \in [Worker -> [rev : Version, token : Version, baseline : Version, bytes : Version]]
        /\ pc' \in [Worker -> {"idle", "statting", "asking", "reading", "ready", "staging", "checking",
                                "comparing", "waiting", "replacing", "done"}]
        /\ answer' \in [Worker -> {"none", "ok", "failed", "unconfirmed"}]
    <3>1. UNCHANGED <<past, cloud, kind, entries, hashes, ops, new, sent, left, taken, mine>>
      BY <1>4 DEF OpenToken, fileVars, batchVars, histVars
    <3>2. pc' \in [Worker -> {"idle", "statting", "asking", "reading", "ready", "staging", "checking",
                                "comparing", "waiting", "replacing", "done"}]
      BY <1>4 DEF IInv, TypeOK, OpenToken, Goto, End
    <3>3. answer' \in [Worker -> {"none", "ok", "failed", "unconfirmed"}]
      BY <1>4 DEF IInv, TypeOK, OpenToken, Goto, End
    <3>4. opened' \in [Worker -> [rev : Version, token : Version, baseline : Version, bytes : Version]]
      <4> opened \in [Worker -> [rev : Version, token : Version, baseline : Version, bytes : Version]]
        BY DEF IInv, TypeOK
      <4> QED
        BY <1>1, <1>4 DEF OpenToken
    <3>5. QED
      BY <3>1, <3>2, <3>3, <3>4
  <2>1. TypeOK'
    BY <1>1, <2>0 DEF IInv, TypeOK
  <2>2. ASSUME NEW v \in Worker PROVE Ordered(v)' /\ Ready(v)'
    <3>1. CASE v # w
      BY <1>1, <1>4, <2>0, <3>1 DEF IInv, TypeOK, Ordered, Ready, OpenToken, Goto, End
    <3>2. CASE v = w
      <4>1. pc[w] = "asking" /\ opened'[w].rev = opened[w].rev /\ opened'[w].bytes = opened[w].bytes
        BY <1>4 DEF IInv, TypeOK, OpenToken, Goto, End
      <4>2. \/ pc'[w] \in {"comparing", "done"} /\ kind[w] = "whole"
            \/ pc'[w] = "reading" /\ kind[w] # "whole"
        BY <1>4 DEF IInv, TypeOK, OpenToken, Goto, End
      <4>3. QED
        BY <1>1, <2>0, <3>2, <4>1, <4>2 DEF IInv, TypeOK, Ordered, Ready
    <3>3. QED
      BY <3>1, <3>2
  <2>3. QED
    BY <1>1, <2>1, <2>2 DEF IInv
<1>5. ASSUME OpenStat(w) PROVE IInv'
  <2>0. /\ UNCHANGED <<past, cloud, kind, entries, hashes, ops, new, sent, left, taken, mine>>
        /\ opened' \in [Worker -> [rev : Version, token : Version, baseline : Version, bytes : Version]]
        /\ pc' \in [Worker -> {"idle", "statting", "asking", "reading", "ready", "staging", "checking",
                                "comparing", "waiting", "replacing", "done"}]
        /\ answer' \in [Worker -> {"none", "ok", "failed", "unconfirmed"}]
    <3>1. UNCHANGED <<past, cloud, kind, entries, hashes, ops, new, sent, left, taken, mine>>
      BY <1>5 DEF OpenStat, fileVars, batchVars, histVars
    <3>2. pc' \in [Worker -> {"idle", "statting", "asking", "reading", "ready", "staging", "checking",
                                "comparing", "waiting", "replacing", "done"}]
      BY <1>5 DEF IInv, TypeOK, OpenStat, CannotOpen, Doubt, Goto, End
    <3>3. answer' \in [Worker -> {"none", "ok", "failed", "unconfirmed"}]
      BY <1>5 DEF IInv, TypeOK, OpenStat, CannotOpen, Doubt, Goto, End
    <3>4. opened' \in [Worker -> [rev : Version, token : Version, baseline : Version, bytes : Version]]
      <4> opened \in [Worker -> [rev : Version, token : Version, baseline : Version, bytes : Version]]
        BY DEF IInv, TypeOK
      <4> QED
        BY <1>1, <1>5 DEF OpenStat, CannotOpen
    <3>5. QED
      BY <3>1, <3>2, <3>3, <3>4
  <2>1. TypeOK'
    BY <1>1, <2>0 DEF IInv, TypeOK
  <2>2. ASSUME NEW v \in Worker PROVE Ordered(v)' /\ Ready(v)'
    BY <1>1, <1>5 DEF IInv, TypeOK, Ordered, Ready, OpenStat, CannotOpen, Doubt, Goto, End, fileVars, batchVars, histVars, Version
  <2>3. QED
    BY <1>1, <2>1, <2>2 DEF IInv
<1>6. ASSUME Finish(w) PROVE IInv'
  <2>1. TypeOK'
    BY <1>1, <1>6 DEF IInv, TypeOK, Finish, Goto, End, fileVars, batchVars, histVars, Version
  <2>2. ASSUME NEW v \in Worker PROVE Ordered(v)' /\ Ready(v)'
    BY <1>1, <1>6 DEF IInv, TypeOK, Ordered, Ready, Finish, Goto, End, fileVars, batchVars, histVars, Version
  <2>3. QED
    BY <1>1, <2>1, <2>2 DEF IInv
<1>7. ASSUME Compare(w) PROVE IInv'
  <2>1. TypeOK'
    BY <1>1, <1>7 DEF IInv, TypeOK, Compare, Goto, fileVars, batchVars, histVars, Version
  <2>2. ASSUME NEW v \in Worker PROVE Ordered(v)' /\ Ready(v)'
    BY <1>1, <1>7 DEF IInv, TypeOK, Ordered, Ready, Compare, Goto, fileVars, batchVars, histVars, Version
  <2>3. QED
    BY <1>1, <2>1, <2>2 DEF IInv
<1>8. QED
  BY <1>2, <1>3, <1>4, <1>5, <1>6, <1>7

\* Dropping a batch leaves typed values.
LEMMA ResetType ==
  ASSUME TypeOK, NEW w \in Worker, Reset(w)
  PROVE  /\ entries' \in [Worker -> Entries] /\ hashes' \in [Worker -> Digests]
         /\ new' \in [Worker -> Archive \cup {NoArchive}]
         /\ taken' \in [Worker -> BOOLEAN]
         /\ DOMAIN entries'[w] = {}
         /\ \A v \in Worker \ {w} : entries'[v] = entries[v] /\ new'[v] = new[v]
<1>1. <<>> \in Entries /\ <<>> \in Digests
  <2>1. <<>> \in [{} -> Row] /\ <<>> \in [{} -> Worker]
    OBVIOUS
  <2>2. QED
    BY <2>1 DEF Entries, Digests
<1>2. QED
  BY <1>1 DEF Reset, TypeOK

LEMMA AbandonStep ==
  ASSUME IInv, NEW w \in Worker, Abandon(w) PROVE IInv'
<1>1. Now' = Now /\ Version' = Version
  BY DEF Now, Version, Abandon, fileVars
<1>2. TypeOK /\ Reset(w) /\ UNCHANGED <<past, cloud, kind, opened, sent, left>>
  BY DEF IInv, Abandon, fileVars
<1>3. pc' = [pc EXCEPT ![w] = "done"] /\ answer' = [answer EXCEPT ![w] = "failed"]
      /\ pc[w] \in {"staging", "comparing", "replacing"}
  BY DEF Abandon, End, Goto
<1>4. TypeOK'
  BY <1>1, <1>2, <1>3, ResetType DEF TypeOK
<1>5. ASSUME NEW v \in Worker PROVE Ordered(v)' /\ Ready(v)'
  BY <1>1, <1>2, <1>3, ResetType DEF IInv, TypeOK, Ordered, Ready
<1>6. QED
  BY <1>2, <1>4, <1>5 DEF IInv

LEMMA ReceiveStep ==
  ASSUME IInv, NEW w \in Worker, Receive(w) PROVE IInv'
<1>1. Now' = Now /\ Version' = Version
  BY DEF Now, Version, Receive, fileVars
<1>2. TypeOK /\ pc[w] = "waiting" /\ UNCHANGED <<past, cloud, kind, opened, left>>
  BY DEF IInv, Receive, fileVars
<1>3. /\ pc' \in {[pc EXCEPT ![w] = a] : a \in {"done", "statting"}}
      /\ pc'[w] = "statting" => kind[w] # "whole"
      /\ sent' \in {sent, [sent EXCEPT ![w] = "no"]}
      /\ sent'[w] = "out" => pc'[w] = "done"
      /\ answer' \in {[answer EXCEPT ![w] = r] : r \in {"ok", "failed", "unconfirmed", answer[w]}}
  BY DEF IInv, TypeOK, Receive, Goto, End
<1>4. (Reset(w) /\ sent'[w] # "out") \/ UNCHANGED <<entries, hashes, new, taken>>
  BY <1>2 DEF Receive, batchVars, TypeOK
<1>5. /\ entries' \in [Worker -> Entries] /\ hashes' \in [Worker -> Digests]
      /\ new' \in [Worker -> Archive \cup {NoArchive}]
      /\ taken' \in [Worker -> BOOLEAN]
      /\ \A v \in Worker \ {w} : entries'[v] = entries[v] /\ new'[v] = new[v]
      /\ DOMAIN entries'[w] = {} \/ entries'[w] = entries[w]
      /\ sent'[w] = "out" => new'[w] = new[w]
  <2>1. CASE Reset(w) /\ sent'[w] # "out"
    BY <2>1, <1>2, ResetType
  <2>2. CASE UNCHANGED <<entries, hashes, new, taken>>
    BY <2>2, <1>2 DEF TypeOK
  <2>3. QED
    BY <1>4, <2>1, <2>2
<1>6. TypeOK'
  <2>1. pc' \in [Worker -> {"idle", "statting", "asking", "reading", "ready", "staging", "checking",
                            "comparing", "waiting", "replacing", "done"}]
    BY <1>2, <1>3 DEF TypeOK
  <2>2. sent' \in [Worker -> {"no", "out", "applied", "refused"}]
    BY <1>2, <1>3 DEF TypeOK
  <2>3. answer' \in [Worker -> {"none", "ok", "failed", "unconfirmed"}]
    <3>1. answer[w] \in {"none", "ok", "failed", "unconfirmed"}
      BY <1>2 DEF TypeOK
    <3>2. PICK r \in {"none", "ok", "failed", "unconfirmed"} : answer' = [answer EXCEPT ![w] = r]
      BY <3>1, <1>3
    <3>3. QED
      BY <3>2, <1>2 DEF TypeOK
  <2>4. QED
    BY <1>1, <1>2, <1>5, <2>1, <2>2, <2>3 DEF TypeOK
<1>7. ASSUME NEW v \in Worker PROVE Ordered(v)' /\ Ready(v)'
  <2>1. CASE v = w
    BY <2>1, <1>1, <1>2, <1>3, <1>5 DEF IInv, TypeOK, Ordered, Ready
  <2>2. CASE v # w
    <3>1. pc'[v] = pc[v] /\ sent'[v] = sent[v]
      BY <2>2, <1>2, <1>3 DEF TypeOK
    <3>2. QED
      BY <2>2, <3>1, <1>2, <1>5 DEF IInv, Ordered, Ready
  <2>3. QED
    BY <2>1, <2>2
<1>8. QED
  BY <1>2, <1>6, <1>7 DEF IInv

\* Installing an archive extends the history by one version.
LEMMA InstallType ==
  ASSUME TypeOK, NEW w \in Worker, Install(w), new[w] \in Archive
  PROVE  /\ past' \in Seq(Archive) /\ past' # <<>> /\ Now' = Now + 1 /\ Now \in Nat
         /\ taken' \in [Worker -> BOOLEAN] /\ cloud' = cloud /\ mine' = mine
         /\ opened \in [Worker -> [rev : Version', token : Version', baseline : Version', bytes : Version']]
<1>1. past \in Seq(Archive) /\ past' = Append(past, new[w])
  BY DEF TypeOK, Install
<1>2. past' \in Seq(Archive) /\ past' # <<>> /\ Now' = Now + 1 /\ Now \in Nat
  BY <1>1 DEF Now
<1>3. Version \subseteq Version'
  BY <1>2 DEF Version
<1>4. [Worker -> [rev : Version, token : Version, baseline : Version, bytes : Version]]
      \subseteq [Worker -> [rev : Version', token : Version', baseline : Version', bytes : Version']]
  BY <1>3
<1>5. QED
  BY <1>2, <1>3, <1>4 DEF TypeOK, Install

LEMMA ReplaceStep ==
  ASSUME IInv, NEW w \in Worker, Replace(w)
  PROVE  IInv' /\ opened[w].bytes = Now
<1>1. TypeOK /\ Install(w) /\ new[w] \in Archive /\ pc[w] = "replacing" /\ opened[w].rev = Now
  BY DEF IInv, Ready, Replace
<1>2. UNCHANGED <<kind, opened, entries, hashes, ops, new, sent, left>>
  BY DEF Replace, batchVars
<1>3. \/ pc' = [pc EXCEPT ![w] = "statting"] /\ answer' = answer
      \/ pc' = [pc EXCEPT ![w] = "done"] /\ answer' = [answer EXCEPT ![w] = "unconfirmed"]
  BY DEF Replace, Goto, End
<1>4. TypeOK'
  <2>1. pc' \in [Worker -> {"idle", "statting", "asking", "reading", "ready", "staging", "checking",
                            "comparing", "waiting", "replacing", "done"}]
    BY <1>1, <1>3 DEF TypeOK
  <2>2. answer' \in [Worker -> {"none", "ok", "failed", "unconfirmed"}]
    BY <1>1, <1>3 DEF TypeOK
  <2>3. /\ past' \in Seq(Archive) /\ taken' \in [Worker -> BOOLEAN] /\ cloud' = cloud
        /\ opened' \in [Worker -> [rev : Version', token : Version', baseline : Version', bytes : Version']]
    BY <1>1, <1>2, InstallType
  <2>4. QED
    BY <1>1, <1>2, <2>1, <2>2, <2>3 DEF TypeOK
<1>5. ASSUME NEW v \in Worker PROVE Ordered(v)' /\ Ready(v)'
  BY <1>1, <1>2, <1>3 DEF IInv, TypeOK, Ordered, Ready
<1>6. kind[w] # "whole" /\ opened[w].rev <= opened[w].bytes
  BY <1>1 DEF IInv, Ordered
<1>7. opened[w].bytes \in 0..Now /\ Now \in Nat
  BY <1>1 DEF TypeOK, Version, Now
<1>8. past' # <<>>
  BY <1>1, InstallType
<1>9. QED
  BY <1>1, <1>4, <1>5, <1>6, <1>7, <1>8 DEF IInv

LEMMA ProvideStep ==
  ASSUME IInv, NEW w \in Worker, Provide(w)
  PROVE  IInv' /\ (taken' # taken => Install(w) /\ opened[w].bytes = Now)
<1>1. TypeOK /\ new[w] \in Archive /\ sent[w] = "out"
  BY DEF IInv, Ready, Provide
<1>2. UNCHANGED <<pc, kind, opened, entries, hashes, ops, new, left, answer>>
  BY DEF Provide, batchVars
<1>3. CASE Matches(w) /\ Install(w) /\ sent' = [sent EXCEPT ![w] = "applied"]
  <2>1. TypeOK'
    <3>1. /\ past' \in Seq(Archive) /\ taken' \in [Worker -> BOOLEAN] /\ cloud' = cloud
          /\ opened' \in [Worker -> [rev : Version', token : Version', baseline : Version', bytes : Version']]
      BY <1>1, <1>2, <1>3, InstallType
    <3>2. QED
      BY <1>1, <1>2, <1>3, <3>1 DEF TypeOK
  <2>2. ASSUME NEW v \in Worker PROVE Ordered(v)' /\ Ready(v)'
    BY <1>1, <1>2, <1>3 DEF IInv, TypeOK, Ordered, Ready
  <2>3. opened[w].token = Now /\ opened[w].token <= opened[w].bytes
    BY <1>1, <1>3 DEF IInv, Ordered, Matches
  <2>4. opened[w].bytes \in 0..Now /\ Now \in Nat
    BY <1>1 DEF TypeOK, Version, Now
  <2>5. past' # <<>>
    BY <1>1, <1>3, InstallType
  <2>6. QED
    BY <1>3, <2>1, <2>2, <2>3, <2>4, <2>5 DEF IInv
<1>4. CASE sent' = [sent EXCEPT ![w] = "refused"] /\ UNCHANGED <<fileVars, histVars>>
  <2>1. Version' = Version /\ UNCHANGED <<past, cloud, taken, mine>>
    BY <1>4 DEF Version, Now, fileVars, histVars
  <2>2. TypeOK'
    BY <1>1, <1>2, <1>4, <2>1 DEF TypeOK
  <2>3. ASSUME NEW v \in Worker PROVE Ordered(v)' /\ Ready(v)'
    BY <1>1, <1>2, <1>4, <2>1 DEF IInv, TypeOK, Ordered, Ready
  <2>4. QED
    BY <2>1, <2>2, <2>3 DEF IInv
<1>5. QED
  BY <1>3, <1>4 DEF Provide

LEMMA OutsideStep ==
  ASSUME IInv, Outside PROVE IInv'
<1>1. PICK a \in Archive : past' = Append(past, a)
  BY ArchiveAssumption DEF Outside
<1>2. TypeOK /\ UNCHANGED <<cloud, pc, kind, opened, entries, hashes, ops, new, sent, left, answer, taken, mine>>
  BY DEF IInv, Outside, batchVars, histVars
<1>3. past' \in Seq(Archive) /\ past' # <<>> /\ Now' = Now + 1 /\ Now \in Nat
  BY <1>1, <1>2 DEF Now, TypeOK
<1>4. Version \subseteq Version'
  BY <1>3 DEF Version
<1>5. [Worker -> [rev : Version, token : Version, baseline : Version, bytes : Version]]
      \subseteq [Worker -> [rev : Version', token : Version', baseline : Version', bytes : Version']]
  BY <1>4
<1>6. TypeOK'
  BY <1>2, <1>3, <1>5 DEF TypeOK
<1>7. ASSUME NEW v \in Worker PROVE Ordered(v)' /\ Ready(v)'
  BY <1>2 DEF IInv, TypeOK, Ordered, Ready
<1>8. QED
  BY <1>3, <1>6, <1>7 DEF IInv

LEMMA RequestWholeStep ==
  ASSUME IInv, NEW w \in Worker, RequestWhole(w) PROVE IInv'
<1>1. Now \in Nat /\ Now' = Now /\ Version' = Version /\ 0 \in Version /\ 1..Now \subseteq Version
  BY DEF IInv, TypeOK, RequestWhole, Now, Version, fileVars
<1>2. PICK v \in 1..Now, a \in Archive :
        /\ opened' = [opened EXCEPT ![w] = [rev |-> v, token |-> 0, baseline |-> v, bytes |-> v]]
        /\ new' = [new EXCEPT ![w] = a]
  BY ArchiveAssumption DEF RequestWhole
<1>3. /\ TypeOK /\ pc[w] = "idle" /\ pc' = [pc EXCEPT ![w] = "checking"]
      /\ kind' = [kind EXCEPT ![w] = "whole"] /\ left > 0 /\ left' = left - 1
      /\ UNCHANGED <<past, cloud, entries, hashes, sent, answer, taken, mine>>
  BY DEF IInv, RequestWhole, Goto, fileVars, histVars
<1>4. TypeOK'
  <2>1. opened' \in [Worker -> [rev : Version, token : Version, baseline : Version, bytes : Version]]
    BY <1>1, <1>2, <1>3 DEF TypeOK
  <2>2. left' \in 0..MaxOps
    BY <1>3, ArchiveAssumption DEF TypeOK
  <2>3. QED
    BY <1>1, <1>2, <1>3, <2>1, <2>2 DEF TypeOK
<1>5. ASSUME NEW u \in Worker PROVE Ordered(u)' /\ Ready(u)'
  <2>1. opened'[w].bytes = opened'[w].rev
    BY <1>2, <1>3 DEF TypeOK
  <2>2. CASE u = w
    BY <2>1, <2>2, <1>2, <1>3 DEF IInv, TypeOK, Ordered, Ready
  <2>3. CASE u # w
    BY <2>3, <1>2, <1>3 DEF IInv, TypeOK, Ordered, Ready
  <2>4. QED
    BY <2>2, <2>3
<1>6. QED
  BY <1>3, <1>4, <1>5 DEF IInv

LEMMA OpenReadStep ==
  ASSUME IInv, NEW w \in Worker, OpenRead(w) PROVE IInv'
<1>1. Now' = Now /\ Version' = Version /\ UNCHANGED <<past, cloud, kind, sent, left>>
  BY DEF OpenRead, Now, Version, fileVars
<1>2. TypeOK /\ pc[w] = "reading" /\ kind[w] # "whole" /\ sent[w] # "out"
  BY DEF IInv, OpenRead, Ordered
<1>3. Now \in Nat /\ Now \in Version /\ Now # 0
  BY DEF IInv, TypeOK, Now, Version
<1>4. \/ /\ pc' = [pc EXCEPT ![w] = "ready"] /\ answer' = answer
         /\ opened' = [opened EXCEPT ![w].bytes = Now]
      \/ /\ pc' = [pc EXCEPT ![w] = "done"] /\ opened' = opened
         /\ \E r \in {"failed", "unconfirmed"} : answer' = [answer EXCEPT ![w] = r]
  <2>1. CASE CannotOpen(w, "reading")
    BY <2>1, <1>2 DEF CannotOpen, Doubt, End, Goto, TypeOK
  <2>2. CASE Goto(w, "reading", "ready") /\ opened' = [opened EXCEPT ![w].bytes = Now] /\ answer' = answer
    BY <2>2 DEF Goto
  <2>3. QED
    BY <2>1, <2>2 DEF OpenRead
<1>5. Reset(w) \/ UNCHANGED <<entries, hashes, new, taken>>
  BY DEF OpenRead, batchVars, histVars
<1>6. /\ entries' \in [Worker -> Entries] /\ hashes' \in [Worker -> Digests]
      /\ new' \in [Worker -> Archive \cup {NoArchive}]
      /\ taken' \in [Worker -> BOOLEAN]
      /\ \A v \in Worker \ {w} : entries'[v] = entries[v] /\ new'[v] = new[v]
      /\ DOMAIN entries'[w] = {} \/ entries'[w] = entries[w]
  BY <1>2, <1>5, ResetType DEF TypeOK
<1>7. TypeOK'
  <2>1. pc' \in [Worker -> {"idle", "statting", "asking", "reading", "ready", "staging", "checking",
                            "comparing", "waiting", "replacing", "done"}]
    BY <1>2, <1>4 DEF TypeOK
  <2>2. opened' \in [Worker -> [rev : Version, token : Version, baseline : Version, bytes : Version]]
    <3>1. CASE opened' = opened
      BY <3>1, <1>2 DEF TypeOK
    <3>2. CASE opened' = [opened EXCEPT ![w].bytes = Now]
      BY <3>2, <1>2, <1>3 DEF TypeOK
    <3>3. QED
      BY <1>4, <3>1, <3>2
  <2>3. answer' \in [Worker -> {"none", "ok", "failed", "unconfirmed"}]
    BY <1>2, <1>4 DEF TypeOK
  <2>4. QED
    BY <1>1, <1>2, <1>6, <2>1, <2>2, <2>3 DEF TypeOK
<1>8. ASSUME NEW v \in Worker PROVE Ordered(v)' /\ Ready(v)'
  <2>1. CASE v = w
    <3>1. pc'[w] \in {"ready", "done"}
      BY <1>2, <1>4 DEF TypeOK
    <3>2. CASE pc'[w] = "ready"
      <4>1. opened' = [opened EXCEPT ![w].bytes = Now]
        BY <3>2, <1>2, <1>4 DEF TypeOK
      <4>2. opened \in [Worker -> [rev : 0..Now, token : 0..Now, baseline : 0..Now, bytes : 0..Now]]
        BY <1>2 DEF TypeOK, Version
      <4>3. opened'[w].bytes = Now /\ opened'[w].rev \in 0..Now /\ opened'[w].token \in 0..Now
        BY <4>1, <4>2
      <4>4. QED
        BY <2>1, <3>2, <4>3, <1>1, <1>2, <1>3, <1>6 DEF IInv, Ordered, Ready
    <3>3. CASE pc'[w] = "done"
      BY <2>1, <3>3, <1>1, <1>2, <1>6 DEF IInv, Ordered, Ready
    <3>4. QED
      BY <3>1, <3>2, <3>3
  <2>2. CASE v # w
    <3>1. pc'[v] = pc[v] /\ opened'[v] = opened[v]
      BY <2>2, <1>2, <1>4 DEF TypeOK
    <3>2. QED
      BY <2>2, <3>1, <1>1, <1>6 DEF IInv, Ordered, Ready
  <2>3. QED
    BY <2>1, <2>2
<1>9. QED
  BY <1>1, <1>7, <1>8 DEF IInv

LEMMA BeginStep ==
  ASSUME IInv, NEW w \in Worker, Begin(w) PROVE IInv'
<1>1. /\ Now' = Now /\ Version' = Version
      /\ UNCHANGED <<past, cloud, kind, opened, hashes, ops, new, sent, left, answer, taken, mine>>
  BY DEF Begin, Now, Version, fileVars, histVars
<1>2. TypeOK /\ pc[w] = "ready" /\ pc' = [pc EXCEPT ![w] = "staging"]
      /\ entries' = [entries EXCEPT ![w] = Listing(w)]
  BY DEF IInv, Begin, Goto
<1>3. Listing(w) \in Entries
  <2>1. opened[w].bytes \in 1..Len(past)
    BY <1>2 DEF IInv, TypeOK, Ordered, Version, Now
  <2>2. past[opened[w].bytes] \in Archive
    BY <1>2, <2>1 DEF TypeOK
  <2>3. QED
    BY <2>2, IndexType DEF Listing
<1>4. Root \in DOMAIN Listing(w) => Listing(w)[Root].index # "staged"
  BY DEF Listing, Index
<1>5. TypeOK'
  BY <1>1, <1>2, <1>3 DEF TypeOK
<1>6. ASSUME NEW v \in Worker PROVE Ordered(v)' /\ Ready(v)'
  <2>1. CASE v = w
    BY <2>1, <1>1, <1>2, <1>4 DEF IInv, TypeOK, Ordered, Ready
  <2>2. CASE v # w
    BY <2>2, <1>1, <1>2 DEF IInv, TypeOK, Ordered, Ready
  <2>3. QED
    BY <2>1, <2>2
<1>7. QED
  BY <1>1, <1>5, <1>6 DEF IInv

\* What both kinds of staging leave alone.
LEMMA StagingStep ==
  ASSUME IInv, NEW w \in Worker, pc[w] = "staging", NEW es \in Entries, NEW ds \in Digests,
         UNCHANGED <<past, cloud, pc, kind, opened, new, sent, answer, taken>>,
         left > 0, left' = left - 1,
         entries' = [entries EXCEPT ![w] = es], hashes' = [hashes EXCEPT ![w] = ds],
         Root \in DOMAIN es => es[Root].index # "staged"
  PROVE  IInv'
<1>1. Now' = Now /\ Version' = Version /\ TypeOK
  BY DEF IInv, Now, Version
<1>2. left' \in 0..MaxOps
  BY <1>1, ArchiveAssumption DEF TypeOK
<1>3. TypeOK'
  BY <1>1, <1>2 DEF TypeOK
<1>4. ASSUME NEW v \in Worker PROVE Ordered(v)' /\ Ready(v)'
  BY <1>1 DEF IInv, TypeOK, Ordered, Ready
<1>5. QED
  BY <1>3, <1>4 DEF IInv

LEMMA StageWriteStep ==
  ASSUME IInv, NEW w \in Worker, StageWrite(w) PROVE IInv'
<1>1. PICK p \in Path, x \in {w, Folder} :
        /\ entries' = [entries EXCEPT ![w] =
             [q \in DOMAIN @ \cup {p} |-> IF q = p THEN [index |-> "staged", is |-> x] ELSE @[q]]]
        /\ hashes' = [hashes EXCEPT ![w] =
             IF x = Folder THEN @ ELSE [q \in DOMAIN @ \cup {p} |-> IF q = p THEN x ELSE @[q]]]
        /\ left > 0 /\ left' = left - 1
  BY DEF StageWrite, Log
<1>2. /\ pc[w] = "staging" /\ TypeOK
      /\ UNCHANGED <<past, cloud, pc, kind, opened, new, sent, answer, taken>>
  BY DEF IInv, StageWrite, fileVars, histVars
<1> DEFINE row == [index |-> "staged", is |-> x]
           es == [q \in DOMAIN entries[w] \cup {p} |-> IF q = p THEN row ELSE entries[w][q]]
           ds == IF x = Folder THEN hashes[w]
                 ELSE [q \in DOMAIN hashes[w] \cup {p} |-> IF q = p THEN x ELSE hashes[w][q]]
<1>3. entries[w] \in Entries /\ hashes[w] \in Digests
  BY <1>2 DEF TypeOK
<1>4. es \in Entries
  <2>1. row \in Row /\ p \in Path \cup {Root}
    BY DEF Row, Content
  <2> HIDE DEF row
  <2>2. QED
    BY <1>3, <2>1, AddRow
<1>5. ds \in Digests
  <2>1. CASE x = Folder
    BY <1>3, <2>1
  <2>2. CASE x # Folder
    <3>1. x \in Worker
      BY <2>2
    <3>2. [q \in DOMAIN hashes[w] \cup {p} |-> IF q = p THEN x ELSE hashes[w][q]] \in Digests
      BY <1>3, <3>1, AddDigest
    <3>3. QED
      BY <2>2, <3>2
  <2>3. QED
    BY <2>1, <2>2
<1>6. Root \in DOMAIN es => es[Root].index # "staged"
  <2>1. p # Root
    BY ArchiveAssumption
  <2>2. Root \in DOMAIN entries[w] => entries[w][Root].index # "staged"
    BY DEF IInv, Ready
  <2>3. QED
    BY <2>1, <2>2
<1>7. entries' = [entries EXCEPT ![w] = es] /\ hashes' = [hashes EXCEPT ![w] = ds]
  BY <1>1
<1> HIDE DEF es, ds
<1>8. QED
  BY <1>1, <1>2, <1>4, <1>5, <1>6, <1>7, StagingStep

LEMMA StageDeleteStep ==
  ASSUME IInv, NEW w \in Worker, StageDelete(w) PROVE IInv'
<1>1. PICK p \in Path :
        /\ entries' = [entries EXCEPT ![w] = Without(@, p)]
        /\ hashes' = [hashes EXCEPT ![w] = Without(@, p)]
        /\ left > 0 /\ left' = left - 1
  BY DEF StageDelete, Log
<1>2. /\ pc[w] = "staging" /\ TypeOK
      /\ UNCHANGED <<past, cloud, pc, kind, opened, new, sent, answer, taken>>
  BY DEF IInv, StageDelete, fileVars, histVars
<1>3. entries[w] \in Entries /\ hashes[w] \in Digests
  BY <1>2 DEF TypeOK
<1>4. Without(entries[w], p) \in Entries
  BY <1>3, WithoutType DEF Entries
<1>5. Without(hashes[w], p) \in Digests
  BY <1>3, WithoutType DEF Digests
<1>6. Root \in DOMAIN Without(entries[w], p) => Without(entries[w], p)[Root].index # "staged"
  BY DEF Without, IInv, Ready
<1>7. QED
  BY <1>1, <1>2, <1>4, <1>5, <1>6, StagingStep

LEMMA CommitStep ==
  ASSUME IInv, NEW w \in Worker, Commit(w) PROVE IInv'
<1>1. /\ Now' = Now /\ Version' = Version
      /\ UNCHANGED <<past, cloud, kind, opened, sent, left, answer, mine>>
  BY DEF Commit, Now, Version, fileVars
<1>2. TypeOK /\ pc[w] = "staging"
  BY DEF IInv, Commit
<1> DEFINE made == Rewrite(past[opened[w].bytes], Removed(Listing(w), entries[w]), Added(entries[w]), entries[w])
<1>3. made \in Archive
  <2>1. opened[w].bytes \in 1..Len(past)
    BY <1>2 DEF IInv, TypeOK, Ordered, Version, Now
  <2>2. past[opened[w].bytes] \in Archive /\ entries[w] \in Entries
    BY <1>2, <2>1 DEF TypeOK
  <2>3. Root \in DOMAIN entries[w] => entries[w][Root].index # "staged"
    BY DEF IInv, Ready
  <2>4. QED
    BY <2>2, <2>3, RewriteType
<1>4. \/ pc' = [pc EXCEPT ![w] = "ready"] /\ Reset(w)
      \/ /\ \E a \in {"comparing", "replacing"} : pc' = [pc EXCEPT ![w] = a]
         /\ new' = [new EXCEPT ![w] = made] /\ UNCHANGED <<entries, hashes, ops, taken>>
  BY DEF Commit, Goto, batchVars
<1> HIDE DEF made
<1>5. CASE pc' = [pc EXCEPT ![w] = "ready"] /\ Reset(w)
  <2>1. TypeOK'
    BY <1>1, <1>2, <1>5, ResetType DEF TypeOK
  <2>2. ASSUME NEW v \in Worker PROVE Ordered(v)' /\ Ready(v)'
    BY <1>1, <1>2, <1>5, ResetType DEF IInv, TypeOK, Ordered, Ready
  <2>3. QED
    BY <1>1, <2>1, <2>2 DEF IInv
<1>6. CASE /\ \E a \in {"comparing", "replacing"} : pc' = [pc EXCEPT ![w] = a]
           /\ new' = [new EXCEPT ![w] = made] /\ UNCHANGED <<entries, hashes, ops, taken>>
  <2>1. TypeOK'
    BY <1>1, <1>2, <1>3, <1>6 DEF TypeOK
  <2>2. ASSUME NEW v \in Worker PROVE Ordered(v)' /\ Ready(v)'
    BY <1>1, <1>2, <1>3, <1>6 DEF IInv, TypeOK, Ordered, Ready
  <2>3. QED
    BY <1>1, <2>1, <2>2 DEF IInv
<1>7. QED
  BY <1>4, <1>5, <1>6

-----------------------------------------------------------------------------

LEMMA StepInv == IInv /\ [Next]_vars => IInv'
<1> SUFFICES ASSUME IInv, [Next]_vars PROVE IInv'
  OBVIOUS
<1>1. CASE UNCHANGED vars
  <2>1. UNCHANGED <<past, cloud, pc, kind, opened, entries, hashes, ops, new, sent, left, answer, taken, mine>>
    BY <1>1 DEF vars, fileVars, batchVars, histVars
  <2>2. Version' = Version
    BY <2>1 DEF Version, Now
  <2>3. QED
    BY <2>1, <2>2 DEF IInv, TypeOK, Ordered, Ready
<1>2. CASE Outside
  BY <1>2, OutsideStep
<1>3. ASSUME NEW w \in Worker,
             \/ Request(w) \/ RequestWhole(w) \/ CheckWhole(w)
             \/ OpenStat(w) \/ OpenToken(w) \/ OpenRead(w) \/ Finish(w)
             \/ Begin(w) \/ StageWrite(w) \/ StageDelete(w) \/ Abandon(w) \/ Commit(w)
             \/ Replace(w) \/ Compare(w) \/ Provide(w) \/ Receive(w)
      PROVE  IInv'
  BY <1>3, QuietStep, RequestWholeStep, OpenReadStep, BeginStep, StageWriteStep, StageDeleteStep,
     AbandonStep, CommitStep, ReplaceStep, ProvideStep, ReceiveStep
<1>4. QED
  BY <1>1, <1>2, <1>3 DEF Next

THEOREM Invariance == Spec => []IInv
<1>1. QED
  BY InitInv, StepInv, PTL DEF Spec

\* Types of every variable that the code keeps.
THEOREM Typing == Spec => []TypeOK
<1>1. IInv => TypeOK
  BY DEF IInv
<1>2. QED
  BY <1>1, Invariance, PTL

\* Only a replacement installs an archive, and the version that its bytes were read
\* from is the one it replaces (ReplaceArchive of localfs and of cloudfs).
LEMMA WhoInstalls ==
  ASSUME IInv, Next, NEW w \in Worker, Installs(w)
  PROVE  (Replace(w) \/ Provide(w)) /\ Install(w) /\ opened[w].bytes = Now
<1>1. TypeOK
  BY DEF IInv
<1>2. CASE Outside
  BY <1>2 DEF Outside, Installs, histVars
<1>3. ASSUME NEW v \in Worker, Replace(v)
      PROVE  Replace(w) /\ Install(w) /\ opened[w].bytes = Now
  <2>1. v = w
    BY <1>1, <1>3 DEF Replace, Install, Installs, TypeOK
  <2>2. QED
    BY <1>3, <2>1, ReplaceStep DEF Replace
<1>4. ASSUME NEW v \in Worker, Provide(v)
      PROVE  Provide(w) /\ Install(w) /\ opened[w].bytes = Now
  <2>1. taken' # taken
    BY DEF Installs
  <2>2. v = w
    BY <1>1, <1>4, <2>1, ProvideStep DEF Install, Installs, TypeOK
  <2>3. QED
    BY <1>4, <2>1, <2>2, ProvideStep
<1>5. ASSUME NEW v \in Worker,
             \/ Request(v) \/ RequestWhole(v) \/ CheckWhole(v)
             \/ OpenStat(v) \/ OpenToken(v) \/ Finish(v)
             \/ Begin(v) \/ StageWrite(v) \/ StageDelete(v) \/ Compare(v)
      PROVE  FALSE
  <2>1. ASSUME Request(v) \/ RequestWhole(v) \/ CheckWhole(v) PROVE taken' = taken
    BY <2>1 DEF Request, RequestWhole, CheckWhole, histVars
  <2>2. ASSUME OpenStat(v) \/ OpenToken(v) \/ Finish(v) PROVE taken' = taken
    BY <2>2 DEF OpenStat, OpenToken, Finish, histVars
  <2>3. ASSUME Begin(v) \/ StageWrite(v) \/ StageDelete(v) PROVE taken' = taken
    BY <2>3 DEF Begin, StageWrite, StageDelete, histVars
  <2>4. ASSUME Compare(v) PROVE taken' = taken
    BY <2>4 DEF Compare, histVars
  <2>5. taken' = taken
    BY <1>5, <2>1, <2>2, <2>3, <2>4
  <2>6. QED
    BY <2>5 DEF Installs
<1>6. ASSUME NEW v \in Worker, OpenRead(v) \/ Abandon(v) \/ Commit(v) \/ Receive(v) PROVE FALSE
  <2>1. taken' = taken \/ taken' = [taken EXCEPT ![v] = FALSE]
    BY <1>6 DEF OpenRead, Abandon, Commit, Receive, Reset, histVars
  <2>2. QED
    BY <1>1, <2>1 DEF Installs, TypeOK
<1>7. QED
  BY <1>2, <1>3, <1>4, <1>5, <1>6 DEF Next

\* Whoever else replaces the archive, and however late the provider acts on a
\* request: what is installed was made from the version it replaces (edit.go,
\* "Publish only after verification, using the revision of the opened archive").
THEOREM UpdatesAreNeverLost == Spec => NoLostUpdate
<1>1. IInv /\ [Next]_vars => [\A w \in Worker : Installs(w) => opened[w].bytes = Now]_vars
  BY WhoInstalls
<1>2. QED
  BY <1>1, Invariance, PTL DEF Spec, NoLostUpdate

-----------------------------------------------------------------------------
(* Paths, and the folders above them. *)

\* Where something can be listed.
Place == Path \cup {Root}

\* Places are sequences of names.
LEMMA PlaceSeq == Place \subseteq Seq(STRING)
  BY ArchiveAssumption, EmptySeq DEF Place, Root

\* A path is below itself (isWithin in batch.stage).
LEMMA PrefixRefl == ASSUME NEW p \in Place PROVE IsPrefix(p, p)
  BY PlaceSeq DEF IsPrefix

\* What a folder above a path is, name by name.
LEMMA AboveIs ==
  ASSUME NEW p \in Place, NEW i \in 0..(Len(p) - 1)
  PROVE  /\ SubSeq(p, 1, i) \in Seq(STRING) /\ Len(SubSeq(p, 1, i)) = i
         /\ \A k \in 1..i : SubSeq(p, 1, i)[k] = p[k]
<1>1. p \in Seq(STRING) /\ Len(p) \in Nat /\ i \in Int /\ 1 \in Int
  BY PlaceSeq
<1>2. \A k \in 1..i : p[k] \in STRING
  BY <1>1
<1>3. QED
  BY <1>1, <1>2, SubSeqProperties

\* A folder above a folder above a path is above the path.
LEMMA AboveOfAbove ==
  ASSUME NEW p \in Place, NEW q \in Above(p) PROVE Above(q) \subseteq Above(p)
<1>1. PICK i \in 0..(Len(p) - 1) : q = SubSeq(p, 1, i)
  BY DEF Above
<1>2. p \in Seq(STRING) /\ Len(p) \in Nat
  BY PlaceSeq
<1>3. Len(q) = i /\ q \in Seq(STRING)
  BY <1>1, AboveIs
<1>4. ASSUME NEW j \in 0..(Len(q) - 1) PROVE SubSeq(q, 1, j) = SubSeq(p, 1, j)
  <2>1. j \in 0..(Len(p) - 1)
     BY <1>2, <1>3
  <2>2. CASE j = 0
     BY <2>2, SubSeqEmpty, <1>2, <1>3
  <2>3. CASE j # 0
    BY <2>1, <2>3, <1>1, <1>2, <1>3, SubSeqOfSubSeq
  <2>4. QED BY <2>2, <2>3
<1>5. ASSUME NEW j \in 0..(Len(q) - 1) PROVE j \in 0..(Len(p) - 1)
  BY <1>2, <1>3
<1>6. ASSUME NEW r \in Above(q) PROVE r \in Above(p)
  <2>1. PICK j \in 0..(Len(q) - 1) : r = SubSeq(q, 1, j)
    BY DEF Above
  <2>2. r = SubSeq(p, 1, j) /\ j \in 0..(Len(p) - 1)
    BY <1>4, <1>5, <2>1
  <2>3. QED
    BY <2>2 DEF Above
<1>7. QED
  BY <1>6

\* What is above a folder above a path is above the path.
LEMMA PrefixOfAbove ==
  ASSUME NEW p \in Place, NEW q \in Above(p), NEW r, IsPrefix(r, q), Len(r) \in Nat PROVE IsPrefix(r, p)
<1>1. PICK i \in 0..(Len(p) - 1) : q = SubSeq(p, 1, i)
  BY DEF Above
<1>2. p \in Seq(STRING) /\ Len(p) \in Nat
  BY PlaceSeq
<1>3. Len(q) = i /\ q \in Seq(STRING)
  BY <1>1, AboveIs
<1>4. Len(r) \in 0..i
  BY <1>2, <1>3 DEF IsPrefix
<1>5. SubSeq(q, 1, Len(r)) = SubSeq(p, 1, Len(r))
  <2>1. CASE Len(r) = 0
     BY <2>1, SubSeqEmpty, <1>2, <1>3
  <2>2. CASE Len(r) # 0
    BY <2>2, <1>1, <1>2, <1>3, <1>4, SubSeqOfSubSeq
  <2>3. QED BY <2>1, <2>2
<1>6. QED
  BY <1>2, <1>3, <1>4, <1>5 DEF IsPrefix

\* The folders above a path are its parent and those above its parent.
LEMMA AboveOfFront ==
  ASSUME NEW p \in Path
  PROVE  /\ Front(p) \in Above(p)
         /\ Above(p) = Above(Front(p)) \cup {Front(p)}
         /\ Front(p) \in Place
<1>1. p \in Seq(STRING) /\ Len(p) \in Nat \ {0} /\ p \in Place
  BY ArchiveAssumption DEF Root, Place
<1>2. Front(p) \in Above(p)
  BY <1>1 DEF Front, Above
<1>3. Len(Front(p)) = Len(p) - 1
  <2>1. Len(p) - 1 \in 0..(Len(p) - 1)
    BY <1>1
  <2>2. QED
    BY <1>1, <2>1, AboveIs DEF Front
<1>4. ASSUME NEW j \in 0..(Len(p) - 1) PROVE j = Len(p) - 1 \/ j \in 0..(Len(Front(p)) - 1)
  BY <1>1, <1>3
<1>5. ASSUME NEW j \in 0..(Len(p) - 2) PROVE SubSeq(Front(p), 1, j) = SubSeq(p, 1, j)
  <2>1. CASE j = 0
     BY <2>1, SubSeqEmpty, <1>1
  <2>2. CASE j # 0
    BY <2>2, <1>1, <1>3, SubSeqOfSubSeq DEF Front
  <2>3. QED BY <2>1, <2>2
<1>6. Above(p) \subseteq Above(Front(p)) \cup {Front(p)}
  BY <1>1, <1>3, <1>5 DEF Above, Front
<1>7. QED
  BY <1>1, <1>2, <1>6, AboveOfAbove, ArchiveAssumption DEF Place

\* The root has nothing above it, and is above every path.
LEMMA RootHasNoneAbove == Above(Root) = {} /\ (\A p \in Path : Root \in Above(p))
<1>1. ASSUME NEW p \in Path PROVE Root = SubSeq(p, 1, 0) /\ 0 \in 0..(Len(p) - 1)
  BY ArchiveAssumption, SubSeqEmpty DEF Root
<1>2. QED
  BY <1>1 DEF Above, Root

-----------------------------------------------------------------------------
(* The course of a batch of operations. *)

\* A set of numbers that is not empty has a least one: it is the one whose initial
\* segment is minimal among finite sets.
LEMMA LeastNumber ==
  ASSUME NEW N \in SUBSET Nat, N # {} PROVE \E n \in N : \A m \in N : n <= m
<1> DEFINE T == {0..n : n \in N}
<1>1. T \subseteq FiniteSubsetsOf(Nat) /\ T # {}
  <2>1. ASSUME NEW n \in N PROVE 0..n \in FiniteSubsetsOf(Nat)
    <3>1. 0 \in Int /\ n \in Int /\ 0..n \in SUBSET Nat
      OBVIOUS
    <3>2. IsFiniteSet(0..n)
      BY <3>1, FS_Interval
    <3>3. QED
      BY <3>1, <3>2 DEF FiniteSubsetsOf
  <2>2. QED
    BY <2>1
<1>2. PICK I \in T : \A J \in T : <<J, I>> \notin StrictSubsetOrdering(Nat)
  <2> HIDE DEF T
  <2>1. QED
    BY <1>1, FS_StrictSubsetOrderingWellFounded, WFMin, Zenon
<1>3. PICK n \in N : I = 0..n
  BY <1>2
<1>4. ASSUME NEW m \in N, m < n PROVE FALSE
  <2>1. 0..m \in T /\ 0..m \subseteq 0..n /\ n \in 0..n /\ n \notin 0..m
    BY <1>4
  <2>2. 0..m \in SUBSET Nat /\ 0..n \in SUBSET Nat
    OBVIOUS
  <2>3. QED
    BY <1>2, <1>3, <2>1, <2>2 DEF StrictSubsetOrdering
<1>5. QED
  BY <1>4

\* The trees that a batch leads through, one operation after the other.
IsCourse(f, t, s) == f = [i \in 0..Len(s) |-> IF i = 0 THEN t ELSE Abstract!Do(f[i - 1], s[i])]

\* A course is extended by one operation more.
LEMMA CourseExtends ==
  ASSUME NEW S, NEW t, NEW s \in Seq(S), NEW o \in S, NEW f, IsCourse(f, t, s)
  PROVE  IsCourse([i \in 0..(Len(s) + 1) |-> IF i <= Len(s) THEN f[i] ELSE Abstract!Do(f[i - 1], o)],
                  t, Append(s, o))
<1> DEFINE g == [i \in 0..(Len(s) + 1) |-> IF i <= Len(s) THEN f[i] ELSE Abstract!Do(f[i - 1], o)]
           r == Append(s, o)
<1>1. Len(r) = Len(s) + 1 /\ Len(s) \in Nat /\ r[Len(s) + 1] = o /\ \A i \in 1..Len(s) : r[i] = s[i]
  BY AppendProperties
<1>2. ASSUME NEW i \in 0..(Len(s) + 1) PROVE g[i] = IF i = 0 THEN t ELSE Abstract!Do(g[i - 1], r[i])
  <2>1. CASE i = 0
    BY <1>1, <2>1 DEF IsCourse
  <2>2. CASE i \in 1..Len(s)
    <3>1. g[i] = f[i] /\ g[i - 1] = f[i - 1] /\ r[i] = s[i]
      BY <1>1, <2>2
    <3>2. f[i] = Abstract!Do(f[i - 1], s[i])
      BY <1>1, <2>2 DEF IsCourse
    <3>3. QED
      BY <3>1, <3>2, <2>2
  <2>3. CASE i = Len(s) + 1
    <3>1. g[i] = Abstract!Do(f[i - 1], o) /\ g[i - 1] = f[i - 1] /\ r[i] = o
      BY <1>1, <2>3
    <3>2. QED
      BY <3>1, <2>3, <1>1
  <2>4. QED
    BY <2>1, <2>2, <2>3, <1>1
<1> HIDE DEF g, r
<1>3. g = [i \in 0..Len(r) |-> IF i = 0 THEN t ELSE Abstract!Do(g[i - 1], r[i])]
  <2>1. g = [i \in 0..(Len(s) + 1) |-> g[i]]
    BY DEF g
  <2>2. QED BY <1>1, <1>2, <2>1
<1>4. QED
  BY <1>3 DEF IsCourse, g, r

\* Every batch has a course: if not, take its shortest beginning that has none.
LEMMA CourseExists ==
  ASSUME NEW S, NEW t, NEW s \in Seq(S)
  PROVE  \E f : IsCourse(f, t, s)
<1> DEFINE N == {n \in 0..Len(s) : ~\E f : IsCourse(f, t, SubSeq(s, 1, n))}
<1>0. Len(s) \in Nat /\ Len(s) \in 0..Len(s) /\ SubSeq(s, 1, Len(s)) = s
  BY SubSeqFull
<1>1. SUFFICES ASSUME N # {} PROVE FALSE
  <2>1. ASSUME N = {} PROVE \E f : IsCourse(f, t, SubSeq(s, 1, Len(s)))
    BY <1>0, <2>1
  <2>2. QED
    BY <1>0, <2>1
<1>2. PICK n \in N : \A m \in N : n <= m
  <2>1. N \in SUBSET Nat
    BY <1>0
  <2> HIDE DEF N
  <2>2. QED
    BY <1>1, <2>1, LeastNumber
<1>3. n # 0
  <2>1. IsCourse([i \in 0..0 |-> t], t, <<>>)
    BY DEF IsCourse
  <2>2. SubSeq(s, 1, 0) = <<>>
    BY SubSeqEmpty
  <2>3. QED
    BY <2>1, <2>2
<1>4. n \in 1..Len(s) /\ n - 1 \in 0..Len(s) /\ n - 1 \notin N
  BY <1>2, <1>3
<1>5. PICK f : IsCourse(f, t, SubSeq(s, 1, n - 1))
  BY <1>4
<1>6. SubSeq(s, 1, n) = Append(SubSeq(s, 1, n - 1), s[n]) /\ SubSeq(s, 1, n - 1) \in Seq(S) /\ s[n] \in S
  <2>1. \A i \in 1..(n - 1) : s[i] \in S
    BY <1>4
  <2>2. SubSeq(s, 1, n - 1) \in Seq(S)
    BY <1>4, <2>1, SubSeqProperties
  <2>3. SubSeq(s, 1, n) = SubSeq(s, 1, n - 1) \o << s[n] >>
    BY <1>4, SubSeqRecursiveSecond
  <2>4. QED
    BY <1>4, <2>2, <2>3, AppendIsConcat
<1>7. \E g : IsCourse(g, t, SubSeq(s, 1, n))
  BY <1>5, <1>6, CourseExtends
<1>8. QED
  BY <1>7

\* AtomicArchive!Course is the course it chooses.
LEMMA CourseIs ==
  ASSUME NEW S, NEW t, NEW s \in Seq(S) PROVE IsCourse(Abstract!Course(t, s), t, s)
  BY CourseExists DEF IsCourse, Abstract!Course

\* The courses of a batch and of that batch with one operation more agree up to it: if
\* not, take the first place where they differ.
LEMMA CourseOfOneMore ==
  ASSUME NEW S, NEW t, NEW s \in Seq(S), NEW o \in S, NEW f, NEW g,
         IsCourse(f, t, s), IsCourse(g, t, Append(s, o))
  PROVE  g[Len(s) + 1] = Abstract!Do(f[Len(s)], o)
<1>1. PICK n \in Nat : n = Len(s)
  OBVIOUS
<1>2. PICK r \in Seq(S) : r = Append(s, o)
  BY AppendProperties
<1>3. Len(r) = n + 1 /\ r[n + 1] = o /\ \A i \in 1..n : r[i] = s[i]
  BY <1>1, <1>2, AppendProperties
<1>4. \A i \in 0..n : f[i] = IF i = 0 THEN t ELSE Abstract!Do(f[i - 1], s[i])
  BY <1>1 DEF IsCourse
<1>5. \A i \in 0..(n + 1) : g[i] = IF i = 0 THEN t ELSE Abstract!Do(g[i - 1], r[i])
  BY <1>2, <1>3, Zenon DEF IsCourse
<1>6. f[0] = t /\ g[0] = t
  BY <1>4, <1>5
<1>7. \A i \in 1..n : f[i] = Abstract!Do(f[i - 1], s[i]) /\ g[i] = Abstract!Do(g[i - 1], s[i])
  BY <1>3, <1>4, <1>5
<1>8. f[n] = g[n]
  <2> DEFINE N == {i \in 0..n : f[i] # g[i]}
  <2>1. SUFFICES ASSUME N # {} PROVE FALSE
    OBVIOUS
  <2>2. N \in SUBSET Nat
    OBVIOUS
  <2>3. PICK i \in N : \A j \in N : i <= j
    <3> HIDE DEF N
    <3>1. QED
      BY <2>1, <2>2, LeastNumber
  <2>4. i # 0
    BY <1>6
  <2>5. i \in 1..n /\ i - 1 \in 0..n /\ i - 1 \notin N
    BY <2>3, <2>4
  <2>6. QED
    BY <1>7, <2>5
<1>9. g[n + 1] = Abstract!Do(g[n], o)
  BY <1>3, <1>5
<1>10. QED
  BY <1>1, <1>8, <1>9

\* What AtomicArchive promises of a batch is what it promises operation by operation.
LEMMA DoAllUnfolds ==
  ASSUME NEW S, NEW t, NEW s \in Seq(S), NEW o \in S
  PROVE  /\ Abstract!DoAll(t, <<>>) = t
         /\ Abstract!DoAll(t, Append(s, o)) = Abstract!Do(Abstract!DoAll(t, s), o)
<1>1. Abstract!DoAll(t, <<>>) = t
  <2>1. IsCourse(Abstract!Course(t, <<>>), t, <<>>)
    BY CourseIs, EmptySeq
  <2>2. QED
    BY <2>1 DEF IsCourse, Abstract!DoAll
<1>2. Append(s, o) \in Seq(S) /\ Len(Append(s, o)) = Len(s) + 1
  BY AppendProperties
<1>3. IsCourse(Abstract!Course(t, s), t, s) /\ IsCourse(Abstract!Course(t, Append(s, o)), t, Append(s, o))
  BY <1>2, CourseIs
<1>4. Abstract!Course(t, Append(s, o))[Len(s) + 1] = Abstract!Do(Abstract!Course(t, s)[Len(s)], o)
  BY <1>3, CourseOfOneMore
<1>5. QED
  BY <1>1, <1>2, <1>4 DEF Abstract!DoAll

-----------------------------------------------------------------------------
(* Listings, and what the archiver makes of staged entries. *)

\* What is staged of the listing of ms: rows of it, rows that were written, and the
\* folders above each of them.
StagedOn(ms, after) ==
  /\ Root \in DOMAIN after
  /\ \A p \in DOMAIN after : Above(p) \subseteq DOMAIN after
  /\ \A p \in DOMAIN after :
       after[p].index # "staged" => p \in DOMAIN Index(ms) /\ after[p] = Index(ms)[p]

\* What the listing of an archive holds (folderArchive.index).
LEMMA IndexIs ==
  ASSUME NEW ms \in Archive
  PROVE  /\ DOMAIN ms \subseteq Path
         /\ \A p : p \in DOMAIN Index(ms) <=> p = Root \/ p \in DOMAIN ms \/ \E q \in DOMAIN ms : p \in Above(q)
         /\ \A p \in DOMAIN ms : Index(ms)[p] = [index |-> "member", is |-> ms[p]]
         /\ \A p \in DOMAIN Index(ms) \ DOMAIN ms : Index(ms)[p] = [index |-> "implied", is |-> Folder]
<1>1. PICK P \in SUBSET Path : ms \in [P -> Content]
  BY DEF Archive
<1>2. DOMAIN Index(ms) = {Root} \cup DOMAIN ms \cup UNION {Above(q) : q \in DOMAIN ms}
  BY DEF Index
<1>3. \A p \in DOMAIN Index(ms) :
        Index(ms)[p] = IF p \in DOMAIN ms THEN [index |-> "member", is |-> ms[p]]
                                          ELSE [index |-> "implied", is |-> Folder]
  BY DEF Index
<1>4. \A p : p \in DOMAIN Index(ms) <=> p = Root \/ p \in DOMAIN ms \/ \E q \in DOMAIN ms : p \in Above(q)
  BY <1>2
<1>5. QED
  BY <1>1, <1>3, <1>4

\* The entries that a batch starts from are staged of what was listed.
LEMMA FreshCopy ==
  ASSUME NEW ms \in Archive PROVE StagedOn(ms, Index(ms))
<1>1. ASSUME NEW p \in DOMAIN Index(ms) PROVE Above(p) \subseteq DOMAIN Index(ms)
  <2>1. CASE p = Root
    BY <2>1, RootHasNoneAbove
  <2>2. CASE p \in DOMAIN ms
    BY <2>2, IndexIs
  <2>3. CASE \E q \in DOMAIN ms : p \in Above(q)
    <3>1. PICK q \in DOMAIN ms : p \in Above(q)
      BY <2>3
    <3>2. q \in Place
      BY IndexIs DEF Place
    <3>3. QED
      BY <3>1, <3>2, AboveOfAbove, IndexIs
  <2>4. QED
    BY <2>1, <2>2, <2>3, IndexIs
<1>2. QED
  BY <1>1, IndexIs DEF StagedOn

\* Writing a file or folder in a folder that is listed keeps them so (batch.stage).
LEMMA WrittenCopy ==
  ASSUME NEW ms \in Archive, NEW es \in Entries, StagedOn(ms, es),
         NEW p \in Path, Front(p) \in DOMAIN es, NEW r \in Row, r.index = "staged"
  PROVE  StagedOn(ms, [q \in DOMAIN es \cup {p} |-> IF q = p THEN r ELSE es[q]])
<1> DEFINE f == [q \in DOMAIN es \cup {p} |-> IF q = p THEN r ELSE es[q]]
<1>1. DOMAIN f = DOMAIN es \cup {p} /\ \A q \in DOMAIN f : f[q] = IF q = p THEN r ELSE es[q]
  OBVIOUS
<1>2. Above(p) \subseteq DOMAIN es
  BY AboveOfFront DEF StagedOn
<1> HIDE DEF f
<1>3. QED
  BY <1>1, <1>2 DEF StagedOn, f

\* So does dropping everything under a path.
LEMMA PrunedCopy ==
  ASSUME NEW ms \in Archive, NEW es \in Entries, StagedOn(ms, es), NEW p \in Path
  PROVE  StagedOn(ms, Without(es, p))
<1> DEFINE f == Without(es, p)
<1>1. DOMAIN f = {q \in DOMAIN es : ~IsPrefix(p, q)} /\ \A q \in DOMAIN f : f[q] = es[q]
  BY DEF Without
<1>2. ~IsPrefix(p, Root)
  BY ArchiveAssumption DEF IsPrefix, Root
<1>3. ASSUME NEW q \in DOMAIN f PROVE Above(q) \subseteq DOMAIN f
  <2>1. q \in Place /\ Len(p) \in Nat
    BY <1>1, ArchiveAssumption DEF Entries, Place
  <2>2. \A a \in Above(q) : ~IsPrefix(p, a)
    BY <1>1, <2>1, PrefixOfAbove
  <2>3. QED
    BY <1>1, <2>2 DEF StagedOn
<1> HIDE DEF f
<1>4. QED
  BY <1>1, <1>2, <1>3 DEF StagedOn, f

\* What the archiver makes of the staged entries: each member it holds is as staged,
\* and what it leaves out is a folder with something in it, or the root (batch.changes).
LEMMA RewriteIs ==
  ASSUME NEW ms \in Archive, NEW es \in Entries, StagedOn(ms, es), es[Root].index # "staged",
         NEW made, made = Rewrite(ms, Removed(Index(ms), es), Added(es), es)
  PROVE  /\ DOMAIN made \subseteq DOMAIN es
         /\ \A p \in DOMAIN made : made[p] = es[p].is
         /\ \A p \in DOMAIN es \ DOMAIN made : es[p].is = Folder /\ (p = Root \/ ~Empty(es, p))
         /\ \A p \in DOMAIN es : es[p].index = "staged" => p \in DOMAIN made
<1> DEFINE gone == Removed(Index(ms), es)
           rows == Added(es)
<1>1. DOMAIN made = (DOMAIN ms \ gone) \cup rows
      /\ \A p \in DOMAIN made : made[p] = IF p \in rows THEN es[p].is ELSE ms[p]
  BY DEF Rewrite
<1>2. rows \subseteq DOMAIN es
  BY DEF Added
<1>3. ASSUME NEW p \in DOMAIN ms \ gone
      PROVE  p \in DOMAIN es /\ es[p].index # "staged" /\ es[p].is = ms[p]
  <2>1. p \in DOMAIN Index(ms) /\ Index(ms)[p] = [index |-> "member", is |-> ms[p]]
    BY IndexIs
  <2>2. p \in DOMAIN es /\ es[p].index # "staged"
    BY <2>1 DEF Removed
  <2>3. QED
    BY <2>1, <2>2 DEF StagedOn
<1>4. ASSUME NEW p \in DOMAIN es, p \notin DOMAIN made
      PROVE  es[p].is = Folder /\ (p = Root \/ ~Empty(es, p))
  <2>1. es[p].index # "staged"
    BY <1>1, <1>4 DEF Added
  <2>2. p \in DOMAIN Index(ms) /\ es[p] = Index(ms)[p]
    BY <1>4, <2>1 DEF StagedOn
  <2>3. p \notin DOMAIN ms
    <3>1. ASSUME p \in DOMAIN ms PROVE p \notin gone
      BY <3>1, <2>1 DEF Removed
    <3>2. QED
      BY <3>1, <1>1, <1>4
  <2>4. es[p].index = "implied" /\ es[p].is = Folder
    <3>1. es[p] = [index |-> "implied", is |-> Folder]
      BY <2>2, <2>3, IndexIs
    <3>2. QED
      BY <3>1
  <2>5. QED
    BY <1>1, <1>4, <2>4 DEF Added
<1>5. \A p \in DOMAIN es : es[p].index = "staged" => p \in rows
  BY DEF Added
<1> HIDE DEF gone, rows
<1>6. QED
  BY <1>1, <1>2, <1>3, <1>4, <1>5

\* The result is an archive.
LEMMA RewriteTyped ==
  ASSUME NEW ms \in Archive, NEW es \in Entries, StagedOn(ms, es), es[Root].index # "staged"
  PROVE  Rewrite(ms, Removed(Index(ms), es), Added(es), es) \in Archive
  BY RewriteType

\* If the result lists the same paths as the staged entries, it lists the same files and
\* folders: the comparison of the paths is what the verification in commit needs.
LEMMA SameDomain ==
  ASSUME NEW ms \in Archive, NEW es \in Entries, StagedOn(ms, es), es[Root].index # "staged",
         NEW made, made = Rewrite(ms, Removed(Index(ms), es), Added(es), es),
         DOMAIN Index(made) = DOMAIN es
  PROVE  View(Index(made)) = View(es)
<1>1. made \in Archive
  BY RewriteTyped
<1>2. ASSUME NEW p \in DOMAIN es PROVE Index(made)[p].is = es[p].is
  <2>1. CASE p \in DOMAIN made
    <3>1. Index(made)[p] = [index |-> "member", is |-> made[p]]
      BY <1>1, <2>1, IndexIs
    <3>2. made[p] = es[p].is
      BY <2>1, RewriteIs
    <3>3. QED
      BY <3>1, <3>2
  <2>2. CASE p \notin DOMAIN made
    <3>1. Index(made)[p] = [index |-> "implied", is |-> Folder]
      BY <1>1, <2>2, IndexIs
    <3>2. es[p].is = Folder
      BY <2>2, RewriteIs
    <3>3. QED
      BY <3>1, <3>2
  <2>3. QED
    BY <2>1, <2>2
<1>3. QED
  BY <1>2 DEF View

\* If nothing is removed and nothing written, the staged entries are the listing.
LEMMA NothingChanged ==
  ASSUME NEW ms \in Archive, NEW es \in Entries, StagedOn(ms, es), es[Root].index # "staged",
         Removed(Index(ms), es) = {}, Added(es) = {}
  PROVE  View(es) = View(Index(ms))
<1>1. \A p \in DOMAIN es : p \in DOMAIN Index(ms) /\ es[p] = Index(ms)[p]
  BY DEF StagedOn, Added
<1>2. ASSUME NEW p \in DOMAIN ms PROVE p \in DOMAIN es
  <2>1. p \in DOMAIN Index(ms) /\ Index(ms)[p] = [index |-> "member", is |-> ms[p]]
    BY IndexIs
  <2>2. p \in DOMAIN Index(ms) /\ Index(ms)[p].index = "member"
    BY <2>1
  <2>3. QED
    BY <2>2 DEF Removed
<1>3. ASSUME NEW p \in DOMAIN Index(ms) PROVE p \in DOMAIN es
  BY <1>2, IndexIs DEF StagedOn
<1>4. QED
  BY <1>1, <1>3 DEF View

-----------------------------------------------------------------------------
(* Nothing that is staged is missing from the result. *)

\* No path is above itself.
LEMMA NotAboveItself == ASSUME NEW p \in Place PROVE p \notin Above(p)
<1>1. ASSUME NEW i \in 0..(Len(p) - 1) PROVE SubSeq(p, 1, i) # p
  <2>1. Len(SubSeq(p, 1, i)) = i /\ Len(p) \in Nat
    BY AboveIs, PlaceSeq
  <2>2. QED
    BY <2>1
<1>2. QED
  BY <1>1 DEF Above

\* Under each entry there is one with nothing under it: one with fewest entries under
\* it, which exists as there are finitely many paths.
LEMMA DeepestBelow ==
  ASSUME NEW es \in Entries, NEW p \in DOMAIN es
  PROVE  \E q \in DOMAIN es : (q = p \/ p \in Above(q)) /\ \A r \in DOMAIN es : q \notin Above(r)
<1> DEFINE Desc(q) == {r \in DOMAIN es : q \in Above(r)}
           B == {q \in DOMAIN es : q = p \/ p \in Above(q)}
           T == {Desc(q) : q \in B}
<1>1. DOMAIN es \subseteq Place
  BY DEF Entries, Place
<1>2. T \subseteq FiniteSubsetsOf(Place) /\ T # {}
  <2>1. IsFiniteSet(Place)
    BY PathsAreBounded, FS_AddElement DEF Place
  <2>2. ASSUME NEW q \in B PROVE Desc(q) \in FiniteSubsetsOf(Place)
    <3>1. Desc(q) \subseteq Place
      BY <1>1
    <3> HIDE DEF Desc
    <3>2. IsFiniteSet(Desc(q))
      BY <2>1, <3>1, FS_Subset
    <3>3. QED
      BY <3>1, <3>2 DEF FiniteSubsetsOf
  <2>3. p \in B
    OBVIOUS
  <2> HIDE DEF Desc, B
  <2>4. QED
    BY <2>2, <2>3
<1>3. PICK I \in T : \A J \in T : <<J, I>> \notin StrictSubsetOrdering(Place)
  <2> HIDE DEF T
  <2>1. QED
    BY <1>2, FS_StrictSubsetOrderingWellFounded, WFMin, Zenon
<1>4. PICK q \in B : I = Desc(q)
  BY <1>3
<1>5. ASSUME NEW r \in DOMAIN es, q \in Above(r) PROVE FALSE
  <2>1. r \in Place /\ q \in Place
    BY <1>1
  <2>2. Above(q) \subseteq Above(r)
    BY <1>5, <2>1, AboveOfAbove
  <2>3. r \in B
    BY <1>5, <2>2
  <2>4. ASSUME NEW x \in DOMAIN es, r \in Above(x) PROVE q \in Above(x)
    BY <1>1, <1>5, <2>4, AboveOfAbove
  <2>5. Desc(r) \subseteq Desc(q)
    BY <2>4
  <2>6. r \in Desc(q) /\ r \notin Desc(r)
    BY <1>5, <2>1, NotAboveItself
  <2>7. Desc(r) \in T /\ Desc(r) \in SUBSET Place /\ Desc(q) \in SUBSET Place
    BY <1>1, <2>3
  <2> HIDE DEF Desc, T
  <2>8. <<Desc(r), Desc(q)>> \in StrictSubsetOrdering(Place)
    BY <2>5, <2>6, <2>7 DEF StrictSubsetOrdering
  <2>9. QED
    BY <1>3, <1>4, <2>7, <2>8
<1>6. QED
  BY <1>5

\* The result lists exactly the paths that are staged: a deepest entry is a member, as a
\* file, as a folder that was written, or as one that is empty now (batch.changes).
LEMMA ListedAgain ==
  ASSUME NEW ms \in Archive, NEW es \in Entries, StagedOn(ms, es), es[Root].index # "staged",
         NEW made, made = Rewrite(ms, Removed(Index(ms), es), Added(es), es)
  PROVE  DOMAIN Index(made) = DOMAIN es
<1>0. DOMAIN es \subseteq Place
  BY DEF Entries, Place
<1>1. made \in Archive
  BY RewriteTyped
<1>2. ASSUME NEW p \in DOMAIN Index(made) PROVE p \in DOMAIN es
  <2>1. DOMAIN made \subseteq DOMAIN es
    BY RewriteIs
  <2>2. p = Root \/ p \in DOMAIN made \/ \E q \in DOMAIN made : p \in Above(q)
    BY <1>1, IndexIs
  <2>3. QED
    BY <2>1, <2>2 DEF StagedOn
<1>3. ASSUME NEW p \in DOMAIN es PROVE p \in DOMAIN Index(made)
  <2>1. PICK q \in DOMAIN es : (q = p \/ p \in Above(q)) /\ \A r \in DOMAIN es : q \notin Above(r)
    BY DeepestBelow
  <2>2. CASE q \in DOMAIN made
    BY <1>1, <2>1, <2>2, IndexIs
  <2>3. CASE q = Root
    BY <1>1, <2>1, <2>3, RootHasNoneAbove, IndexIs
  <2>4. CASE ~Empty(es, q)
    <3>1. PICK r \in DOMAIN es \ {Root} : Front(r) = q
      BY <2>4 DEF Empty
    <3>2. q \in Above(r)
      BY <1>0, <3>1, AboveOfFront DEF Place
    <3>3. QED
      BY <2>1, <3>1, <3>2
  <2>5. QED
    BY <2>1, <2>2, <2>3, <2>4, RewriteIs
<1>4. QED
  BY <1>2, <1>3

-----------------------------------------------------------------------------
(* The invariant of the batches. *)

\* Folder trees and operations on them, and the histories the model keeps of them.
Tree == UNION {[P -> Content] : P \in SUBSET Place}
Op == [op : {"put", "mkdir", "delete", "all"}, path : Place, data : Content \cup Tree, expected : Nat]

Histories == ops \in [Worker -> Seq(Op)] /\ mine \in [Worker -> SUBSET Place]

\* A request opens the archive; a replacement of it is under way.
Opening(w) == kind[w] # "whole" /\ pc[w] \in {"statting", "asking", "reading"}
InFlight(w) == pc[w] \in {"comparing", "replacing", "waiting"} \/ sent[w] = "out"

\* When a batch is installed, and what is known of the reply.
Replies(w) ==
  /\ pc[w] # "done" => answer[w] = "none"
  /\ pc[w] \in {"idle", "ready"} \/ (Opening(w) /\ new[w] = NoArchive) =>
       ops[w] = <<>> /\ hashes[w] = <<>> /\ ~taken[w] /\ new[w] = NoArchive
  /\ pc[w] \in {"checking", "staging", "comparing", "replacing"} => ~taken[w]
  /\ Opening(w) /\ new[w] # NoArchive => taken[w]
  /\ kind[w] = "whole" /\ pc[w] = "asking" => ~taken[w]
  /\ pc[w] = "waiting" => (taken[w] <=> sent[w] = "applied")
  /\ sent[w] = "out" => ~taken[w] /\ (pc[w] = "done" => answer[w] = "unconfirmed")

\* The staged entries are what the operations of the batch make of the listing.  A row
\* that no operation of the batch wrote is as it was listed.
Staged(w) ==
  pc[w] = "staging" =>
    /\ new[w] = NoArchive
    /\ StagedOn(past[opened[w].bytes], entries[w])
    /\ \A p \in DOMAIN entries[w] :
         entries[w][p].index = "staged" => \E j \in DOMAIN ops[w] : IsPrefix(ops[w][j].path, p)
    /\ \A p \in DOMAIN hashes[w] :
         /\ p \in DOMAIN entries[w] /\ entries[w][p].index = "staged"
         /\ entries[w][p].is = hashes[w][p]
    /\ View(entries[w]) = Abstract!DoAll(View(Listing(w)), ops[w])

\* What a request is about to install is what its operations make of the bytes it read.
Made(w) ==
  /\ InFlight(w) \/ (kind[w] = "whole" /\ pc[w] \in {"checking", "asking"}) => opened[w].bytes # 0
  /\ InFlight(w) => new[w] # NoArchive
  /\ kind[w] # "whole" /\ InFlight(w) =>
       View(Index(new[w])) = Abstract!DoAll(View(Listing(w)), ops[w])
  /\ kind[w] = "whole" /\ (InFlight(w) \/ pc[w] \in {"checking", "asking"}) =>
       \E v \in Nat :
         ops[w] = <<[op |-> "all", path |-> Root, data |-> View(Index(new[w])), expected |-> v]>>

\* The files of an archive that are not under these paths are those of the baseline.
Unchanged(ms, w, under) ==
  \A p \in DOMAIN ms :
    ms[p] # Folder /\ (\A q \in under : ~IsPrefix(q, p)) =>
      p \in DOMAIN past[opened[w].baseline] /\ past[opened[w].baseline][p] = ms[p]
\* A file that the batch replaces, and has not written itself, is in the bytes what it was
\* at the version that was named.
Seen(w) ==
  \A i \in DOMAIN ops[w] :
    LET o == ops[w][i] IN
    o.op = "put" /\ o.expected # 0 /\ ~Touched(w, o.path, i) =>
      /\ o.expected \in 1..Now
      /\ o.path \in DOMAIN past[o.expected]
      /\ past[o.expected][o.path] = past[opened[w].bytes][o.path]

\* Both hold of a request whose bytes are of the revision it compares with: after a
\* replacement the baseline stays, so they hold but for what the request itself wrote.
Based(w) ==
  kind[w] # "whole" =>
  /\ pc[w] \in {"asking", "reading"} /\ new[w] = NoArchive =>
       opened[w].baseline = opened[w].rev /\ opened[w].rev # 0
  /\ pc[w] \in {"ready", "staging"} \/ InFlight(w) =>
       /\ opened[w].baseline # 0
       /\ opened[w].rev = opened[w].bytes => Unchanged(past[opened[w].bytes], w, mine[w])
  /\ (pc[w] = "staging" \/ InFlight(w)) /\ opened[w].rev = opened[w].bytes => Seen(w)
  /\ InFlight(w) /\ opened[w].rev = opened[w].bytes => Unchanged(new[w], w, mine[w] \cup Paths(w))
  /\ pc[w] = "waiting" \/ sent[w] = "out" => opened[w].rev = opened[w].bytes
  /\ Opening(w) /\ new[w] # NoArchive =>
       opened[w].baseline # 0 /\ Unchanged(new[w], w, mine[w] \cup Paths(w))

Facts(w) == Replies(w) /\ Staged(w) /\ Made(w) /\ Based(w)
BatchInv == Histories /\ \A w \in Worker : Facts(w)

\* A request does nothing, and the history is the same or longer.
Same(w) ==
  /\ pc'[w] = pc[w] /\ kind'[w] = kind[w] /\ opened'[w] = opened[w] /\ entries'[w] = entries[w]
  /\ hashes'[w] = hashes[w] /\ new'[w] = new[w] /\ sent'[w] = sent[w] /\ answer'[w] = answer[w]
  /\ ops'[w] = ops[w] /\ taken'[w] = taken[w] /\ mine'[w] = mine[w]

Later == past' = past \/ \E a \in Archive : past' = Append(past, a)

\* Versions that are in the history stay as they are.
LEMMA LaterIs ==
  ASSUME TypeOK, Later
  PROVE  /\ Now \in Nat /\ Now' \in Nat /\ Now <= Now'
         /\ \A i \in 1..Now : past'[i] = past[i] /\ past[i] \in Archive
  BY DEF TypeOK, Now, Later

\* The versions a request opened are in the history.
LEMMA OpenedIs ==
  ASSUME TypeOK, NEW w \in Worker
  PROVE  /\ opened[w] \in [rev : 0..Now, token : 0..Now, baseline : 0..Now, bytes : 0..Now]
         /\ Now \in Nat /\ \A i \in 1..Now : past[i] \in Archive
  BY DEF TypeOK, Version, Now

\* The work of a request is kept.
Kept(w) ==
  /\ pc'[w] = pc[w] /\ kind'[w] = kind[w] /\ opened'[w] = opened[w] /\ entries'[w] = entries[w]
  /\ hashes'[w] = hashes[w] /\ new'[w] = new[w] /\ ops'[w] = ops[w] /\ mine'[w] = mine[w]
  /\ sent'[w] = "out" => sent[w] = "out"

\* What holds of the work of a request holds as long as the request does nothing, whoever
\* else extends the history.
LEMMA WorkIsKept ==
  ASSUME IInv, NEW w \in Worker, Facts(w), Kept(w), Later
  PROVE  Staged(w)' /\ Made(w)' /\ Based(w)'
<1>0. TypeOK
  BY DEF IInv
<1>1. /\ opened[w].bytes \in 0..Now /\ opened[w].baseline \in 0..Now /\ Now \in Nat
      /\ Now' \in Nat /\ Now <= Now'
      /\ \A i \in 1..Now : past'[i] = past[i]
  BY <1>0, LaterIs, OpenedIs
<1>3. Staged(w)'
  <2> SUFFICES ASSUME pc[w] = "staging" PROVE Staged(w)'
    BY DEF Staged, Kept
  <2>1. opened[w].bytes # 0
    BY DEF IInv, Ordered
  <2>2. past'[opened'[w].bytes] = past[opened[w].bytes]
    BY <1>1, <2>1 DEF Kept
  <2>3. QED
    BY <2>2 DEF Facts, Staged, Kept, Listing
<1>4. Made(w)'
  <2>1. CASE InFlight(w)
    <3>1. opened[w].bytes # 0
      BY <2>1 DEF Facts, Made
    <3>2. past'[opened'[w].bytes] = past[opened[w].bytes]
      BY <1>1, <3>1 DEF Kept
    <3>3. QED
      BY <2>1, <3>1, <3>2 DEF Facts, Made, Kept, Listing, InFlight
  <2>2. CASE ~InFlight(w)
    BY <2>2 DEF Facts, Made, Kept, InFlight
  <2>3. QED
    BY <2>1, <2>2
<1>5. ASSUME NEW ms, NEW under, opened[w].baseline # 0, Unchanged(ms, w, under)
      PROVE  \A p \in DOMAIN ms :
                ms[p] # Folder /\ (\A q \in under : ~IsPrefix(q, p)) =>
                  p \in DOMAIN past'[opened'[w].baseline] /\ past'[opened'[w].baseline][p] = ms[p]
   BY <1>1, <1>5 DEF Kept, Unchanged
<1>6. ASSUME opened[w].bytes # 0, Seen(w) PROVE Seen(w)'
   <2>1. opened'[w].bytes = opened[w].bytes /\ ops'[w] = ops[w] /\ mine'[w] = mine[w]
     BY DEF Kept
   <2>2. past'[opened[w].bytes] = past[opened[w].bytes]
     BY <1>1, <1>6
   <2>3. QED
   BY <1>1, <1>6, <2>1, <2>2 DEF Seen, Touched
<1>7. Based(w)'
  <2> SUFFICES ASSUME kind[w] # "whole" PROVE Based(w)'
    BY DEF Based, Kept
  <2>1. (Opening(w) <=> Opening(w)') /\ (InFlight(w)' => InFlight(w)) /\ Paths(w)' = Paths(w)
    BY DEF Opening, InFlight, Kept, Paths
  <2>2. pc[w] \in {"ready", "staging"} \/ InFlight(w) =>
          opened[w].bytes # 0 /\ past'[opened[w].bytes] = past[opened[w].bytes]
    BY <1>1 DEF IInv, Ordered, Facts, Made
  <2>3. /\ pc'[w] = pc[w] /\ kind'[w] = kind[w] /\ opened'[w] = opened[w] /\ new'[w] = new[w]
        /\ sent'[w] = "out" => sent[w] = "out"
        /\ mine'[w] = mine[w] /\ kind[w] # "whole"
    BY DEF Kept
  <2>4. pc[w] \in {"ready", "staging"} \/ InFlight(w) =>
          /\ opened[w].baseline # 0
          /\ opened[w].rev = opened[w].bytes => Unchanged(past[opened[w].bytes], w, mine[w])'
    <3>1. ASSUME pc[w] \in {"ready", "staging"} \/ InFlight(w), opened[w].rev = opened[w].bytes
          PROVE  Unchanged(past[opened[w].bytes], w, mine[w])'
      <4>1. opened[w].baseline # 0 /\ Unchanged(past[opened[w].bytes], w, mine[w])
        BY <2>3, <3>1 DEF Facts, Based
      <4>2. past'[opened'[w].bytes] = past[opened[w].bytes] /\ mine'[w] = mine[w]
        BY <2>2, <2>3, <3>1
      <4>3. QED
        BY <4>1, <4>2, <1>5 DEF Unchanged
    <3>2. QED
      BY <2>3, <3>1 DEF Facts, Based
  <2>5. (pc[w] = "staging" \/ InFlight(w)) /\ opened[w].rev = opened[w].bytes => Seen(w)'
    BY <2>2, <2>3, <1>6 DEF Facts, Based
  <2>6. InFlight(w) /\ opened[w].rev = opened[w].bytes => Unchanged(new[w], w, mine[w] \cup Paths(w))'
    <3>1. ASSUME InFlight(w), opened[w].rev = opened[w].bytes
          PROVE  Unchanged(new[w], w, mine[w] \cup Paths(w))'
      <4>1. opened[w].baseline # 0 /\ Unchanged(new[w], w, mine[w] \cup Paths(w))
        BY <2>3, <3>1 DEF Facts, Based
      <4>2. QED
        BY <4>1, <2>1, <2>3, <1>5 DEF Unchanged
    <3>2. QED
      BY <3>1
  <2>7. Opening(w) /\ new[w] # NoArchive =>
          opened[w].baseline # 0 /\ Unchanged(new[w], w, mine[w] \cup Paths(w))'
    <3>1. ASSUME Opening(w), new[w] # NoArchive
          PROVE  opened[w].baseline # 0 /\ Unchanged(new[w], w, mine[w] \cup Paths(w))'
      <4>1. opened[w].baseline # 0 /\ Unchanged(new[w], w, mine[w] \cup Paths(w))
        BY <2>3, <3>1 DEF Facts, Based
      <4>2. QED
        BY <4>1, <2>1, <2>3, <1>5 DEF Unchanged
    <3>2. QED
      BY <3>1
  <2>8. QED
    BY <2>1, <2>3, <2>4, <2>5, <2>6, <2>7 DEF Facts, Based
<1>8. QED
  BY <1>3, <1>4, <1>7

\* So does everything else of it.
LEMMA SameKeeps ==
  ASSUME IInv, NEW w \in Worker, Facts(w), Same(w), Later PROVE Facts(w)'
<1>1. Replies(w)'
  BY DEF Facts, Replies, Same, Opening
<1>2. Kept(w)
  BY DEF Same, Kept
<1>3. QED
  BY <1>1, <1>2, WorkIsKept DEF Facts

-----------------------------------------------------------------------------
(* Staging is operating on the listing. *)

\* Staging a row is the operation "put" or "mkdir" on the listing.
LEMMA ViewOfWritten ==
  ASSUME NEW es, NEW p, NEW x, NEW o, o.path = p,
         \/ o.op = "put" /\ o.data = x
         \/ o.op = "mkdir" /\ x = Folder
  PROVE  View([q \in DOMAIN es \cup {p} |-> IF q = p THEN [index |-> "staged", is |-> x] ELSE es[q]])
           = Abstract!Do(View(es), o)
<1> DEFINE f == [q \in DOMAIN es \cup {p} |-> IF q = p THEN [index |-> "staged", is |-> x] ELSE es[q]]
           g == [q \in DOMAIN es \cup {p} |-> IF q = p THEN x ELSE es[q].is]
<1>1. View(f) = g
  <2>1. DOMAIN f = DOMAIN es \cup {p}
    OBVIOUS
  <2>2. \A q \in DOMAIN f : f[q].is = g[q]
    OBVIOUS
  <2>3. g = [q \in DOMAIN f |-> g[q]]
    BY <2>1
  <2> HIDE DEF f, g
  <2>4. QED
    BY <2>2, <2>3 DEF View
<1>2. Abstract!Set(View(es), p, x) = g
  <2>1. DOMAIN View(es) = DOMAIN es /\ \A q \in DOMAIN es : View(es)[q] = es[q].is
    BY DEF View
  <2>2. QED
    BY <2>1 DEF Abstract!Set
<1>3. Abstract!Do(View(es), o) = Abstract!Set(View(es), p, x)
  BY DEF Abstract!Do
<1>4. QED
  BY <1>1, <1>2, <1>3

\* Dropping what is under a path is the operation "delete".
LEMMA ViewOfWithout ==
  ASSUME NEW es, NEW p, NEW o, o.path = p, o.op = "delete"
  PROVE  View(Without(es, p)) = Abstract!Do(View(es), o)
<1>1. DOMAIN View(es) = DOMAIN es /\ \A q \in DOMAIN es : View(es)[q] = es[q].is
  BY DEF View
<1>2. DOMAIN View(es) \ Abstract!Below(View(es), p) = {r \in DOMAIN es : ~IsPrefix(p, r)}
  BY <1>1 DEF Abstract!Below, Abstract!IsPrefix, IsPrefix
<1>3. Abstract!Do(View(es), o) = [q \in {r \in DOMAIN es : ~IsPrefix(p, r)} |-> View(es)[q]]
  BY <1>2 DEF Abstract!Do
<1>4. DOMAIN Without(es, p) = {r \in DOMAIN es : ~IsPrefix(p, r)}
      /\ \A q \in {r \in DOMAIN es : ~IsPrefix(p, r)} : Without(es, p)[q] = es[q]
  BY DEF Without
<1>5. View(Without(es, p)) = [q \in {r \in DOMAIN es : ~IsPrefix(p, r)} |-> View(es)[q]]
  <2> DEFINE D == {r \in DOMAIN es : ~IsPrefix(p, r)}
  <2>1. \A q \in D : Without(es, p)[q].is = View(es)[q]
    BY <1>1, <1>4
  <2>2. DOMAIN Without(es, p) = D
    BY <1>4
  <2> HIDE DEF D
  <2>3. View(Without(es, p)) = [q \in D |-> View(es)[q]]
    BY <2>1, <2>2 DEF View
  <2>4. QED
    BY <2>3 DEF D
<1>6. QED
  BY <1>3, <1>5

\* The archive whose bytes a request works on.
LEMMA BytesAre ==
  ASSUME IInv, NEW w \in Worker, opened[w].bytes # 0
  PROVE  opened[w].bytes \in 1..Now /\ past[opened[w].bytes] \in Archive
  BY OpenedIs DEF IInv

\* A store has no batch when it starts.
LEMMA InitBatch == ASSUME Init PROVE BatchInv
<1>1. Histories
  BY DEF Init, Histories
<1>2. ASSUME NEW w \in Worker PROVE Facts(w)
  <2>1. /\ pc[w] = "idle" /\ answer[w] = "none" /\ ops[w] = <<>> /\ hashes[w] = <<>> /\ ~taken[w]
        /\ new[w] = NoArchive /\ sent[w] = "no" /\ kind[w] = "member"
    BY DEF Init
  <2>2. QED
    BY <2>1 DEF Facts, Replies, Staged, Made, Based, Opening, InFlight
<1>3. QED
  BY <1>1, <1>2 DEF BatchInv

-----------------------------------------------------------------------------
(* The invariant is kept. *)

\* Whatever an action of one request does, the others do nothing.
Frame(w) == Later /\ \A v \in Worker \ {w} : Same(v)

\* An action of one request has only to be looked at for that request.
LEMMA FrameKeeps ==
  ASSUME IInv, BatchInv, NEW w \in Worker, Frame(w), Facts(w)', Histories'
  PROVE  BatchInv'
<1>1. ASSUME NEW v \in Worker PROVE Facts(v)'
  <2>1. CASE v = w
    BY <2>1
  <2>2. CASE v # w
    BY <2>2, SameKeeps DEF BatchInv, Frame
  <2>3. QED
    BY <2>1, <2>2
<1>2. QED
  BY <1>1 DEF BatchInv

\* The actions one by one: the request starts,
LEMMA RequestBatch ==
  ASSUME IInv, BatchInv, NEW w \in Worker, Request(w)
  PROVE  Frame(w) /\ Facts(w)' /\ Histories'
<1>1. UNCHANGED <<past, opened, entries, hashes, ops, new, sent, answer, taken, mine>>
  BY DEF Request, fileVars, batchVars, histVars
<1>2. /\ pc[w] = "idle" /\ pc'[w] = "statting" /\ kind'[w] \in {"member", "within"} /\ sent[w] # "out"
      /\ \A v \in Worker \ {w} : pc'[v] = pc[v] /\ kind'[v] = kind[v]
  BY DEF IInv, TypeOK, Request, Goto, Ordered
<1>3. Facts(w) /\ Histories
  BY DEF BatchInv
<1>4. Facts(w)'
  BY <1>1, <1>2, <1>3 DEF Facts, Replies, Staged, Made, Based, Opening, InFlight
<1>5. QED
  BY <1>1, <1>2, <1>3, <1>4 DEF Frame, Same, Later, Histories

\* compares the revision of a whole file,
LEMMA CheckWholeBatch ==
  ASSUME IInv, BatchInv, NEW w \in Worker, CheckWhole(w)
  PROVE  Frame(w) /\ Facts(w)' /\ Histories'
<1>1. UNCHANGED <<past, kind, opened, entries, hashes, ops, new, sent, taken, mine>>
  BY DEF CheckWhole, fileVars, batchVars, histVars
<1>2. /\ pc[w] = "checking" /\ kind[w] = "whole" /\ sent[w] # "out"
      /\ (pc'[w] = "asking" /\ answer'[w] = answer[w]) \/ pc'[w] = "done"
      /\ \A v \in Worker \ {w} : pc'[v] = pc[v] /\ answer'[v] = answer[v]
  BY DEF IInv, TypeOK, CheckWhole, Goto, End, Ordered
<1>3. Facts(w) /\ Histories
  BY DEF BatchInv
<1>4. Facts(w)'
  BY <1>1, <1>2, <1>3 DEF Facts, Replies, Staged, Made, Based, Opening, InFlight
<1>5. QED
  BY <1>1, <1>2, <1>3, <1>4 DEF Frame, Same, Later, Histories

\* ends,
LEMMA FinishBatch ==
  ASSUME IInv, BatchInv, NEW w \in Worker, Finish(w)
  PROVE  Frame(w) /\ Facts(w)' /\ Histories'
<1>1. UNCHANGED <<past, kind, opened, entries, hashes, ops, new, sent, taken, mine>>
  BY DEF Finish, fileVars, batchVars, histVars
<1>2. /\ pc[w] = "ready" /\ kind[w] # "whole" /\ sent[w] # "out" /\ pc'[w] = "done"
      /\ \A v \in Worker \ {w} : pc'[v] = pc[v] /\ answer'[v] = answer[v]
  BY DEF IInv, TypeOK, Finish, Goto, End, Ordered
<1>3. Facts(w) /\ Histories
  BY DEF BatchInv
<1>4. Facts(w)'
  BY <1>1, <1>2, <1>3 DEF Facts, Replies, Staged, Made, Based, Opening, InFlight
<1>5. QED
  BY <1>1, <1>2, <1>3, <1>4 DEF Frame, Same, Later, Histories

\* asks for the write token,
LEMMA OpenTokenBatch ==
  ASSUME IInv, BatchInv, NEW w \in Worker, OpenToken(w)
  PROVE  Frame(w) /\ Facts(w)' /\ Histories'
<1>1. UNCHANGED <<past, kind, entries, hashes, ops, new, sent, taken, mine>>
  BY DEF OpenToken, fileVars, batchVars, histVars
<1>2. /\ pc[w] = "asking" /\ sent[w] # "out"
      /\ \/ kind[w] # "whole" /\ pc'[w] = "reading" /\ answer'[w] = answer[w]
         \/ kind[w] = "whole" /\ pc'[w] = "comparing" /\ answer'[w] = answer[w]
         \/ pc'[w] = "done" /\ kind[w] = "whole"
      /\ \A v \in Worker \ {w} : pc'[v] = pc[v] /\ answer'[v] = answer[v]
  BY DEF IInv, TypeOK, OpenToken, Goto, End, Ordered
<1>3. /\ opened'[w].rev = opened[w].rev /\ opened'[w].bytes = opened[w].bytes
      /\ opened'[w].baseline = opened[w].baseline
      /\ \A v \in Worker \ {w} : opened'[v] = opened[v]
  BY DEF IInv, TypeOK, OpenToken
<1>4. Facts(w) /\ Histories
  BY DEF BatchInv
<1>5. Replies(w)' /\ Staged(w)'
  BY <1>1, <1>2, <1>4 DEF Facts, Replies, Staged, Opening, InFlight
<1>6. Made(w)'
  <2>1. CASE kind[w] # "whole"
    BY <1>1, <1>2, <2>1 DEF Made, InFlight
  <2>2. CASE kind[w] = "whole"
    <3>1. new[w] # NoArchive
      BY <1>2, <2>2, ArchiveAssumption DEF IInv, Ready
    <3>2. QED
      BY <1>1, <1>2, <1>3, <1>4, <2>2, <3>1 DEF Facts, Made
  <2>3. QED
    BY <2>1, <2>2
<1>7. Based(w)'
  BY <1>1, <1>2, <1>3, <1>4 DEF Facts, Based, Opening, InFlight, Unchanged, Paths
<1>8. QED
  BY <1>1, <1>2, <1>3, <1>4, <1>5, <1>6, <1>7 DEF Facts, Frame, Same, Later, Histories

\* reads the revision,
LEMMA OpenStatBatch ==
  ASSUME IInv, BatchInv, NEW w \in Worker, OpenStat(w)
  PROVE  Frame(w) /\ Facts(w)' /\ Histories'
<1>1. UNCHANGED <<past, kind, entries, hashes, ops, new, sent, taken, mine>>
  BY DEF OpenStat, fileVars, batchVars, histVars
<1>2. /\ pc[w] = "statting" /\ kind[w] # "whole" /\ sent[w] # "out"
      /\ (pc'[w] \in {"asking", "reading"} /\ answer'[w] = answer[w]) \/ pc'[w] = "done"
      /\ \A v \in Worker \ {w} : pc'[v] = pc[v] /\ answer'[v] = answer[v]
  BY DEF IInv, TypeOK, OpenStat, CannotOpen, Doubt, Goto, End, Ordered
<1>3. /\ pc'[w] # "done" =>
           /\ opened'[w].rev = Now
           /\ opened'[w].baseline = IF new[w] = NoArchive THEN Now ELSE opened[w].baseline
      /\ \A v \in Worker \ {w} : opened'[v] = opened[v]
  BY DEF IInv, TypeOK, OpenStat, CannotOpen, Doubt, Goto, End
<1>4. Facts(w) /\ Histories
  BY DEF BatchInv
<1>5. Now # 0
  BY DEF IInv, TypeOK, Now
<1>6. Replies(w)' /\ Staged(w)' /\ Made(w)'
  BY <1>1, <1>2, <1>4 DEF Facts, Replies, Staged, Made, Opening, InFlight
<1>7. Based(w)'
  BY <1>1, <1>2, <1>3, <1>4, <1>5 DEF Facts, Based, Opening, InFlight, Unchanged, Paths
<1>8. QED
  BY <1>1, <1>2, <1>3, <1>4, <1>6, <1>7 DEF Facts, Frame, Same, Later, Histories

\* compares it before the upload: then the bytes it read are of that version,
LEMMA CompareBatch ==
  ASSUME IInv, BatchInv, NEW w \in Worker, Compare(w)
  PROVE  Frame(w) /\ Facts(w)' /\ Histories'
<1>1. UNCHANGED <<past, kind, opened, entries, hashes, ops, new, answer, taken, mine>>
  BY DEF Compare, fileVars, batchVars, histVars
<1>2. /\ pc[w] = "comparing" /\ pc'[w] = "waiting" /\ sent'[w] = "out" /\ opened[w].rev = Now
      /\ \A v \in Worker \ {w} : pc'[v] = pc[v] /\ sent'[v] = sent[v]
  BY DEF IInv, TypeOK, Compare, Goto
<1>3. Facts(w) /\ Histories
  BY DEF BatchInv
<1>4. kind[w] # "whole" => opened[w].rev = opened[w].bytes
  BY <1>2, OpenedIs DEF IInv, Ordered
<1>5. Replies(w)' /\ Staged(w)' /\ Made(w)'
  BY <1>1, <1>2, <1>3 DEF Facts, Replies, Staged, Made, Opening, InFlight, Listing
<1>6. Based(w)'
  BY <1>1, <1>2, <1>3, <1>4 DEF Facts, Based, Opening, InFlight, Unchanged, Paths, Seen, Touched, Now
<1>7. QED
  BY <1>1, <1>2, <1>3, <1>5, <1>6 DEF Facts, Frame, Same, Later, Histories

\* A listing is a folder tree.
LEMMA ViewType == ASSUME NEW es \in Entries PROVE View(es) \in Tree
<1>1. PICK P \in SUBSET Place : es \in [P -> Row]
  BY DEF Entries, Place
<1>2. View(es) \in [P -> Content]
  BY <1>1 DEF View, Row
<1>3. QED
  BY <1>2 DEF Tree

\* asks for the edit of a whole file,
LEMMA RequestWholeBatch ==
  ASSUME IInv, BatchInv, NEW w \in Worker, RequestWhole(w)
  PROVE  Frame(w) /\ Facts(w)' /\ Histories'
<1>1. UNCHANGED <<past, entries, hashes, sent, answer, taken, mine>>
  BY DEF RequestWhole, fileVars, histVars
<1>2. /\ pc[w] = "idle" /\ pc'[w] = "checking" /\ kind'[w] = "whole" /\ sent[w] # "out"
      /\ \A v \in Worker \ {w} : pc'[v] = pc[v] /\ kind'[v] = kind[v]
  BY DEF IInv, TypeOK, RequestWhole, Goto, Ordered
<1>3. Facts(w) /\ Histories
  BY DEF BatchInv
<1>4. PICK v \in 1..Now, a \in Archive :
        /\ opened' = [opened EXCEPT ![w] = [rev |-> v, token |-> 0, baseline |-> v, bytes |-> v]]
        /\ new' = [new EXCEPT ![w] = a]
        /\ ops' = [ops EXCEPT ![w] = <<[op |-> "all", path |-> Root, data |-> View(Index(a)), expected |-> v]>>]
  BY ArchiveAssumption DEF RequestWhole
<1> DEFINE o == [op |-> "all", path |-> Root, data |-> View(Index(a)), expected |-> v]
<1>5. /\ opened'[w] = [rev |-> v, token |-> 0, baseline |-> v, bytes |-> v]
      /\ new'[w] = a /\ ops'[w] = <<o>> /\ v \in Nat \ {0}
      /\ \A u \in Worker \ {w} : opened'[u] = opened[u] /\ new'[u] = new[u] /\ ops'[u] = ops[u]
  BY <1>3, <1>4 DEF IInv, TypeOK, Histories
<1>6. o \in Op
  <2>1. View(Index(a)) \in Tree
    BY IndexType, ViewType
  <2>2. QED
    BY <1>5, <2>1 DEF Op, Place
<1>7. Histories'
  <2>1. <<o>> \in Seq(Op)
    BY <1>6
  <2>2. QED
    BY <1>1, <1>3, <1>4, <2>1 DEF Histories
<1>8. Replies(w)' /\ Staged(w)'
  BY <1>1, <1>2, <1>3 DEF Facts, Replies, Staged, Opening
<1>9. Made(w)'
  <2>1. opened'[w].bytes = v
    BY <1>5
  <2>2. ~InFlight(w)'
    BY <1>1, <1>2 DEF InFlight
  <2>3. QED
    BY <1>2, <1>5, <2>1, <2>2 DEF Made
<1>10. Based(w)'
  BY <1>2 DEF Based
<1>11. QED
  BY <1>1, <1>2, <1>5, <1>7, <1>8, <1>9, <1>10 DEF Facts, Frame, Same, Later

\* begins a batch,
LEMMA BeginBatch ==
  ASSUME IInv, BatchInv, NEW w \in Worker, Begin(w)
  PROVE  Frame(w) /\ Facts(w)' /\ Histories'
<1>1. UNCHANGED <<past, kind, opened, hashes, ops, new, sent, answer, taken, mine>>
  BY DEF Begin, fileVars, histVars
<1>2. /\ pc[w] = "ready" /\ pc'[w] = "staging" /\ kind[w] # "whole" /\ sent[w] # "out" /\ opened[w].bytes # 0
      /\ entries'[w] = Listing(w)
      /\ \A v \in Worker \ {w} : pc'[v] = pc[v] /\ entries'[v] = entries[v]
  BY DEF IInv, TypeOK, Begin, Goto, Ordered
<1>3. Facts(w) /\ Histories
  BY DEF BatchInv
<1>4. ops[w] = <<>> /\ hashes[w] = <<>> /\ ~taken[w] /\ new[w] = NoArchive /\ answer[w] = "none"
  BY <1>2, <1>3 DEF Facts, Replies
<1>5. Replies(w)' /\ Made(w)'
  BY <1>1, <1>2, <1>4 DEF Replies, Made, Opening, InFlight
<1>6. Staged(w)'
  <2>1. past[opened[w].bytes] \in Archive
    BY <1>2, BytesAre
  <2>2. StagedOn(past[opened[w].bytes], Listing(w))
    BY <2>1, FreshCopy DEF Listing
  <2>3. ASSUME NEW p \in DOMAIN Listing(w) PROVE Listing(w)[p].index # "staged"
    <3>1. CASE p \in DOMAIN past[opened[w].bytes]
      <4>1. Listing(w)[p] = [index |-> "member", is |-> past[opened[w].bytes][p]]
        BY <2>1, <3>1, IndexIs DEF Listing
      <4>2. QED
        BY <4>1
    <3>2. CASE p \notin DOMAIN past[opened[w].bytes]
      <4>1. Listing(w)[p] = [index |-> "implied", is |-> Folder]
        BY <2>1, <2>3, <3>2, IndexIs DEF Listing
      <4>2. QED
        BY <4>1
    <3>3. QED
      BY <3>1, <3>2
  <2>4. Abstract!DoAll(View(Listing(w)), <<>>) = View(Listing(w))
    <3>1. <<>> \in Seq({1}) /\ 1 \in {1}
      OBVIOUS
    <3>2. QED
      BY <3>1, DoAllUnfolds
  <2>5. Listing(w)' = Listing(w)
    BY <1>1 DEF Listing
  <2>6. QED
    BY <1>1, <1>2, <1>4, <2>2, <2>3, <2>4, <2>5 DEF Staged
<1>7. Based(w)'
  <2>1. Seen(w)'
    BY <1>1, <1>4 DEF Seen
  <2>2. QED
    BY <1>1, <1>2, <1>3, <2>1 DEF Facts, Based, Opening, InFlight, Unchanged
<1>8. QED
  BY <1>1, <1>2, <1>3, <1>5, <1>6, <1>7 DEF Facts, Frame, Same, Later, Histories

\* Dropping a batch leaves nothing of it.
LEMMA ResetIs ==
  ASSUME TypeOK, Histories, NEW w \in Worker, Reset(w)
  PROVE  /\ entries'[w] = <<>> /\ hashes'[w] = <<>> /\ new'[w] = NoArchive /\ ops'[w] = <<>> /\ ~taken'[w]
         /\ \A v \in Worker \ {w} : /\ entries'[v] = entries[v] /\ hashes'[v] = hashes[v] /\ new'[v] = new[v]
                                    /\ ops'[v] = ops[v] /\ taken'[v] = taken[v]
         /\ ops' \in [Worker -> Seq(Op)]
<1>1. <<>> \in Seq(Op)
  OBVIOUS
<1>2. QED
  BY <1>1 DEF TypeOK, Histories, Reset

\* A batch is given up,
LEMMA AbandonBatch ==
  ASSUME IInv, BatchInv, NEW w \in Worker, Abandon(w)
  PROVE  Frame(w) /\ Facts(w)' /\ Histories'
<1>1. UNCHANGED <<past, kind, opened, sent, mine>> /\ Reset(w) /\ TypeOK
  BY DEF Abandon, fileVars, IInv
<1>2. /\ pc'[w] = "done" /\ sent[w] # "out"
      /\ \A v \in Worker \ {w} : pc'[v] = pc[v] /\ answer'[v] = answer[v]
  BY DEF IInv, TypeOK, Abandon, End, Goto, Ordered
<1>3. Facts(w) /\ Histories
  BY DEF BatchInv
<1>4. Facts(w)'
  BY <1>1, <1>2 DEF Facts, Replies, Staged, Made, Based, Opening, InFlight
<1>5. QED
  BY <1>1, <1>2, <1>3, <1>4, ResetIs DEF Frame, Same, Later, Histories

\* the provider answers or not,
LEMMA ReceiveBatch ==
  ASSUME IInv, BatchInv, NEW w \in Worker, Receive(w)
  PROVE  Frame(w) /\ Facts(w)' /\ Histories'
<1>1. UNCHANGED <<past, kind, opened, mine>> /\ TypeOK /\ pc[w] = "waiting" /\ answer[w] = "none"
  BY DEF Receive, fileVars, IInv, BatchInv, Facts, Replies
<1>2. \A v \in Worker \ {w} : pc'[v] = pc[v] /\ answer'[v] = answer[v] /\ sent'[v] = sent[v]
  BY <1>1 DEF Receive, TypeOK, End, Goto
<1>3. Facts(w) /\ Histories
  BY DEF BatchInv
<1>4. CASE sent'[w] # "out" /\ pc'[w] = "done" /\ Reset(w)
  <2>1. Facts(w)'
    BY <1>4 DEF Facts, Replies, Staged, Made, Based, Opening, InFlight
  <2>2. QED
    BY <1>1, <1>2, <1>3, <1>4, <2>1, ResetIs DEF Frame, Same, Later, Histories
<1>5. CASE /\ sent[w] = "applied" /\ sent'[w] = "no" /\ kind[w] # "whole" /\ pc'[w] = "statting"
           /\ UNCHANGED <<answer, entries, hashes, ops, new, taken>>
  <2>1. new[w] # NoArchive /\ taken[w]
    BY <1>1, <1>3, <1>5 DEF Facts, Made, Replies, InFlight
  <2>2. Replies(w)' /\ Staged(w)' /\ Made(w)'
    BY <1>1, <1>5, <2>1 DEF Replies, Staged, Made, Opening, InFlight
  <2>3. Based(w)'
    BY <1>1, <1>3, <1>5, <2>1 DEF Facts, Based, Opening, InFlight, Unchanged, Paths
  <2>4. QED
    BY <1>1, <1>2, <1>3, <1>5, <2>2, <2>3 DEF Facts, Frame, Same, Later, Histories
<1>6. CASE pc'[w] = "done" /\ answer'[w] = "unconfirmed" /\ UNCHANGED <<entries, hashes, ops, new, taken, sent>>
  <2>1. Replies(w)' /\ Staged(w)'
    BY <1>1, <1>3, <1>6 DEF Facts, Replies, Staged, Opening
  <2>2. Made(w)'
    BY <1>1, <1>3, <1>6 DEF Facts, Made, InFlight, Listing
  <2>3. Based(w)'
    BY <1>1, <1>3, <1>6 DEF Facts, Based, Opening, InFlight, Unchanged, Seen, Touched, Paths, Now
  <2>4. QED
    BY <1>1, <1>2, <1>3, <1>6, <2>1, <2>2, <2>3 DEF Facts, Frame, Same, Later, Histories
<1>7. QED
  BY <1>1, <1>4, <1>5, <1>6 DEF Receive, TypeOK, End, Goto, batchVars

\* the bytes are read: at first the baseline is the revision; after a replacement the
\* files that it left alone are still those of the baseline.
LEMMA OpenReadBatch ==
  ASSUME IInv, BatchInv, NEW w \in Worker, OpenRead(w)
  PROVE  Frame(w) /\ Facts(w)' /\ Histories'
<1>1. UNCHANGED <<past, kind, sent>> /\ TypeOK /\ pc[w] = "reading" /\ kind[w] # "whole" /\ sent[w] # "out"
      /\ Now' = Now /\ Now \in Nat /\ Now # 0 /\ past[Now] \in Archive /\ past' = past
  BY DEF OpenRead, fileVars, IInv, Ordered, TypeOK, Now
<1>2. Facts(w) /\ Histories /\ answer[w] = "none"
  BY <1>1 DEF BatchInv, Facts, Replies
<1>3. CASE CannotOpen(w, "reading") /\ UNCHANGED <<batchVars, new, histVars>>
  <2>1. /\ UNCHANGED <<opened, entries, hashes, ops, new, taken, mine>> /\ pc'[w] = "done"
        /\ \A v \in Worker \ {w} : pc'[v] = pc[v] /\ answer'[v] = answer[v]
    BY <1>1, <1>3 DEF CannotOpen, End, Goto, batchVars, histVars, TypeOK
  <2>2. Facts(w)'
    BY <1>1, <2>1 DEF Facts, Replies, Staged, Made, Based, Opening, InFlight
  <2>3. QED
    BY <1>1, <1>2, <2>1, <2>2 DEF Frame, Same, Later, Histories
<1>4. ASSUME pc' = [pc EXCEPT ![w] = "ready"], opened' = [opened EXCEPT ![w].bytes = Now], answer' = answer
      PROVE  /\ pc'[w] = "ready" /\ opened'[w].bytes = Now /\ opened'[w].rev = opened[w].rev
             /\ opened'[w].baseline = opened[w].baseline /\ answer'[w] = "none"
             /\ \A v \in Worker \ {w} : pc'[v] = pc[v] /\ opened'[v] = opened[v] /\ answer'[v] = answer[v]
  <2>1. opened \in [Worker -> [rev : 0..Now, token : 0..Now, baseline : 0..Now, bytes : 0..Now]]
    BY <1>1 DEF TypeOK, Version
  <2>2. QED
    BY <1>1, <1>2, <1>4, <2>1 DEF TypeOK
<1>5. CASE /\ new[w] = NoArchive /\ Goto(w, "reading", "ready") /\ opened' = [opened EXCEPT ![w].bytes = Now]
           /\ UNCHANGED <<answer, batchVars, new, histVars>>
  <2>1. UNCHANGED <<answer, entries, hashes, ops, new, taken, mine>> /\ pc' = [pc EXCEPT ![w] = "ready"]
    BY <1>5 DEF Goto, batchVars, histVars
  <2>2. ops[w] = <<>> /\ hashes[w] = <<>> /\ ~taken[w] /\ new[w] = NoArchive
        /\ opened[w].baseline = opened[w].rev /\ opened[w].rev # 0
    BY <1>1, <1>2, <1>5 DEF Facts, Replies, Based, Opening
  <2>3. Replies(w)' /\ Staged(w)' /\ Made(w)'
    BY <1>1, <1>4, <1>5, <2>1, <2>2 DEF Replies, Staged, Made, Opening, InFlight
  <2>4. Based(w)'
    BY <1>1, <1>4, <1>5, <2>1, <2>2 DEF Based, Opening, InFlight, Unchanged
  <2>5. QED
    BY <1>1, <1>2, <1>4, <1>5, <2>1, <2>3, <2>4 DEF Facts, Frame, Same, Later, Histories
<1>6. CASE /\ new[w] = past[Now] /\ Goto(w, "reading", "ready") /\ opened' = [opened EXCEPT ![w].bytes = Now]
           /\ mine' = [mine EXCEPT ![w] = @ \cup Paths(w)] /\ Reset(w) /\ UNCHANGED answer
  <2>1. pc' = [pc EXCEPT ![w] = "ready"]
    BY <1>6 DEF Goto
  <2>2. /\ mine' \in [Worker -> SUBSET Place] /\ mine'[w] = mine[w] \cup Paths(w)
        /\ \A v \in Worker \ {w} : mine'[v] = mine[v]
    <3>1. Paths(w) \subseteq Place
      <4>1. \A i \in DOMAIN ops[w] : ops[w][i] \in Op
        BY <1>2 DEF Histories
      <4>2. \A o \in Op : o.path \in Place
        BY DEF Op
      <4>3. QED
        BY <4>1, <4>2 DEF Paths
    <3>2. QED
      BY <1>2, <1>6, <3>1 DEF Histories
  <2>3. new[w] # NoArchive
    BY <1>1, <1>6, ArchiveAssumption
  <2>4. opened[w].baseline # 0 /\ Unchanged(past[Now], w, mine[w] \cup Paths(w))
    BY <1>1, <1>2, <1>6, <2>3 DEF Facts, Based, Opening
  <2>5. Replies(w)' /\ Staged(w)' /\ Made(w)'
    BY <1>1, <1>2, <1>4, <1>6, <2>1, ResetIs DEF Replies, Staged, Made, Opening, InFlight
  <2>6. Based(w)'
    BY <1>1, <1>4, <1>6, <2>1, <2>2, <2>4 DEF Based, Opening, InFlight, Unchanged
  <2>7. QED
    BY <1>1, <1>2, <1>4, <1>6, <2>1, <2>2, <2>5, <2>6, ResetIs DEF Facts, Frame, Same, Later, Histories
<1>7. QED
  BY <1>3, <1>5, <1>6 DEF OpenRead

\* What staging has to keep, for any operation.
LEMMA StagedOneMore ==
  ASSUME IInv, BatchInv, NEW w \in Worker, pc[w] = "staging", NEW o \in Op,
         ops' = [ops EXCEPT ![w] = Append(@, o)],
         UNCHANGED <<past, pc, kind, opened, new, sent, answer, taken, mine>>,
         NEW es \in Entries, entries' = [entries EXCEPT ![w] = es],
         NEW ds \in Digests, hashes' = [hashes EXCEPT ![w] = ds],
         StagedOn(past[opened[w].bytes], es),
         \A p \in DOMAIN es : es[p].index = "staged" =>
           IsPrefix(o.path, p) \/ (p \in DOMAIN entries[w] /\ entries[w][p].index = "staged"),
         \A p \in DOMAIN ds : p \in DOMAIN es /\ es[p].index = "staged" /\ es[p].is = ds[p],
         View(es) = Abstract!Do(View(entries[w]), o),
         o.op = "put" /\ o.expected # 0 =>
           /\ o.expected = opened[w].baseline
           /\ o.path \in DOMAIN entries[w] /\ entries[w][o.path].is # Folder
  PROVE  Frame(w) /\ Facts(w)' /\ Histories'
<1>1. /\ Facts(w) /\ Histories /\ TypeOK /\ kind[w] # "whole" /\ sent[w] # "out"
      /\ opened[w].bytes # 0 /\ past[opened[w].bytes] \in Archive
  BY BytesAre DEF BatchInv, IInv, Ordered
<1>2. ops[w] \in Seq(Op) /\ ops'[w] = Append(ops[w], o) /\ ops' \in [Worker -> Seq(Op)]
  BY <1>1 DEF Histories
<1>3. /\ Len(ops'[w]) = Len(ops[w]) + 1 /\ Len(ops[w]) \in Nat
      /\ ops'[w][Len(ops[w]) + 1] = o /\ \A i \in 1..Len(ops[w]) : ops'[w][i] = ops[w][i]
      /\ DOMAIN ops[w] = 1..Len(ops[w]) /\ DOMAIN ops'[w] = 1..(Len(ops[w]) + 1)
  BY <1>2, AppendProperties
<1>4. entries'[w] = es /\ hashes'[w] = ds
      /\ \A v \in Worker \ {w} : entries'[v] = entries[v] /\ hashes'[v] = hashes[v] /\ ops'[v] = ops[v]
  BY <1>1 DEF TypeOK, Histories
<1>5. Frame(w) /\ Histories'
  BY <1>1, <1>2, <1>4 DEF Frame, Same, Later, Histories
<1>6. Replies(w)' /\ Made(w)'
  BY <1>1 DEF Facts, Replies, Made, Opening, InFlight
<1>7. Staged(w)'
  <2>1. \A p \in DOMAIN es : es[p].index = "staged" => \E j \in DOMAIN ops'[w] : IsPrefix(ops'[w][j].path, p)
    <3> SUFFICES ASSUME NEW p \in DOMAIN es, es[p].index = "staged"
                 PROVE  \E j \in 1..(Len(ops[w]) + 1) : IsPrefix(ops'[w][j].path, p)
      BY <1>3
    <3>1. CASE IsPrefix(o.path, p)
      BY <1>3, <3>1
    <3>2. CASE p \in DOMAIN entries[w] /\ entries[w][p].index = "staged"
      <4>1. PICK j \in DOMAIN ops[w] : IsPrefix(ops[w][j].path, p)
        BY <1>1, <3>2 DEF Facts, Staged
      <4>2. QED
        BY <1>3, <4>1
    <3>3. QED
      BY <3>1, <3>2
  <2>2. View(es) = Abstract!DoAll(View(Listing(w)), ops'[w])
    <3>1. View(entries[w]) = Abstract!DoAll(View(Listing(w)), ops[w])
      BY <1>1 DEF Facts, Staged
    <3>2. Abstract!DoAll(View(Listing(w)), Append(ops[w], o))
            = Abstract!Do(Abstract!DoAll(View(Listing(w)), ops[w]), o)
      BY <1>2, DoAllUnfolds
    <3>3. QED
      BY <1>2, <3>1, <3>2
  <2>3. Listing(w)' = Listing(w)
    BY DEF Listing
  <2>4. QED
    BY <1>1, <1>4, <2>1, <2>2, <2>3 DEF Facts, Staged
<1>8. PICK n \in Nat : n = Len(ops[w])
  BY <1>3
<1>9. ASSUME opened[w].rev = opened[w].bytes PROVE Seen(w)'
  <2>1. Seen(w) /\ Unchanged(past[opened[w].bytes], w, mine[w]) /\ opened[w].baseline # 0
    BY <1>1, <1>9 DEF Facts, Based
  <2>2. ASSUME NEW i \in 1..Len(ops[w]) PROVE Touched(w, ops[w][i].path, i)' <=> Touched(w, ops[w][i].path, i)
    BY <1>3 DEF Touched
  <2>3. ASSUME o.op = "put", o.expected # 0, ~Touched(w, o.path, n + 1)'
        PROVE  /\ o.expected \in 1..Now
               /\ o.path \in DOMAIN past[o.expected]
               /\ past[o.expected][o.path] = past[opened[w].bytes][o.path]
    <3>1. entries[w][o.path].index # "staged"
      <4>1. ASSUME NEW j \in 1..Len(ops[w]), IsPrefix(ops[w][j].path, o.path) PROVE FALSE
        <5>1. j \in 1..((n + 1) - 1) /\ ops'[w][j] = ops[w][j]
          BY <1>3, <1>8
        <5>2. QED
          BY <2>3, <4>1, <5>1 DEF Touched
      <4>2. QED
        BY <1>1, <1>3, <2>3, <4>1 DEF Facts, Staged
    <3>2. o.path \in DOMAIN Listing(w) /\ entries[w][o.path] = Listing(w)[o.path]
      BY <1>1, <2>3, <3>1 DEF Facts, Staged, StagedOn, Listing
    <3>3. o.path \in DOMAIN past[opened[w].bytes]
      <4>1. ASSUME o.path \notin DOMAIN past[opened[w].bytes] PROVE FALSE
        <5>1. Listing(w)[o.path] = [index |-> "implied", is |-> Folder]
          BY <1>1, <3>2, <4>1, IndexIs DEF Listing
        <5>2. QED
          BY <2>3, <3>2, <5>1
      <4>2. QED
        BY <4>1
    <3>4. Listing(w)[o.path] = [index |-> "member", is |-> past[opened[w].bytes][o.path]]
      BY <1>1, <3>3, IndexIs DEF Listing
    <3>5. past[opened[w].bytes][o.path] # Folder
      BY <2>3, <3>2, <3>4
    <3>6. \A q \in mine[w] : ~IsPrefix(q, o.path)
      BY <2>3 DEF Touched
    <3>7. opened[w].baseline \in 1..Now
      BY <1>1, <2>1, OpenedIs
    <3>8. QED
      BY <2>1, <2>3, <3>3, <3>5, <3>6, <3>7 DEF Unchanged
  <2>4. ASSUME NEW i \in DOMAIN ops'[w], ops'[w][i].op = "put", ops'[w][i].expected # 0,
               ~Touched(w, ops[w][i].path, i)'
        PROVE  /\ ops'[w][i].expected \in 1..Now
               /\ ops'[w][i].path \in DOMAIN past[ops'[w][i].expected]
               /\ past[ops'[w][i].expected][ops'[w][i].path] = past[opened[w].bytes][ops'[w][i].path]
    <3>1. CASE i = n + 1
      BY <1>3, <1>8, <2>3, <2>4, <3>1
    <3>2. CASE i \in 1..Len(ops[w])
      <4>1. ops'[w][i] = ops[w][i]
        BY <1>3, <3>2
      <4>2. QED
        BY <1>3, <2>1, <2>2, <2>4, <3>2, <4>1 DEF Seen
    <3>3. QED
      BY <1>3, <1>8, <3>1, <3>2
  <2>5. QED
    BY <2>4 DEF Seen, Now
<1>10. Based(w)'
  BY <1>1, <1>9 DEF Facts, Based, Opening, InFlight, Unchanged
<1>11. QED
  BY <1>5, <1>6, <1>7, <1>10 DEF Facts

\* A file or folder is staged,
LEMMA StageWriteBatch ==
  ASSUME IInv, BatchInv, NEW w \in Worker, StageWrite(w)
  PROVE  Frame(w) /\ Facts(w)' /\ Histories'
<1>1. PICK p \in Path, x \in {w, Folder}, e \in {0} \cup 1..Now :
        /\ MayWrite(w, p, x, e)
        /\ entries' = [entries EXCEPT ![w] =
             [q \in DOMAIN @ \cup {p} |-> IF q = p THEN [index |-> "staged", is |-> x] ELSE @[q]]]
        /\ hashes' = [hashes EXCEPT ![w] =
             IF x = Folder THEN @ ELSE [q \in DOMAIN @ \cup {p} |-> IF q = p THEN x ELSE @[q]]]
        /\ Log(w, IF x = Folder THEN "mkdir" ELSE "put", p, x, e)
  BY DEF StageWrite
<1>2. /\ pc[w] = "staging" /\ TypeOK /\ Facts(w) /\ opened[w].bytes # 0 /\ past[opened[w].bytes] \in Archive
      /\ UNCHANGED <<past, pc, kind, opened, new, sent, answer, taken, mine>>
  BY BytesAre DEF IInv, Ordered, StageWrite, fileVars, histVars, BatchInv
<1> DEFINE row == [index |-> "staged", is |-> x]
           es == [q \in DOMAIN entries[w] \cup {p} |-> IF q = p THEN row ELSE entries[w][q]]
           ds == IF x = Folder THEN hashes[w]
                 ELSE [q \in DOMAIN hashes[w] \cup {p} |-> IF q = p THEN x ELSE hashes[w][q]]
           o == [op |-> IF x = Folder THEN "mkdir" ELSE "put", path |-> p, data |-> x, expected |-> e]
<1>3. entries[w] \in Entries /\ hashes[w] \in Digests
  BY <1>2 DEF TypeOK
<1>4. row \in Row /\ row.index = "staged" /\ row.is = x /\ p \in Place
  BY DEF Row, Content, Place
<1>5. /\ DOMAIN es = DOMAIN entries[w] \cup {p} /\ es[p] = row
      /\ \A q \in DOMAIN entries[w] \ {p} : es[q] = entries[w][q]
  OBVIOUS
<1>6. es \in Entries
  <2> HIDE DEF row
  <2>1. QED
    BY <1>3, <1>4, AddRow DEF Place
<1>7. ds \in Digests
  <2>1. CASE x = Folder
    BY <1>3, <2>1
  <2>2. CASE x # Folder
    <3>1. x \in Worker
      BY <2>2
    <3>2. [q \in DOMAIN hashes[w] \cup {p} |-> IF q = p THEN x ELSE hashes[w][q]] \in Digests
      BY <1>3, <3>1, AddDigest
    <3>3. QED
      BY <2>2, <3>2
  <2>3. QED
    BY <2>1, <2>2
<1>8. StagedOn(past[opened[w].bytes], es)
  <2>1. StagedOn(past[opened[w].bytes], entries[w])
    BY <1>2 DEF Facts, Staged
  <2>2. Front(p) \in DOMAIN entries[w]
    BY <1>1 DEF MayWrite, Exists
  <2> HIDE DEF row
  <2>3. QED
    BY <1>2, <1>3, <1>4, <2>1, <2>2, WrittenCopy
<1>9. \A q \in DOMAIN es : es[q].index = "staged" =>
         IsPrefix(o.path, q) \/ (q \in DOMAIN entries[w] /\ entries[w][q].index = "staged")
  <2>1. o.path = p /\ IsPrefix(p, p)
    BY <1>4, PrefixRefl
  <2> HIDE DEF es, o
  <2>2. QED
    BY <1>5, <2>1
<1>10. \A q \in DOMAIN ds : q \in DOMAIN es /\ es[q].index = "staged" /\ es[q].is = ds[q]
  <2>1. \A q \in DOMAIN hashes[w] : q \in DOMAIN entries[w] /\ entries[w][q].index = "staged"
                                     /\ entries[w][q].is = hashes[w][q]
    BY <1>2 DEF Facts, Staged
  <2>2. CASE x = Folder
    <3>1. p \notin DOMAIN entries[w] /\ ds = hashes[w]
      BY <1>1, <2>2 DEF MayWrite, Exists
    <3> HIDE DEF es, ds
    <3>2. QED
      BY <1>5, <2>1, <3>1
  <2>3. CASE x # Folder
    <3>1. /\ DOMAIN ds = DOMAIN hashes[w] \cup {p} /\ ds[p] = x
          /\ \A q \in DOMAIN hashes[w] \ {p} : ds[q] = hashes[w][q]
      BY <2>3
    <3> HIDE DEF es, ds
    <3>2. QED
      BY <1>4, <1>5, <2>1, <3>1
  <2>4. QED
    BY <2>2, <2>3
<1>11. o.path = p /\ o.data = x /\ (o.op = "put" \/ (o.op = "mkdir" /\ x = Folder)) /\ o.expected = e
  OBVIOUS
<1>12. View(es) = Abstract!Do(View(entries[w]), o)
  <2> HIDE DEF o
  <2>1. QED
    BY <1>11, ViewOfWritten
<1>13. o \in Op
  <2>1. x \in Content \cup Tree /\ e \in Nat
    BY <1>2 DEF Content, TypeOK, Now
  <2>2. QED
    BY <1>4, <2>1 DEF Op
<1>14. o.op = "put" /\ o.expected # 0 =>
           /\ o.expected = opened[w].baseline
           /\ o.path \in DOMAIN entries[w] /\ entries[w][o.path].is # Folder
  BY <1>1, <1>11 DEF MayWrite, Exists
<1>15. /\ entries' = [entries EXCEPT ![w] = es] /\ hashes' = [hashes EXCEPT ![w] = ds]
       /\ ops' = [ops EXCEPT ![w] = Append(@, o)]
  BY <1>1 DEF Log
<1> HIDE DEF es, ds, o
<1>16. QED
  BY <1>2, <1>6, <1>7, <1>8, <1>9, <1>10, <1>12, <1>13, <1>14, <1>15, StagedOneMore

\* everything under a path is staged to go,
LEMMA StageDeleteBatch ==
  ASSUME IInv, BatchInv, NEW w \in Worker, StageDelete(w)
  PROVE  Frame(w) /\ Facts(w)' /\ Histories'
<1> DEFINE o(p) == [op |-> "delete", path |-> p, data |-> Folder, expected |-> 0]
<1>1. PICK p \in Path :
        /\ entries' = [entries EXCEPT ![w] = Without(@, p)]
        /\ hashes' = [hashes EXCEPT ![w] = Without(@, p)]
        /\ ops' = [ops EXCEPT ![w] = Append(@, o(p))]
  BY DEF StageDelete, Log
<1>2. /\ pc[w] = "staging" /\ TypeOK /\ Facts(w) /\ opened[w].bytes # 0 /\ past[opened[w].bytes] \in Archive
      /\ UNCHANGED <<past, pc, kind, opened, new, sent, answer, taken, mine>>
  BY BytesAre DEF IInv, Ordered, StageDelete, fileVars, histVars, BatchInv
<1>3. entries[w] \in Entries /\ hashes[w] \in Digests
  BY <1>2 DEF TypeOK
<1>4. Without(entries[w], p) \in Entries
  BY <1>3, WithoutType DEF Entries
<1>5. Without(hashes[w], p) \in Digests
  BY <1>3, WithoutType DEF Digests
<1>6. StagedOn(past[opened[w].bytes], Without(entries[w], p))
  BY <1>2, <1>3, PrunedCopy DEF Facts, Staged
<1>7. \A q \in DOMAIN Without(entries[w], p) :
        q \in DOMAIN entries[w] /\ ~IsPrefix(p, q) /\ Without(entries[w], p)[q] = entries[w][q]
  BY DEF Without
<1>8. \A q \in DOMAIN Without(hashes[w], p) :
        /\ q \in DOMAIN Without(entries[w], p) /\ Without(entries[w], p)[q].index = "staged"
        /\ Without(entries[w], p)[q].is = Without(hashes[w], p)[q]
  BY <1>2 DEF Without, Facts, Staged
<1>9. o(p).path = p /\ o(p).op = "delete"
  OBVIOUS
<1>10. o(p) \in Op
  BY DEF Op, Content, Place
<1>11. PICK r \in Op : r = o(p)
  BY <1>10
<1>12. View(Without(entries[w], p)) = Abstract!Do(View(entries[w]), r)
  BY <1>9, <1>11, ViewOfWithout
<1>13. ops' = [ops EXCEPT ![w] = Append(@, r)] /\ r.op # "put" /\ r.path = p
  BY <1>1, <1>9, <1>11
<1>14. \A q \in DOMAIN Without(entries[w], p) : Without(entries[w], p)[q].index = "staged" =>
         IsPrefix(r.path, q) \/ (q \in DOMAIN entries[w] /\ entries[w][q].index = "staged")
  BY <1>7
<1> DEFINE es == Without(entries[w], p)
           ds == Without(hashes[w], p)
<1> HIDE DEF o, es, ds
<1>15. entries' = [entries EXCEPT ![w] = es] /\ hashes' = [hashes EXCEPT ![w] = ds]
  BY <1>1 DEF es, ds
<1>16. /\ es \in Entries /\ ds \in Digests /\ StagedOn(past[opened[w].bytes], es)
       /\ View(es) = Abstract!Do(View(entries[w]), r)
  BY <1>4, <1>5, <1>6, <1>12 DEF es, ds
<1>17. /\ \A q \in DOMAIN ds : q \in DOMAIN es /\ es[q].index = "staged" /\ es[q].is = ds[q]
       /\ \A q \in DOMAIN es : es[q].index = "staged" =>
            IsPrefix(r.path, q) \/ (q \in DOMAIN entries[w] /\ entries[w][q].index = "staged")
  BY <1>8, <1>14 DEF es, ds
<1>18. QED
  BY <1>2, <1>13, <1>15, <1>16, <1>17, StagedOneMore

\* the copy is rewritten and verified, or nothing is to change,
LEMMA CommitBatch ==
  ASSUME IInv, BatchInv, NEW w \in Worker, Commit(w)
  PROVE  Frame(w) /\ Facts(w)' /\ Histories'
<1>1. /\ UNCHANGED <<past, kind, opened, sent, answer, mine>> /\ TypeOK
      /\ pc[w] = "staging" /\ kind[w] # "whole" /\ sent[w] # "out"
      /\ opened[w].bytes # 0 /\ past[opened[w].bytes] \in Archive
  BY BytesAre DEF Commit, fileVars, IInv, Ordered
<1>2. Facts(w) /\ Histories
  BY DEF BatchInv
<1> DEFINE ms == past[opened[w].bytes]
           es == entries[w]
           made == Rewrite(ms, Removed(Index(ms), es), Added(es), es)
<1>3. es \in Entries /\ StagedOn(ms, es) /\ es[Root].index # "staged" /\ ms \in Archive
  BY <1>1, <1>2 DEF TypeOK, Facts, Staged, IInv, Ready, StagedOn
<1>4. CASE Goto(w, "staging", "ready") /\ Reset(w)
  <2>1. pc'[w] = "ready" /\ \A v \in Worker \ {w} : pc'[v] = pc[v]
    BY <1>1, <1>4 DEF Goto, TypeOK
  <2>2. Replies(w)' /\ Staged(w)' /\ Made(w)'
    BY <1>1, <1>2, <1>4, <2>1, ResetIs DEF Facts, Replies, Staged, Made, Opening, InFlight
  <2>3. Based(w)'
    BY <1>1, <1>2, <2>1 DEF Facts, Based, Opening, InFlight, Unchanged
  <2>4. QED
    BY <1>1, <1>2, <1>4, <2>1, <2>2, <2>3, ResetIs DEF Facts, Frame, Same, Later, Histories
<1>5. CASE /\ Verified(made, es, hashes[w])
           /\ Goto(w, "staging", IF cloud THEN "comparing" ELSE "replacing")
           /\ new' = [new EXCEPT ![w] = made] /\ UNCHANGED <<batchVars, taken>>
  <2>1. /\ pc'[w] \in {"comparing", "replacing"} /\ new'[w] = made /\ UNCHANGED <<entries, hashes, ops, taken>>
        /\ \A v \in Worker \ {w} : pc'[v] = pc[v] /\ new'[v] = new[v]
    BY <1>1, <1>5 DEF Goto, batchVars, TypeOK
  <2>2. made \in Archive /\ made # NoArchive
    BY <1>3, RewriteTyped, ArchiveAssumption
  <2>3. View(Index(made)) = View(es)
    <3>1. DOMAIN Index(made) = DOMAIN es
      BY <1>5 DEF Verified
    <3> HIDE DEF ms, es
    <3>2. QED
      BY <1>3, <3>1, SameDomain
  <2>4. View(Index(made)) = Abstract!DoAll(View(Listing(w)), ops[w])
    BY <1>1, <1>2, <2>3 DEF Facts, Staged
  <2>5. ASSUME Unchanged(ms, w, mine[w]) PROVE Unchanged(made, w, mine[w] \cup Paths(w))
    <3> SUFFICES ASSUME NEW p \in DOMAIN made, made[p] # Folder,
                        \A q \in mine[w] \cup Paths(w) : ~IsPrefix(q, p)
                 PROVE  p \in DOMAIN past[opened[w].baseline] /\ past[opened[w].baseline][p] = made[p]
      BY DEF Unchanged
    <3>1. p \in DOMAIN es /\ made[p] = es[p].is
      <4> HIDE DEF ms, es
      <4>1. QED
        BY <1>3, RewriteIs
    <3>2. es[p].index # "staged"
      BY <1>1, <1>2, <3>1 DEF Facts, Staged, Paths
    <3>3. p \in DOMAIN Index(ms) /\ es[p] = Index(ms)[p]
      <4> HIDE DEF ms, es
      <4>1. QED
        BY <1>3, <3>1, <3>2 DEF StagedOn
    <3>4. p \in DOMAIN ms
      <4>1. ASSUME p \notin DOMAIN ms PROVE FALSE
        <5>1. Index(ms)[p] = [index |-> "implied", is |-> Folder]
          BY <1>3, <3>3, <4>1, IndexIs
        <5>2. es[p].is = Folder
          BY <3>3, <5>1
        <5>3. QED
          BY <3>1, <5>2
      <4>2. QED
        BY <4>1
    <3>5. Index(ms)[p] = [index |-> "member", is |-> ms[p]]
      BY <1>3, <3>4, IndexIs
    <3>6. ms[p] = made[p]
      <4>1. es[p].is = ms[p]
        BY <3>3, <3>5
      <4>2. QED
        BY <3>1, <4>1
    <3>7. QED
      BY <2>5, <3>4, <3>6 DEF Unchanged
  <2> HIDE DEF made
  <2>6. Replies(w)' /\ Staged(w)'
    BY <1>1, <1>2, <2>1 DEF Facts, Replies, Staged, Opening
  <2>7. Made(w)'
    BY <1>1, <2>1, <2>2, <2>4 DEF Made, InFlight, Listing
  <2>8. ASSUME opened[w].rev = opened[w].bytes
        PROVE  Unchanged(ms, w, mine[w]) /\ Seen(w)
    BY <1>1, <1>2, <2>8 DEF Facts, Based
  <2>9. Based(w)'
    <3>1. opened[w].baseline # 0
      BY <1>1, <1>2 DEF Facts, Based
    <3>2. ASSUME opened[w].rev = opened[w].bytes
          PROVE  /\ Unchanged(ms, w, mine[w])' /\ Seen(w)' /\ Unchanged(new[w], w, mine[w] \cup Paths(w))'
      BY <1>1, <2>1, <2>5, <2>8, <3>2 DEF Unchanged, Seen, Touched, Paths, Now
    <3>3. QED
      BY <1>1, <2>1, <3>1, <3>2 DEF Based, Opening, InFlight
  <2>10. QED
    BY <1>1, <1>2, <2>1, <2>6, <2>7, <2>9 DEF Facts, Frame, Same, Later, Histories
<1>6. QED
  BY <1>4, <1>5 DEF Commit, Listing

\* a local archive is replaced,
LEMMA ReplaceBatch ==
  ASSUME IInv, BatchInv, NEW w \in Worker, Replace(w)
  PROVE  Frame(w) /\ Facts(w)' /\ Histories'
<1>1. /\ UNCHANGED <<kind, opened, entries, hashes, ops, new, sent, mine>> /\ TypeOK
      /\ pc[w] = "replacing" /\ kind[w] # "whole" /\ sent[w] # "out" /\ new[w] \in Archive
      /\ past' = Append(past, new[w]) /\ opened[w].rev = Now /\ opened[w].bytes = Now
  BY ReplaceStep DEF Replace, Install, batchVars, IInv, Ordered, Ready
<1>2. Facts(w) /\ Histories
  BY DEF BatchInv
<1>3. /\ (pc'[w] = "statting" /\ answer'[w] = answer[w]) \/ pc'[w] = "done"
      /\ taken'[w]
      /\ \A v \in Worker \ {w} : pc'[v] = pc[v] /\ answer'[v] = answer[v] /\ taken'[v] = taken[v]
  BY <1>1 DEF Replace, Install, Goto, End, TypeOK
<1>4. Later
  BY <1>1 DEF Later
<1>5. new[w] # NoArchive
  BY <1>1, ArchiveAssumption
<1>6. Replies(w)' /\ Staged(w)' /\ Made(w)'
  BY <1>1, <1>2, <1>3, <1>5 DEF Facts, Replies, Staged, Made, Opening, InFlight
<1>7. Based(w)'
  <2>1. opened[w].baseline # 0 /\ Unchanged(new[w], w, mine[w] \cup Paths(w))
    BY <1>1, <1>2 DEF Facts, Based, InFlight
  <2>2. opened[w].baseline \in 1..Now
    BY <1>1, <2>1, OpenedIs
  <2>3. past'[opened[w].baseline] = past[opened[w].baseline]
    BY <1>1, <1>4, <2>2, LaterIs
  <2>4. Unchanged(new[w], w, mine[w] \cup Paths(w))'
    BY <1>1, <2>1, <2>3 DEF Unchanged, Paths
  <2>5. QED
    BY <1>1, <1>3, <2>1, <2>4 DEF Based, Opening, InFlight
<1>8. QED
  BY <1>1, <1>2, <1>3, <1>4, <1>6, <1>7 DEF Facts, Frame, Same, Histories

\* the provider acts on the request.
LEMMA ProvideBatch ==
  ASSUME IInv, BatchInv, NEW w \in Worker, Provide(w)
  PROVE  Frame(w) /\ Facts(w)' /\ Histories'
<1>1. /\ UNCHANGED <<pc, kind, opened, entries, hashes, ops, new, answer, mine>> /\ TypeOK
      /\ sent[w] = "out" /\ pc[w] \in {"waiting", "done"} /\ new[w] \in Archive
  BY DEF Provide, Install, batchVars, histVars, IInv, Ordered, Ready
<1>2. Facts(w) /\ Histories
  BY DEF BatchInv
<1>3. /\ \A v \in Worker \ {w} : sent'[v] = sent[v] /\ taken'[v] = taken[v]
      /\ \/ sent'[w] = "applied" /\ taken'[w] /\ past' = Append(past, new[w])
         \/ sent'[w] = "refused" /\ taken'[w] = taken[w] /\ past' = past
  BY <1>1 DEF Provide, Install, TypeOK, fileVars, histVars
<1>4. Later
  BY <1>1, <1>3 DEF Later
<1>5. Replies(w)'
  BY <1>1, <1>2, <1>3 DEF Facts, Replies, Opening
<1>6. Kept(w)
  BY <1>1, <1>3 DEF Kept
<1>7. Staged(w)' /\ Made(w)' /\ Based(w)'
  BY <1>2, <1>4, <1>6, WorkIsKept
<1>8. QED
  BY <1>1, <1>2, <1>3, <1>4, <1>5, <1>7 DEF Facts, Frame, Same, Histories

\* Every step keeps all of it.
LEMMA StepBatch == IInv /\ BatchInv /\ [Next]_vars => BatchInv'
<1> SUFFICES ASSUME IInv, BatchInv, [Next]_vars PROVE BatchInv'
  OBVIOUS
<1>1. CASE UNCHANGED vars
  <2>1. UNCHANGED <<past, cloud, pc, kind, opened, entries, hashes, ops, new, sent, left, answer, taken, mine>>
    BY <1>1 DEF vars, fileVars, batchVars, histVars
  <2>2. Later /\ \A w \in Worker : Same(w)
    BY <2>1 DEF Later, Same
  <2>3. \A w \in Worker : Facts(w)'
    BY <2>2, SameKeeps DEF BatchInv
  <2>4. QED
    BY <2>1, <2>3 DEF BatchInv, Histories
<1>2. CASE Outside
  <2>1. /\ \E a \in Archive : past' = Append(past, a)
        /\ UNCHANGED <<pc, kind, opened, entries, hashes, ops, new, sent, answer, taken, mine>>
    BY <1>2, ArchiveAssumption DEF Outside, batchVars, histVars
  <2>2. Later /\ \A w \in Worker : Same(w)
    BY <2>1 DEF Later, Same
  <2>3. \A w \in Worker : Facts(w)'
    BY <2>2, SameKeeps DEF BatchInv
  <2>4. QED
    BY <2>1, <2>3 DEF BatchInv, Histories
<1>3. ASSUME NEW w \in Worker,
             \/ Request(w) \/ RequestWhole(w) \/ CheckWhole(w)
             \/ OpenStat(w) \/ OpenToken(w) \/ OpenRead(w) \/ Finish(w)
             \/ Begin(w) \/ StageWrite(w) \/ StageDelete(w) \/ Abandon(w) \/ Commit(w)
             \/ Replace(w) \/ Compare(w) \/ Provide(w) \/ Receive(w)
      PROVE  BatchInv'
  <2>1. Frame(w) /\ Facts(w)' /\ Histories'
    BY <1>3, RequestBatch, RequestWholeBatch, CheckWholeBatch, OpenStatBatch, OpenTokenBatch, OpenReadBatch,
       FinishBatch, BeginBatch, StageWriteBatch, StageDeleteBatch, AbandonBatch, CommitBatch,
       ReplaceBatch, CompareBatch, ProvideBatch, ReceiveBatch
  <2>2. QED
    BY <2>1, FrameKeeps
<1>4. QED
  BY <1>1, <1>2, <1>3 DEF Next

\* The invariant of the batches.
THEOREM BatchInvariance == Spec => []BatchInv
<1>1. Init => BatchInv
  BY InitBatch
<1>2. QED
  BY <1>1, StepBatch, Invariance, PTL DEF Spec

\* A faithful archiver is never refused: the members removed and the rows written by
\* batch.changes make exactly the staged listing, and the verification in commit accepts it.
THEOREM StagedChangesSuffice == Spec => []ChangesMakeListing
<1>1. IInv /\ BatchInv => ChangesMakeListing
  <2> SUFFICES ASSUME IInv, BatchInv, NEW w \in Worker, pc[w] = "staging"
      PROVE LET after == entries[w]
                made == Rewrite(past[opened[w].bytes], Removed(Listing(w), after), Added(after), after)
            IN Verified(made, after, hashes[w]) /\ View(Index(made)) = View(after)
    BY DEF ChangesMakeListing
  <2> DEFINE ms == past[opened[w].bytes]
             es == entries[w]
             made == Rewrite(ms, Removed(Index(ms), es), Added(es), es)
  <2>1. opened[w].bytes # 0 /\ es \in Entries /\ Staged(w)
    BY DEF IInv, Ordered, TypeOK, BatchInv, Facts
  <2>2. ms \in Archive /\ StagedOn(ms, es) /\ es[Root].index # "staged"
    BY <2>1, BytesAre DEF Staged, IInv, Ready, StagedOn
  <2>3. \A p \in DOMAIN hashes[w] : p \in DOMAIN es /\ es[p].index = "staged" /\ es[p].is = hashes[w][p]
    BY <2>1 DEF Staged
  <2> HIDE DEF ms, es
  <2>4. DOMAIN Index(made) = DOMAIN es
    BY <2>1, <2>2, ListedAgain
  <2>5. View(Index(made)) = View(es)
    BY <2>1, <2>2, <2>4, SameDomain
  <2>6. \A p \in DOMAIN es : Index(made)[p].is = es[p].is
    <3>1. \A p \in DOMAIN es : View(es)[p] = es[p].is
      BY DEF View
    <3>2. \A p \in DOMAIN es : View(Index(made))[p] = Index(made)[p].is
      BY <2>4 DEF View
    <3>3. QED
      BY <2>5, <3>1, <3>2
  <2>7. \A p \in DOMAIN hashes[w] : p \in DOMAIN made /\ made[p] = hashes[w][p]
    BY <2>1, <2>2, <2>3, RewriteIs
  <2>8. Verified(made, es, hashes[w])
    BY <2>4, <2>6, <2>7 DEF Verified
  <2>9. QED
    BY <2>5, <2>8 DEF ms, es, Listing
<1>2. QED
  BY <1>1, Invariance, BatchInvariance, PTL

\* A file that a batch replaces is still what it was at the version the caller named, or
\* what this request made of it (folders.go, the baseline that revisions are computed from).
THEOREM FilesWereSeen == Spec => ReplacesOnlyWhatWasSeen
<1> DEFINE P == \A w \in Worker : Installs(w) => \A i \in DOMAIN ops[w] :
                  LET o == ops[w][i] IN
                  o.op = "put" /\ o.expected # 0 /\ ~Touched(w, o.path, i) =>
                    /\ o.path \in DOMAIN past[o.expected]
                    /\ past[o.expected][o.path] = past[Now][o.path]
<1>1. IInv /\ BatchInv /\ Next => P
  <2> SUFFICES ASSUME IInv, BatchInv, Next, NEW w \in Worker, Installs(w),
                      NEW i \in DOMAIN ops[w], ops[w][i].op = "put", ops[w][i].expected # 0,
                      ~Touched(w, ops[w][i].path, i)
               PROVE  /\ ops[w][i].path \in DOMAIN past[ops[w][i].expected]
                      /\ past[ops[w][i].expected][ops[w][i].path] = past[Now][ops[w][i].path]
    OBVIOUS
  <2>1. (Replace(w) \/ Provide(w)) /\ opened[w].bytes = Now /\ Facts(w)
    BY WhoInstalls DEF BatchInv
  <2>2. InFlight(w)
    BY <2>1 DEF Replace, Provide, InFlight
  <2>3. kind[w] # "whole"
    <3>1. ASSUME kind[w] = "whole" PROVE FALSE
      <4>1. PICK v \in Nat :
              ops[w] = <<[op |-> "all", path |-> Root, data |-> View(Index(new[w])), expected |-> v]>>
        BY <2>1, <2>2, <3>1 DEF Facts, Made
      <4>2. i = 1 /\ ops[w][1].op = "all"
        BY <4>1
      <4>3. QED
        BY <4>2
    <3>2. QED
      BY <3>1
  <2>4. opened[w].rev = opened[w].bytes
    <3>1. CASE Replace(w)
      BY <2>1, <3>1 DEF Replace
    <3>2. CASE Provide(w)
      BY <2>1, <2>3, <3>2 DEF Provide, Facts, Based
    <3>3. QED
      BY <2>1, <3>1, <3>2
  <2>5. Seen(w)
    BY <2>1, <2>2, <2>3, <2>4 DEF Facts, Based
  <2>6. QED
    BY <2>1, <2>5 DEF Seen
<1>2. IInv /\ BatchInv /\ [Next]_vars => [P]_vars
  BY <1>1
<1>3. QED
  BY <1>2, Invariance, BatchInvariance, PTL DEF Spec, ReplacesOnlyWhatWasSeen

-----------------------------------------------------------------------------
(* The refinement of AtomicArchive. *)
\* The history as AtomicArchive sees it (Abstract).
Trees == [i \in DOMAIN past |-> View(Index(past[i]))]

\* The history as AtomicArchive sees it.
LEMMA TreesAre ==
  ASSUME TypeOK
  PROVE  /\ Trees \in Seq(Tree) /\ Len(Trees) = Now /\ DOMAIN Trees = 1..Now /\ Now \in Nat
         /\ \A i \in 1..Now : Trees[i] = View(Index(past[i]))
<1>1. past \in Seq(Archive) /\ Now \in Nat /\ DOMAIN past = 1..Now
  BY DEF TypeOK, Now
<1>2. \A i \in 1..Now : View(Index(past[i])) \in Tree
  BY <1>1, IndexType, ViewType DEF Now
<1>3. Trees \in [1..Now -> Tree] /\ \A i \in 1..Now : Trees[i] = View(Index(past[i]))
  BY <1>1, <1>2 DEF Trees
<1>4. QED
  BY <1>1, <1>3

\* It grows with the history.
LEMMA TreesGrow ==
  ASSUME TypeOK, NEW a \in Archive, past' = Append(past, a)
  PROVE  Trees' = Append(Trees, View(Index(a)))
<1>1. past \in Seq(Archive) /\ Now \in Nat /\ DOMAIN past = 1..Now
  BY DEF TypeOK, Now
<1>2. /\ past' \in Seq(Archive) /\ DOMAIN past' = 1..(Now + 1) /\ past'[Now + 1] = a
      /\ \A i \in 1..Now : past'[i] = past[i]
  BY <1>1 DEF Now
<1>3. DOMAIN Trees' = 1..(Now + 1) /\ \A i \in 1..(Now + 1) : Trees'[i] = View(Index(past'[i]))
  BY <1>2 DEF Trees
<1>4. View(Index(a)) \in Tree
  BY IndexType, ViewType
<1>5. PICK s \in Seq(Tree) : s = Append(Trees, View(Index(a)))
  <2>1. Trees \in Seq(Tree)
    BY TreesAre
  <2>2. Append(Trees, View(Index(a))) \in Seq(Tree)
    BY <1>4, <2>1, AppendProperties
  <2>3. QED
    BY <2>2
<1>6. /\ Len(s) = Now + 1 /\ s[Now + 1] = View(Index(a)) /\ \A i \in 1..Now : s[i] = Trees[i]
  BY <1>4, <1>5, TreesAre
<1>7. \A i \in 1..(Now + 1) : Trees'[i] = s[i]
  BY <1>1, <1>2, <1>3, <1>6, TreesAre
<1>8. Trees' = [i \in 1..(Now + 1) |-> Trees'[i]]
  BY <1>3 DEF Trees
<1>9. s = [i \in 1..(Now + 1) |-> s[i]]
  BY <1>6
<1>10. QED
  BY <1>5, <1>7, <1>8, <1>9

\* An action that changes nothing of what AtomicArchive tells apart.
LEMMA Stutters ==
  ASSUME UNCHANGED <<past, ops, taken, answer>> PROVE UNCHANGED Abstract!vars
  BY DEF Abstract!vars

\* The reply of a request is Answer.
LEMMA Replying ==
  ASSUME IInv, BatchInv, NEW w \in Worker, pc[w] # "done", UNCHANGED <<past, taken>>,
         \/ answer' = [answer EXCEPT ![w] = "unconfirmed"] /\ ops' = ops
         \/ answer' = [answer EXCEPT ![w] = "ok"] /\ ops' = ops /\ ops[w] = <<>>
         \/ answer' = [answer EXCEPT ![w] = "failed"] /\ ~taken[w] /\ ops' \in {ops, [ops EXCEPT ![w] = <<>>]}
  PROVE  Abstract!Next
<1>1. answer[w] = "none"
  BY DEF BatchInv, Facts, Replies
<1>2. Abstract!Answer(w)
  BY <1>1 DEF Abstract!Answer
<1>3. QED
  BY <1>2 DEF Abstract!Next

\* A batch that was not installed stays so when it is dropped.
LEMMA SameTaken ==
  ASSUME TypeOK, NEW w \in Worker, ~taken[w], taken' = [taken EXCEPT ![w] = FALSE] PROVE taken' = taken
  BY DEF TypeOK

\* Staging an operation is Ask.
LEMMA AskFor ==
  ASSUME IInv, BatchInv, NEW w \in Worker, NEW o \in Op, ~taken[w], pc[w] # "done",
         UNCHANGED <<past, taken, answer>>, ops' = [ops EXCEPT ![w] = Append(@, o)]
  PROVE  Abstract!Next
<1>1. answer[w] = "none" /\ ops \in [Worker -> Seq(Op)]
  BY DEF BatchInv, Facts, Replies, Histories
<1>2. ops'[w] = Append(ops[w], o) /\ ops'[w] # <<>> /\ Last(ops'[w]) = o
  BY <1>1 DEF Last
<1>3. ops' = [ops EXCEPT ![w] = Append(@, Last(ops'[w]))]
  BY <1>2
<1>4. Abstract!Last(ops'[w]) = Last(ops'[w])
  BY DEF Abstract!Last, Last
<1>5. Abstract!Ask(w)
  BY <1>1, <1>2, <1>3, <1>4 DEF Abstract!Ask
<1>6. QED
  BY <1>5 DEF Abstract!Next

\* Replacing the archive is Take: the bytes were those of the version that is replaced.
LEMMA Installing ==
  ASSUME IInv, BatchInv, NEW w \in Worker, Replace(w) \/ Provide(w), Install(w), opened[w].bytes = Now,
         ops' = ops, answer' \in {answer, [answer EXCEPT ![w] = "unconfirmed"]}
  PROVE  Abstract!Next
<1>1. TypeOK /\ Facts(w) /\ new[w] \in Archive /\ InFlight(w) /\ past[Now] \in Archive
  BY DEF IInv, BatchInv, Replace, Provide, Ready, InFlight, TypeOK, Now
<1>2. ~taken[w] /\ answer[w] \in {"none", "unconfirmed"}
  BY <1>1 DEF Facts, Replies, Replace, Provide
<1>3. Trees' = Append(Trees, View(Index(new[w])))
  BY <1>1, TreesGrow DEF Install
<1>4. Abstract!Last(Trees) = View(Index(past[Now]))
  BY <1>1, TreesAre DEF Abstract!Last, IInv, Now
<1>5. View(Index(new[w])) = Abstract!DoAll(View(Index(past[Now])), ops[w])
  <2>1. CASE kind[w] # "whole"
    BY <1>1, <2>1 DEF Facts, Made, Listing
  <2>2. CASE kind[w] = "whole"
    <3>1. PICK v \in Nat :
              ops[w] = <<[op |-> "all", path |-> Root, data |-> View(Index(new[w])), expected |-> v]>>
      BY <1>1, <2>2 DEF Facts, Made
    <3>2. PICK o : o = [op |-> "all", path |-> Root, data |-> View(Index(new[w])), expected |-> v]
      OBVIOUS
    <3>3. ops[w] = Append(<<>>, o) /\ o \in {o} /\ <<>> \in Seq({o})
      BY <3>1, <3>2
    <3>4. Abstract!DoAll(View(Index(past[Now])), ops[w]) = Abstract!Do(View(Index(past[Now])), o)
      <4>1. PICK t : t = View(Index(past[Now]))
        OBVIOUS
      <4>2. PICK s : s = <<>>
        OBVIOUS
      <4>3. s \in Seq({o}) /\ o \in {o}
        BY <3>3, <4>2
      <4>4. /\ Abstract!DoAll(t, <<>>) = t
            /\ Abstract!DoAll(t, Append(s, o)) = Abstract!Do(Abstract!DoAll(t, s), o)
        BY <4>3, DoAllUnfolds
      <4>5. QED
        BY <3>3, <4>1, <4>2, <4>4
    <3>5. o.op = "all" /\ o.data = View(Index(new[w]))
      BY <3>2
    <3>6. QED
      BY <3>4, <3>5 DEF Abstract!Do
  <2>3. QED
    BY <2>1, <2>2
<1>6. Abstract!Take(w)
  <2>1. taken' = [taken EXCEPT ![w] = TRUE]
    BY DEF Install
  <2>2. QED
    BY <1>2, <1>3, <1>4, <1>5, <2>1 DEF Abstract!Take, Trees
<1>7. QED
  BY <1>6 DEF Abstract!Next

\* The end of a batch that was installed, or changes nothing, is Settle.
LEMMA Settling ==
  ASSUME IInv, BatchInv, NEW w \in Worker, pc[w] # "done", UNCHANGED past,
         ops' = [ops EXCEPT ![w] = <<>>], taken' = [taken EXCEPT ![w] = FALSE],
         taken[w] \/ \E i \in 1..Now : Abstract!DoAll(View(Index(past[i])), ops[w]) = View(Index(past[i])),
         answer' \in {answer, [answer EXCEPT ![w] = "ok"]}
  PROVE  Abstract!Next
<1>1. answer[w] = "none" /\ TypeOK
  BY DEF BatchInv, Facts, Replies, IInv
<1>2. taken[w] \/ \E i \in DOMAIN Trees : Abstract!DoAll(Trees[i], ops[w]) = Trees[i]
  BY <1>1, TreesAre
<1>3. Abstract!Settle(w)
  BY <1>1, <1>2 DEF Abstract!Settle, Trees
<1>4. QED
  BY <1>3 DEF Abstract!Next

\* The actions one by one: the edit of a whole file is asked for,
LEMMA RequestWholeAsks ==
  ASSUME IInv, BatchInv, NEW w \in Worker, RequestWhole(w) PROVE Abstract!Next
<1>1. UNCHANGED <<past, answer, taken>> /\ pc[w] = "idle" /\ ops[w] = <<>> /\ ~taken[w] /\ Histories
  BY DEF RequestWhole, Goto, fileVars, histVars, BatchInv, Facts, Replies
<1>2. PICK v \in 1..Now, a \in Archive :
        ops' = [ops EXCEPT ![w] = <<[op |-> "all", path |-> Root, data |-> View(Index(a)), expected |-> v]>>]
  BY ArchiveAssumption DEF RequestWhole
<1> DEFINE o == [op |-> "all", path |-> Root, data |-> View(Index(a)), expected |-> v]
<1>3. o \in Op
  <2>1. View(Index(a)) \in Tree
    BY IndexType, ViewType
  <2>2. v \in Nat
    BY DEF IInv, TypeOK, Now
  <2>3. QED
    BY <2>1, <2>2 DEF Op, Place
<1>4. ops' = [ops EXCEPT ![w] = Append(@, o)]
  <2>1. ops' = [ops EXCEPT ![w] = <<o>>]
    BY <1>2
  <2>2. <<o>> = Append(ops[w], o)
    BY <1>1
  <2> HIDE DEF o
  <2>3. QED
    BY <2>1, <2>2
<1> HIDE DEF o
<1>5. QED
  BY <1>1, <1>3, <1>4, AskFor

\* an operation is staged,
LEMMA StageAsks ==
  ASSUME IInv, BatchInv, NEW w \in Worker, StageWrite(w) \/ StageDelete(w) PROVE Abstract!Next
<1>1. UNCHANGED <<past, answer, taken>> /\ pc[w] = "staging" /\ ~taken[w]
  BY DEF StageWrite, StageDelete, fileVars, histVars, BatchInv, Facts, Replies
<1>2. PICK k \in {"put", "mkdir", "delete"}, p \in Path, x \in {w, Folder}, e \in {0} \cup 1..Now :
        Log(w, k, p, x, e)
  <2>1. CASE StageWrite(w)
    <3>1. PICK p \in Path, x \in {w, Folder}, e \in {0} \cup 1..Now :
             Log(w, IF x = Folder THEN "mkdir" ELSE "put", p, x, e)
      BY <2>1 DEF StageWrite
    <3>2. QED
      BY <3>1
  <2>2. CASE StageDelete(w)
    <3>1. PICK p \in Path : Log(w, "delete", p, Folder, 0)
      BY <2>2 DEF StageDelete
    <3>2. QED
      BY <3>1
  <2>3. QED
    BY <2>1, <2>2
<1> DEFINE o == [op |-> k, path |-> p, data |-> x, expected |-> e]
<1>3. o \in Op
  <2>1. x \in Content \cup Tree /\ e \in Nat /\ p \in Place
    BY DEF Content, IInv, TypeOK, Now, Place
  <2>2. QED
    BY <2>1 DEF Op
<1>4. ops' = [ops EXCEPT ![w] = Append(@, o)]
  BY <1>2 DEF Log
<1> HIDE DEF o
<1>5. QED
  BY <1>1, <1>3, <1>4, AskFor

\* the request opens, compares, or ends,
LEMMA QuietStutters ==
  ASSUME IInv, BatchInv, NEW w \in Worker,
         Request(w) \/ CheckWhole(w) \/ OpenStat(w) \/ OpenToken(w) \/ Finish(w) \/ Begin(w) \/ Compare(w)
  PROVE  Abstract!Next \/ UNCHANGED Abstract!vars
<1>1. CASE Request(w) \/ Begin(w) \/ Compare(w)
  <2>1. UNCHANGED <<past, ops, taken, answer>>
    BY <1>1 DEF Request, Begin, Compare, fileVars, batchVars, histVars
  <2>2. QED
    BY <2>1, Stutters
<1>2. CASE CheckWhole(w)
  <2>1. UNCHANGED <<past, ops, taken>> /\ pc[w] = "checking" /\ ~taken[w]
    BY <1>2 DEF CheckWhole, End, Goto, fileVars, batchVars, histVars, BatchInv, Facts, Replies
  <2>2. CASE answer' = answer
    BY <2>1, <2>2, Stutters
  <2>3. CASE answer' = [answer EXCEPT ![w] = "failed"]
    BY <2>1, <2>3, Replying
  <2>4. QED
    BY <1>2, <2>2, <2>3 DEF CheckWhole, End
<1>3. CASE OpenStat(w)
  <2>1. UNCHANGED <<past, ops, taken>> /\ pc[w] = "statting" /\ kind[w] # "whole"
        /\ (new[w] = NoArchive => ~taken[w])
    BY <1>3 DEF OpenStat, CannotOpen, End, Goto, fileVars, batchVars, histVars,
           IInv, Ordered, BatchInv, Facts, Replies, Opening
  <2>2. CASE answer' = answer
    BY <2>1, <2>2, Stutters
  <2>3. CASE answer' = [answer EXCEPT ![w] = Doubt(w)]
    <3>1. Doubt(w) = IF new[w] = NoArchive THEN "failed" ELSE "unconfirmed"
      BY <2>1 DEF Doubt
    <3>2. QED
      BY <2>1, <2>3, <3>1, Replying
  <2>4. QED
    BY <1>3, <2>2, <2>3 DEF OpenStat, CannotOpen, End
<1>4. CASE OpenToken(w)
  <2>1. UNCHANGED <<past, ops, taken>> /\ pc[w] = "asking"
    BY <1>4 DEF OpenToken, fileVars, batchVars, histVars
  <2>2. CASE answer' = answer
    BY <2>1, <2>2, Stutters
  <2>3. CASE answer' = [answer EXCEPT ![w] = "failed"] /\ kind[w] = "whole"
    <3>1. ~taken[w]
      BY <2>1, <2>3 DEF BatchInv, Facts, Replies
    <3>2. QED
      BY <2>1, <2>3, <3>1, Replying
  <2>4. QED
    BY <1>4, <2>2, <2>3 DEF OpenToken, End
<1>5. CASE Finish(w)
  <2>1. UNCHANGED <<past, ops, taken>> /\ pc[w] = "ready" /\ ~taken[w] /\ ops[w] = <<>>
    BY <1>5 DEF Finish, End, Goto, fileVars, batchVars, histVars, BatchInv, Facts, Replies
  <2>2. answer' = [answer EXCEPT ![w] = "failed"] \/ answer' = [answer EXCEPT ![w] = "ok"]
    BY <1>5 DEF Finish, End
  <2>3. QED
    BY <2>1, <2>2, Replying
<1>6. QED
  BY <1>1, <1>2, <1>3, <1>4, <1>5

\* the bytes are read, after a replacement those it installed,
LEMMA OpenReadSettles ==
  ASSUME IInv, BatchInv, NEW w \in Worker, OpenRead(w)
  PROVE  Abstract!Next \/ UNCHANGED Abstract!vars
<1>1. UNCHANGED past /\ pc[w] = "reading" /\ kind[w] # "whole" /\ past[Now] \in Archive
      /\ (new[w] = NoArchive => ~taken[w]) /\ (new[w] # NoArchive => taken[w])
  BY DEF OpenRead, fileVars, IInv, Ordered, TypeOK, Now, BatchInv, Facts, Replies, Opening
<1>2. CASE UNCHANGED <<answer, batchVars, new, histVars>>
  BY <1>1, <1>2, Stutters DEF batchVars, histVars
<1>3. CASE new[w] = past[Now] /\ Reset(w) /\ UNCHANGED answer
  <2>1. taken[w] /\ ops' = [ops EXCEPT ![w] = <<>>] /\ taken' = [taken EXCEPT ![w] = FALSE]
    BY <1>1, <1>3, ArchiveAssumption DEF Reset
  <2>2. QED
    BY <1>1, <1>3, <2>1, Settling
<1>4. CASE CannotOpen(w, "reading") /\ UNCHANGED <<batchVars, new, histVars>>
  <2>1. UNCHANGED <<ops, taken>> /\ answer' = [answer EXCEPT ![w] = Doubt(w)]
    BY <1>4 DEF CannotOpen, End, batchVars, histVars
  <2>2. Doubt(w) = IF new[w] = NoArchive THEN "failed" ELSE "unconfirmed"
    BY <1>1 DEF Doubt
  <2>3. QED
    BY <1>1, <2>1, <2>2, Replying
<1>5. QED
  BY <1>2, <1>3, <1>4 DEF OpenRead

\* a batch is given up,
LEMMA AbandonAnswers ==
  ASSUME IInv, BatchInv, NEW w \in Worker, Abandon(w) PROVE Abstract!Next
<1>1. UNCHANGED past /\ pc[w] \in {"staging", "comparing", "replacing"} /\ ~taken[w] /\ TypeOK
  BY DEF Abandon, End, Goto, fileVars, BatchInv, Facts, Replies, IInv
<1>2. ops' = [ops EXCEPT ![w] = <<>>] /\ taken' = taken /\ answer' = [answer EXCEPT ![w] = "failed"]
  BY <1>1, SameTaken DEF Abandon, End, Reset
<1>3. QED
  BY <1>1, <1>2, Replying

\* a batch is made, or found to change nothing,
LEMMA CommitSettles ==
  ASSUME IInv, BatchInv, NEW w \in Worker, Commit(w)
  PROVE  Abstract!Next \/ UNCHANGED Abstract!vars
<1>1. UNCHANGED <<past, answer>> /\ pc[w] = "staging" /\ TypeOK /\ Facts(w)
      /\ opened[w].bytes \in 1..Now /\ past[opened[w].bytes] \in Archive
  BY BytesAre DEF Commit, fileVars, IInv, Ordered, BatchInv
<1>2. CASE UNCHANGED <<batchVars, taken>>
  BY <1>1, <1>2, Stutters DEF batchVars
<1>3. CASE Removed(Listing(w), entries[w]) = {} /\ Added(entries[w]) = {} /\ Reset(w)
  <2>1. /\ entries[w] \in Entries /\ StagedOn(past[opened[w].bytes], entries[w])
        /\ entries[w][Root].index # "staged"
    BY <1>1 DEF TypeOK, Facts, Staged, IInv, Ready, StagedOn
  <2>2. View(entries[w]) = View(Listing(w))
    BY <1>1, <1>3, <2>1, NothingChanged DEF Listing
  <2>3. Abstract!DoAll(View(Listing(w)), ops[w]) = View(Listing(w))
    BY <1>1, <2>2 DEF Facts, Staged
  <2>4. ops' = [ops EXCEPT ![w] = <<>>] /\ taken' = [taken EXCEPT ![w] = FALSE]
    BY <1>3 DEF Reset
  <2>5. QED
    BY <1>1, <2>3, <2>4, Settling DEF Listing
<1>4. QED
  BY <1>2, <1>3 DEF Commit

\* a local archive is replaced,
LEMMA ReplaceTakes ==
  ASSUME IInv, BatchInv, NEW w \in Worker, Replace(w) PROVE Abstract!Next
<1>1. Install(w) /\ opened[w].bytes = Now /\ ops' = ops
  BY ReplaceStep DEF Replace, batchVars
<1>2. answer' \in {answer, [answer EXCEPT ![w] = "unconfirmed"]}
  BY DEF Replace, End
<1>3. QED
  BY <1>1, <1>2, Installing

\* the provider acts on the request,
LEMMA ProvideTakes ==
  ASSUME IInv, BatchInv, NEW w \in Worker, Provide(w)
  PROVE  Abstract!Next \/ UNCHANGED Abstract!vars
<1>1. TypeOK /\ Facts(w) /\ sent[w] = "out" /\ UNCHANGED <<ops, answer>>
  BY DEF Provide, batchVars, IInv, BatchInv
<1>2. ~taken[w]
  BY <1>1 DEF Facts, Replies
<1>3. CASE Install(w)
  <2>1. taken' # taken
    BY <1>1, <1>2, <1>3 DEF Install, TypeOK
  <2>2. QED
    BY <1>1, <1>3, <2>1, ProvideStep, Installing
<1>4. CASE UNCHANGED <<fileVars, histVars>>
  BY <1>1, <1>4, Stutters DEF fileVars, histVars
<1>5. QED
  BY <1>3, <1>4 DEF Provide

\* its answer arrives or not,
LEMMA ReceiveAnswers ==
  ASSUME IInv, BatchInv, NEW w \in Worker, Receive(w)
  PROVE  Abstract!Next \/ UNCHANGED Abstract!vars
<1>1. TypeOK /\ UNCHANGED past /\ pc[w] = "waiting" /\ (taken[w] <=> sent[w] = "applied")
  BY DEF Receive, fileVars, IInv, BatchInv, Facts, Replies
<1>2. CASE sent[w] = "refused" /\ End(w, "waiting", "failed") /\ Reset(w)
  <2>1. ~taken[w] /\ ops' = [ops EXCEPT ![w] = <<>>] /\ taken' = taken
        /\ answer' = [answer EXCEPT ![w] = "failed"]
    BY <1>1, <1>2, SameTaken DEF End, Reset
  <2>2. QED
    BY <1>1, <2>1, Replying
<1>3. CASE sent[w] = "applied" /\ End(w, "waiting", "ok") /\ Reset(w)
  <2>1. taken[w] /\ ops' = [ops EXCEPT ![w] = <<>>] /\ taken' = [taken EXCEPT ![w] = FALSE]
        /\ answer' = [answer EXCEPT ![w] = "ok"]
    BY <1>1, <1>3 DEF End, Reset
  <2>2. QED
    BY <1>1, <2>1, Settling
<1>4. CASE UNCHANGED <<answer, batchVars, new, taken>>
  BY <1>1, <1>4, Stutters DEF batchVars
<1>5. CASE End(w, "waiting", "unconfirmed") /\ UNCHANGED <<batchVars, new, taken, sent>>
  <2>1. ops' = ops /\ taken' = taken /\ answer' = [answer EXCEPT ![w] = "unconfirmed"]
    BY <1>5 DEF End, batchVars
  <2>2. QED
    BY <1>1, <2>1, Replying
<1>6. QED
  BY <1>2, <1>3, <1>4, <1>5 DEF Receive

\* and somebody else replaces the archive.
LEMMA OutsideWrites ==
  ASSUME IInv, Outside PROVE Abstract!Next
<1>1. PICK a \in Archive : past' = Append(past, a)
  BY ArchiveAssumption DEF Outside
<1>2. UNCHANGED <<ops, taken, answer>> /\ TypeOK
  BY DEF Outside, batchVars, histVars, IInv
<1>3. Trees' = Append(Trees, View(Index(a))) /\ Trees \in Seq(Tree) /\ View(Index(a)) \in Tree
  BY <1>1, <1>2, TreesGrow, TreesAre, IndexType, ViewType
<1>4. Len(Trees') = Len(Trees) + 1 /\ Trees' = Append(Trees, Abstract!Last(Trees'))
  <2>1. PICK t \in Tree : t = View(Index(a))
    BY <1>3
  <2>2. Len(Trees') = Len(Trees) + 1 /\ Trees'[Len(Trees')] = t
    BY <1>3, <2>1, AppendProperties
  <2>3. QED
    BY <1>3, <2>1, <2>2 DEF Abstract!Last
<1>5. Abstract!OthersWrite
  BY <1>2, <1>4 DEF Abstract!OthersWrite, Trees
<1>6. QED
  BY <1>5 DEF Abstract!Next

\* Editing implements AtomicArchive: the archive is a tree that changes by whole batches,
\* each applied to the tree as it is at that moment, and the replies say what happened ("A
\* transfer within one archive publishes all its member changes together", README.md).
THEOREM ChangesByWholeBatches == Spec => WholeBatches
<1>1. Init => Abstract!Init
  <2> SUFFICES ASSUME Init PROVE Abstract!Init
    OBVIOUS
  <2>1. Len(Trees) = 1
    <3>1. Now = 1 /\ TypeOK
      <4>1. PICK a \in Initial : past = <<a>>
        BY DEF Init
      <4>2. QED
        BY <4>1, InitInv DEF Now, IInv
    <3>2. QED
      BY <3>1, TreesAre
  <2>2. QED
    BY <2>1 DEF Init, Abstract!Init, Trees
<1>2. IInv /\ BatchInv /\ [Next]_vars => [Abstract!Next]_Abstract!vars
  <2> SUFFICES ASSUME IInv, BatchInv, [Next]_vars PROVE Abstract!Next \/ UNCHANGED Abstract!vars
    OBVIOUS
  <2>1. CASE UNCHANGED vars
    BY <2>1, Stutters DEF vars, fileVars, batchVars, histVars
  <2>2. CASE Outside
    BY <2>2, OutsideWrites
  <2>3. ASSUME NEW w \in Worker,
               \/ Request(w) \/ RequestWhole(w) \/ CheckWhole(w)
               \/ OpenStat(w) \/ OpenToken(w) \/ OpenRead(w) \/ Finish(w)
               \/ Begin(w) \/ StageWrite(w) \/ StageDelete(w) \/ Abandon(w) \/ Commit(w)
               \/ Replace(w) \/ Compare(w) \/ Provide(w) \/ Receive(w)
        PROVE  Abstract!Next \/ UNCHANGED Abstract!vars
    BY <2>3, RequestWholeAsks, StageAsks, QuietStutters, OpenReadSettles, AbandonAnswers, CommitSettles,
       ReplaceTakes, ProvideTakes, ReceiveAnswers
  <2>4. QED
    BY <2>1, <2>2, <2>3 DEF Next
<1>3. QED
  BY <1>1, <1>2, Invariance, BatchInvariance, PTL DEF Spec, WholeBatches, Abstract!Spec
=============================================================================
