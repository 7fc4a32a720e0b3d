----------------------------- MODULE ArchiveEdit -----------------------------
(***************************************************************************)
(* Edits of the members of one archive: Store in internal/archiveview      *)
(* (folders.go, batch.go, edit.go), the conditional replacement of         *)
(* internal/cloudfs/archive.go, and the edit of a whole file in            *)
(* cmd/server/content.go, which shares it.                                 *)
(*                                                                         *)
(* past is the history of the archive, a version is a position in it, and  *)
(* stands for the local revision, the provider's revision and its write    *)
(* token.  An archive is a function from the paths it lists to contents or *)
(* Folder; folders may also be only implied by what is below them.  Each   *)
(* worker process opens the archive once and keeps it (opened), stages a   *)
(* batch on a copy of its entries, and replaces the whole archive.  A      *)
(* local replacement is one compare-and-replace, which Publish implements; *)
(* that of a cloud is a request under way, which takes effect, or not, at  *)
(* any time.  Archives in archives, links, sizes and modes are left out.   *)
(***************************************************************************)
EXTENDS Naturals, Sequences, SequencesExt

CONSTANTS
  Worker,      \* requests; also the contents they write
  Data,        \* contents that are not written by a request
  Path,        \* paths of members, as sequences of names
  Folder,      \* marks a folder
  NoArchive,   \* "nothing to install"
  Initial,     \* archives to start from
  Others,      \* archives somebody else may put there
  MaxVersions, \* bound on the length of the history
  MaxOps       \* bound on the operations of all requests together

Root == <<>>
Above(p) == {SubSeq(p, 1, i) : i \in 0..(Len(p) - 1)}

Content == Data \cup Worker \cup {Folder}
Archive == UNION {[P -> Content] : P \in SUBSET Path}

ASSUME ArchiveAssumption ==
  /\ Path \subseteq Seq(STRING) \ {Root}
  /\ \A p \in Path : Above(p) \subseteq Path \cup {Root}
  /\ Folder \notin Worker /\ NoArchive \notin Archive
  /\ Initial \subseteq Archive /\ Others \subseteq Archive
  /\ MaxVersions \in Nat /\ MaxOps \in Nat

\* A listing has a bounded number of members with bounded names (list.go).
ASSUME PathsAreBounded == IsFiniteSet(Path)

VARIABLES
  past,      \* the archives so far
  cloud,     \* TRUE: a cloud account, FALSE: local storage
  pc, kind,  \* "member" edits, edits "within" one archive, edit of the "whole" file
  opened,    \* opened[w]: revision, write token, baseline, and version of the bytes
  entries,   \* entries[w]: the listing with the staged changes
  hashes,    \* hashes[w]: contents of the staged files
  new,       \* new[w]: the archive to install, until that is confirmed
  sent,      \* sent[w]: the replacement request to the provider
  left,      \* operations that may still be asked for (the bound)
  answer,
  ops,       \* history: the operations staged in this batch
  taken,     \* history: this batch was installed
  mine       \* history: paths of the batches that were installed before

fileVars  == <<past, cloud>>
batchVars == <<entries, hashes, ops>>
histVars  == <<taken, mine>>
vars == <<fileVars, pc, kind, opened, batchVars, new, sent, left, answer, histVars>>

Now == Len(past)
Closed == [rev |-> 0, token |-> 0, baseline |-> 0, bytes |-> 0]

Goto(w, a, b) == pc[w] = a /\ pc' = [pc EXCEPT ![w] = b]
End(w, a, r)  == Goto(w, a, "done") /\ answer' = [answer EXCEPT ![w] = r]

\* The deferred function of Store.batch: the staged entries are dropped.
Reset(w) ==
  /\ entries' = [entries EXCEPT ![w] = <<>>]
  /\ hashes' = [hashes EXCEPT ![w] = <<>>]
  /\ new' = [new EXCEPT ![w] = NoArchive]
  /\ ops' = [ops EXCEPT ![w] = <<>>]
  /\ taken' = [taken EXCEPT ![w] = FALSE]

-----------------------------------------------------------------------------
(* The listing of an archive and what a batch makes of it. *)

\* A file cannot have anything below it (errPath).
WellFormed(ms) == \A p \in DOMAIN ms : \A q \in Above(p) \cap DOMAIN ms : ms[q] = Folder

\* folderArchive.index: listed members and the folders above them.
Index(ms) ==
  [p \in {Root} \cup DOMAIN ms \cup UNION {Above(q) : q \in DOMAIN ms} |->
     IF p \in DOMAIN ms THEN [index |-> "member", is |-> ms[p]]
                        ELSE [index |-> "implied", is |-> Folder]]

View(es) == [p \in DOMAIN es |-> es[p].is]
Listing(w) == Index(past[opened[w].bytes])

Empty(es, p) == ~\E q \in DOMAIN es \ {Root} : Front(q) = p

\* Mutant: only the staged rows are written.
StagedRows(after) == {p \in DOMAIN after : after[p].index = "staged"}
\* batch.changes: members that go, and rows to write.  A folder that was implied
\* by what is gone is written, so that it stays.
Removed(before, after) ==
  {p \in DOMAIN before : /\ before[p].index = "member"
                         /\ p \notin DOMAIN after \/ after[p].index = "staged"}
Added(after) ==
  {p \in DOMAIN after :
     \/ after[p].index = "staged"
     \/ after[p].index = "implied" /\ p # Root /\ Empty(after, p)}

\* What the archiver makes of the copy.
Rewrite(ms, gone, rows, after) ==
  [p \in (DOMAIN ms \ gone) \cup rows |-> IF p \in rows THEN after[p].is ELSE ms[p]]

\* The updated archive is listed again and compared with the staged entries.
Verified(ms, after, digests) ==
  /\ DOMAIN Index(ms) = DOMAIN after
  /\ \A p \in DOMAIN after : (Index(ms)[p].is = Folder) = (after[p].is = Folder)
  /\ \A p \in DOMAIN digests : p \in DOMAIN ms /\ ms[p] = digests[p]

-----------------------------------------------------------------------------
Init ==
  /\ past \in {<<a>> : a \in Initial}
  /\ cloud \in BOOLEAN
  /\ pc = [w \in Worker |-> "idle"]
  /\ kind = [w \in Worker |-> "member"]
  /\ opened = [w \in Worker |-> Closed]
  /\ entries = [w \in Worker |-> <<>>] /\ hashes = [w \in Worker |-> <<>>]
  /\ new = [w \in Worker |-> NoArchive]
  /\ sent = [w \in Worker |-> "no"]
  /\ left = MaxOps
  /\ answer = [w \in Worker |-> "none"]
  /\ ops = [w \in Worker |-> <<>>]
  /\ taken = [w \in Worker |-> FALSE]
  /\ mine = [w \in Worker |-> {}]

Request(w) ==
  /\ Goto(w, "idle", "statting")
  /\ kind' \in {[kind EXCEPT ![w] = k] : k \in {"member", "within"}}
  /\ UNCHANGED <<fileVars, opened, batchVars, new, sent, left, answer, histVars>>

\* editContent: the user edited the file of the version it saw.
RequestWhole(w) ==
  /\ Goto(w, "idle", "checking") /\ cloud
  /\ left > 0 /\ left' = left - 1
  /\ kind' = [kind EXCEPT ![w] = "whole"]
  /\ \E v \in 1..Now, a \in {b \in Others : WellFormed(b)} :
       /\ opened' = [opened EXCEPT ![w] = [rev |-> v, token |-> 0, baseline |-> v, bytes |-> v]]
       /\ new' = [new EXCEPT ![w] = a]
       /\ ops' = [ops EXCEPT ![w] = <<[op |-> "all", path |-> Root, data |-> View(Index(a)), expected |-> v]>>]
  /\ UNCHANGED <<fileVars, entries, hashes, sent, answer, histVars>>

CheckWhole(w) ==
  /\ \/ opened[w].rev = Now /\ Goto(w, "checking", "asking") /\ UNCHANGED answer
     \/ End(w, "checking", "failed")
  /\ UNCHANGED <<fileVars, kind, opened, batchVars, new, sent, left, histVars>>

\* Mutant: a failure to open is always a failure.
PlainFailure(w) == "failed"
\* A failure to open is a failure, but after a replacement it leaves it in doubt.
Doubt(w) == IF new[w] = NoArchive \/ kind[w] = "whole" THEN "failed" ELSE "unconfirmed"
CannotOpen(w, a) == End(w, a, Doubt(w)) /\ UNCHANGED opened

\* Store.load: the revision first,
OpenStat(w) ==
  /\ \/ /\ Goto(w, "statting", IF cloud THEN "asking" ELSE "reading")
        /\ opened' = [opened EXCEPT ![w] =
             [rev |-> Now, token |-> 0, bytes |-> 0,
              baseline |-> IF new[w] = NoArchive THEN Now ELSE @.baseline]]
        /\ UNCHANGED answer
     \/ CannotOpen(w, "statting")
  /\ UNCHANGED <<fileVars, kind, batchVars, new, sent, left, histVars>>

\* then the provider's token, without which the archive is read-only,
OpenToken(w) ==
  /\ pc[w] = "asking"
  /\ \/ /\ Goto(w, "asking", IF kind[w] = "whole" THEN "comparing" ELSE "reading")
        /\ opened' = [opened EXCEPT ![w].token = Now]
        /\ UNCHANGED answer
     \/ IF kind[w] = "whole"
        THEN End(w, "asking", "failed") /\ UNCHANGED opened
        ELSE Goto(w, "asking", "reading") /\ UNCHANGED <<opened, answer>>
  /\ UNCHANGED <<fileVars, kind, batchVars, new, sent, left, histVars>>

Paths(w) == {ops[w][i].path : i \in DOMAIN ops[w]}

\* and the bytes last.  After a replacement they must be the ones it installed.
OpenRead(w) ==
  /\ pc[w] = "reading"
  /\ \/ /\ new[w] = NoArchive /\ WellFormed(past[Now])
        /\ Goto(w, "reading", "ready")
        /\ opened' = [opened EXCEPT ![w].bytes = Now]
        /\ UNCHANGED <<answer, batchVars, new, histVars>>
     \/ /\ new[w] = past[Now]
        /\ Goto(w, "reading", "ready")
        /\ opened' = [opened EXCEPT ![w].bytes = Now]
        /\ mine' = [mine EXCEPT ![w] = @ \cup Paths(w)]
        /\ Reset(w)
        /\ UNCHANGED answer
     \/ CannotOpen(w, "reading") /\ UNCHANGED <<batchVars, new, histVars>>
  /\ UNCHANGED <<fileVars, kind, sent, left>>

\* The request ends, in an error if the archive is read-only or the other side of a
\* transfer fails.
Finish(w) ==
  /\ End(w, "ready", "failed") \/ End(w, "ready", "ok")
  /\ UNCHANGED <<fileVars, kind, opened, batchVars, new, sent, left, histVars>>

Begin(w) ==
  /\ Goto(w, "ready", "staging")
  /\ cloud => opened[w].token # 0
  /\ left > 0 /\ (kind[w] = "within" => mine[w] = {})
  /\ entries' = [entries EXCEPT ![w] = Listing(w)]
  /\ UNCHANGED <<fileVars, kind, opened, hashes, ops, new, sent, left, answer, histVars>>

\* batch.stage for a file or a folder.  A file that is there is replaced if the
\* request named the revision it has, which is that of the archive when opened.
Exists(w, p) == p \in DOMAIN entries[w]
\* Mutant: the revision is not compared.
MayWriteAny(w, p, x, e) ==
  /\ Exists(w, p) => x # Folder /\ entries[w][p].is # Folder /\ e # 0
  /\ ~Exists(w, p) => e = 0
  /\ Exists(w, Front(p)) /\ entries[w][Front(p)].is = Folder
MayWrite(w, p, x, e) ==
  /\ Exists(w, p) => x # Folder /\ entries[w][p].is # Folder /\ e = opened[w].baseline
  /\ ~Exists(w, p) => e = 0
  /\ Exists(w, Front(p)) /\ entries[w][Front(p)].is = Folder

Log(w, o, p, x, e) ==
  /\ left > 0 /\ left' = left - 1
  /\ kind[w] = "member" => ops[w] = <<>>
  /\ ops' = [ops EXCEPT ![w] = Append(@, [op |-> o, path |-> p, data |-> x, expected |-> e])]

StageWrite(w) ==
  /\ pc[w] = "staging"
  /\ \E p \in Path, x \in {w, Folder}, e \in {0} \cup 1..Now :
       /\ MayWrite(w, p, x, e)
       /\ entries' = [entries EXCEPT ![w] =
            [q \in DOMAIN @ \cup {p} |-> IF q = p THEN [index |-> "staged", is |-> x] ELSE @[q]]]
       /\ hashes' = [hashes EXCEPT ![w] =
            IF x = Folder THEN @ ELSE [q \in DOMAIN @ \cup {p} |-> IF q = p THEN x ELSE @[q]]]
       /\ Log(w, IF x = Folder THEN "mkdir" ELSE "put", p, x, e)
  /\ UNCHANGED <<fileVars, pc, kind, opened, new, sent, answer, histVars>>

Without(f, p) == [q \in {r \in DOMAIN f : ~IsPrefix(p, r)} |-> f[q]]

StageDelete(w) ==
  /\ pc[w] = "staging"
  /\ \E p \in Path :
       /\ Exists(w, p)
       /\ entries' = [entries EXCEPT ![w] = Without(@, p)]
       /\ hashes' = [hashes EXCEPT ![w] = Without(@, p)]
       /\ Log(w, "delete", p, Folder, 0)
  /\ UNCHANGED <<fileVars, pc, kind, opened, new, sent, answer, histVars>>

\* An operation of the batch, the archiver or the verification fails, or the
\* request is cancelled: nothing of the batch was published.
Abandon(w) ==
  /\ \E a \in {"staging", "comparing", "replacing"} : End(w, a, "failed")
  /\ Reset(w)
  /\ UNCHANGED <<fileVars, kind, opened, sent, left, mine>>

\* commit: rewrite a copy and verify it.  A batch that changes nothing ends here.
Commit(w) ==
  LET gone == Removed(Listing(w), entries[w])
      rows == Added(entries[w])
      made == Rewrite(past[opened[w].bytes], gone, rows, entries[w])
  IN
  /\ pc[w] = "staging"
  /\ kind[w] = "member" => ops[w] # <<>>
  /\ IF gone = {} /\ rows = {}
     THEN Goto(w, "staging", "ready") /\ Reset(w)
     ELSE /\ Verified(made, entries[w], hashes[w])
          /\ Goto(w, "staging", IF cloud THEN "comparing" ELSE "replacing")
          /\ new' = [new EXCEPT ![w] = made]
          /\ UNCHANGED <<batchVars, taken>>
  /\ UNCHANGED <<fileVars, kind, opened, sent, left, answer, mine>>

Install(w) ==
  /\ past' = Append(past, new[w])
  /\ taken' = [taken EXCEPT ![w] = TRUE]
  /\ UNCHANGED <<cloud, mine>>

\* localfs.ReplaceArchive; the sync of the folder may fail afterwards.
Replace(w) ==
  /\ pc[w] = "replacing" /\ opened[w].rev = Now
  /\ Install(w)
  /\ \/ Goto(w, "replacing", "statting") /\ UNCHANGED answer
     \/ End(w, "replacing", "unconfirmed")
  /\ UNCHANGED <<kind, opened, batchVars, new, sent, left>>

\* cloudfs.ReplaceArchive: compare, then ask the provider to replace that version.
Compare(w) ==
  /\ opened[w].rev = Now /\ Goto(w, "comparing", "waiting")
  /\ sent' = [sent EXCEPT ![w] = "out"]
  /\ UNCHANGED <<fileVars, kind, opened, batchVars, new, left, answer, histVars>>

\* Mutant: an upload without a precondition.
MatchesAny(w) == TRUE
\* The provider: If-Match, or the update mode with a revision.
Matches(w) == opened[w].token = Now

Provide(w) ==
  /\ sent[w] = "out"
  /\ \/ Matches(w) /\ Install(w) /\ sent' = [sent EXCEPT ![w] = "applied"]
     \/ sent' = [sent EXCEPT ![w] = "refused"] /\ UNCHANGED <<fileVars, histVars>>
  /\ UNCHANGED <<pc, kind, opened, batchVars, new, left, answer>>

\* Its answer, or none, or an error that tells nothing.
Receive(w) ==
  /\ pc[w] = "waiting"
  /\ \/ sent[w] = "refused" /\ End(w, "waiting", "failed") /\ Reset(w) /\ UNCHANGED sent
     \/ /\ sent[w] = "applied" /\ sent' = [sent EXCEPT ![w] = "no"]
        /\ IF kind[w] = "whole"
           THEN End(w, "waiting", "ok") /\ Reset(w)
           ELSE Goto(w, "waiting", "statting") /\ UNCHANGED <<answer, batchVars, new, taken>>
     \/ End(w, "waiting", "unconfirmed") /\ UNCHANGED <<batchVars, new, taken, sent>>
  /\ UNCHANGED <<fileVars, kind, opened, left, mine>>

Outside ==
  /\ Now < MaxVersions
  /\ \E a \in Others : past' = Append(past, a)
  /\ UNCHANGED <<cloud, pc, kind, opened, batchVars, new, sent, left, answer, histVars>>

Next == Outside \/ \E w \in Worker :
  \/ Request(w) \/ RequestWhole(w) \/ CheckWhole(w)
  \/ OpenStat(w) \/ OpenToken(w) \/ OpenRead(w) \/ Finish(w)
  \/ Begin(w) \/ StageWrite(w) \/ StageDelete(w) \/ Abandon(w) \/ Commit(w)
  \/ Replace(w) \/ Compare(w) \/ Provide(w) \/ Receive(w)

Spec == Init /\ [][Next]_vars

-----------------------------------------------------------------------------

Version == 0..Now
Row     == [index : {"member", "implied", "staged"}, is : Content]
Entries == UNION {[P -> Row] : P \in SUBSET (Path \cup {Root})}
Digests == UNION {[P -> Worker] : P \in SUBSET Path}

TypeOK ==
  /\ past \in Seq(Archive) /\ cloud \in BOOLEAN
  /\ pc \in [Worker -> {"idle", "statting", "asking", "reading", "ready", "staging", "checking",
                         "comparing", "waiting", "replacing", "done"}]
  /\ kind \in [Worker -> {"member", "within", "whole"}]
  /\ opened \in [Worker -> [rev : Version, token : Version, baseline : Version, bytes : Version]]
  /\ entries \in [Worker -> Entries] /\ hashes \in [Worker -> Digests]
  /\ new \in [Worker -> Archive \cup {NoArchive}]
  /\ sent \in [Worker -> {"no", "out", "applied", "refused"}]
  /\ answer \in [Worker -> {"none", "ok", "failed", "unconfirmed"}]
  /\ left \in 0..MaxOps
  /\ taken \in [Worker -> BOOLEAN]

Installs(w) == taken[w] # taken'[w] /\ taken'[w]

\* What a request installs was made from the very version it replaces, however late
\* the provider acts on it (edit.go, "using the revision of the opened archive").
NoLostUpdate == [][\A w \in Worker : Installs(w) => opened[w].bytes = Now]_vars

\* A file is replaced only if it is still what it was at the version the caller
\* named, or what this request made of it: the baseline that the revisions of
\* members are computed from survives the request's own batches, and only those.
Touched(w, p, i) ==
  \/ \E q \in mine[w] : IsPrefix(q, p)
  \/ \E j \in 1..(i - 1) : IsPrefix(ops[w][j].path, p)
ReplacesOnlyWhatWasSeen ==
  [][\A w \in Worker : Installs(w) => \A i \in DOMAIN ops[w] :
       LET o == ops[w][i] IN
       o.op = "put" /\ o.expected # 0 /\ ~Touched(w, o.path, i) =>
         /\ o.path \in DOMAIN past[o.expected]
         /\ past[o.expected][o.path] = past[Now][o.path]]_vars

\* The members removed and written for a batch make exactly the staged listing,
\* folders that were only implied by what is gone included: a faithful archiver is
\* never refused by the verification.
ChangesMakeListing ==
  \A w \in Worker : pc[w] = "staging" =>
    LET after == entries[w]
        made == Rewrite(past[opened[w].bytes], Removed(Listing(w), after), Added(after), after)
    IN Verified(made, after, hashes[w]) /\ View(Index(made)) = View(after)

\* The archive changes by whole batches, see AtomicArchive.
Abstract == INSTANCE AtomicArchive WITH
  trees <- [i \in DOMAIN past |-> View(Index(past[i]))], batch <- ops
WholeBatches == Abstract!Spec
=============================================================================
