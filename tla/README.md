# Verification of the Files module

TLA+ models of the Files module (`internal/`, `cmd/server`, `frontend`), TLC
configurations that check them on small instances, and proofs checked by TLAPS.
File and line references are to the repository; `PROJECT.json` maps every
definition to the lines it models and lists components, hazards, runs, findings
and theorems.

## The system

Files is a web file manager for a NAS. The browser queues tasks; the core
process dispatches each operation to a new worker process of this module
(`bin/server`), which runs as the requesting Linux user. Workers share nothing
but the file system, the cloud accounts, and, per worker, one socket to the
parent for OAuth tokens. Every guarantee about data therefore rests on what one
process can do with system calls while others do the same.

| Component | State it keeps | Operations | Interacts through |
|---|---|---|---|
| Local publishing (`localfs/content.go`, `archive.go`, `publish` in `transfer.go`) | private staging folder and file; the public entry; flock on an edited file | upload, in-place replacement of an archive, delete | directory entries, `renameat2` with NOREPLACE or EXCHANGE |
| Local transfer (`localfs/transfer.go`) | source, destination, journal in the staging folder | copy, move; skip, rename, replace | the publish protocol; removal of the source |
| Trash (`localfs/trash.go`, `content.go`, `operations.go`) | containers, items, notes | trash, restore, delete, cleanup, where an item came from | directory entries of a container, the mount table |
| Grant channel (`cmd/server/grants.go`) | mutex, socket, deadline of each call | request a token | one socket between worker and parent |
| Operation dispatch (`cmd/server/operations.go`, `operations/operations.go`) | control descriptor, plan fingerprint | plan, execute, query | calls into all of the above |
| Content worker and HTTP streaming (`cmd/server/content.go`, `files.go`) | pipes, thumbnail slots | upload, edit, download, thumbnail | worker processes, SIGTERM |
| Cloud transfer and client (`cloudfs/`) | staged object in the account | stream, verify, publish, remove | rclone, provider APIs, local publishing |
| Archive editing (`archiveview/`) | the archive it opened with its revision and token, staged batch, cached listing | open, stage, commit, reload | `ReplaceArchive` of either storage |
| Preview space (`cloudfs/archive_preview.go`, `spool.go`) | size and allowance of each spooled file | begin, write, close | the free space of one temporary file system |
| Permissions (`localfs/permissions.go`) | open descriptors, revisions | change a selection | inodes |
| Git folders (`gitfs/`) | flock on the repository | inspect, switch | the git program |
| Browser task queue (`frontend/uploads.ts`) | tasks, pending decision, jobs | enqueue, decide, cancel, poll | HTTP |

What is hard here: several workers act on one name between each other's checks;
a worker can be cancelled (control descriptor, SIGTERM) or killed (SIGKILL) at
any point; a step can fail after the result is already public; other programs
write in place; replies can come after their deadline. `hazards` in
`PROJECT.json` lists these at their lines with the properties that cover them.

What makes each component correct:

- publishing: only complete files are public, one success per replaced revision,
  nothing lost without consent, failure changes nothing, what was displaced is kept
  when a replacement cannot be verified (and by an edit, when the folder cannot be synced);
- transfer: a move never removes the last copy, one file is moved once, trouble
  after publication keeps journal and displaced data;
- trash: only notes are cleaned up, and containers without an item do go, unless a
  system call fails;
- grant channel: a call gets its own account's token and returns;
- cloud transfer: verification precedes the removal of the source, an upload is
  not overwritten;
- archive editing: a batch is applied wholly or not at all, to the version that
  was opened, and a reply says no more than happened;
- queue: every item is accounted once, work is serial, nothing is replaced
  without consent, a cancelled task starts no further work, the queue ends;
- folders: success means that everything but what was skipped came over, and
  what was removed is in the copy;
- permissions: a failed batch is a changed prefix, and bits are not lost in
  between; git: the branch that was looked at is the one that is switched;
  thumbnails and previews: slots and space stay within their caps; trash
  origin: an item goes back only to the storage that holds it.

## Modules

| Module | Models |
|---|---|
| `Publish` | upload, archive edit, `publish`, delete, in-place writes, cancellation, SIGKILL |
| `AtomicReplace` | what publishing promises: an atomic compare-and-replace per name |
| `PublishRefinement` | the refinement mapping from `Publish` to `AtomicReplace` |
| `Transfer` | concurrent copies and moves of single entries; EXTENDS `Publish` and shares its steps |
| `TreeMove` | one copy or move of a folder into an existing one, entry by entry |
| `Trash` | trash, restore, delete and the cleanup of containers |
| `TrashOrigin` | where a trashed item is restored to: notes, mounts, copied trash folders |
| `CloudTransfer` | uploads, copies, moves and deletions between accounts and local storage |
| `ArchiveEdit` | edits of archive members, in batches, on local storage or in an account |
| `AtomicArchive` | what editing promises: a folder tree that changes by whole batches |
| `TaskQueue` | the queue of the browser and the server as it sees it |
| `GrantChannel` | callers, socket and serving goroutine of one worker |
| `GitSwitch` | inspection and switching of a branch, command by command |
| `Permissions` | a batch of ownership and permission changes, call by call |
| `Thumbnails` | slots, deadlines, the two processes of a thumbnail and their pipe |
| `PreviewSpace` | allowances of previews in one temporary file system |
| `PublishProofs`, `GrantChannelProofs`, `ArchiveEditProofs`, `TaskQueueProofs`, `PartsProofs`, `TrashProofs`, `CloudTransferProofs`, `TreeMoveProofs` | theorems; those about `Transfer` are in `PublishProofs` |
| `MC...` | symmetry, constants and start states for TLC |

### Publish and AtomicReplace

Each worker stages at most one file, so a staged file is named after its worker.
`dir` is the public directory, `stage[w]` the entry `content` of the worker's
private folder; a file is an inode and is in one place at a time. A revision (the
hash of device, inode, mode, size and mtime) is the inode with the number of
in-place writes it has seen. `pc` follows the system calls in order: create the
folder, write and sync, last cancellation check, compare, exchange, verify,
recheck, roll back, sync the parent, clean up. Each system call that can see
another worker's effect is a step of its own. Failures are disjuncts of the step
that fails. What stays in the staging folder is decided by `Kept`, after the
deferred functions of `Upload`, `ReplaceArchive` and `transfer`. An edit also
opens and locks the file first (`opened`); the lock is on an inode which may no
longer have a name.

`AtomicReplace` is the abstract register: ask, win in one step, or lose. In
`PublishRefinement` a replacement takes effect at the exchange if what came back
is the expected revision; an exchange that brought back something else has no
effect there, since a name means what it displaced until the rollback.

### Transfer

`RenameSource` is the one-rename move; otherwise the source is copied between two
snapshots (`CopySource`), published with the steps of `Publish`, and, for a move,
compared (`CompareSource`, `EquateTrees`) and removed by name (`RemoveSource`).
`before` is the inspected source revision, `copied` what a staged file was copied
from, so `Contents` can tell whether data survives; `removed` is a history
variable. `Volume` decides where a rename crosses file systems. After publication
every error is the outcome `"kept"`: journal and displaced data remain.

### TreeMove

Both trees are functions from paths to `Dir` or to a text, a revision with its
content; whatever is above an entry is a folder (`IsTree`), which is assumed of the trees a run
starts with and proved of all later ones. `merging` is the stack of open `merge` calls, each with the names it has
not come to yet; `entry` is the entry in hand, `copy` its staged copy, `emptying`
the stack of open `removeTree` calls. `Inspect` is `transfer` up to the decision
how to proceed: merge, skip, rename to a free name, replace, or go on. A subtree is
moved by `Rename` where the kernel can, else by `CopyTree`, `PublishTree`,
`CompareTree`, `Equate` and then `RemoveEntry` and `RemoveFolder` one entry at a
time, in any order, since `Readdirnames` has none. Every step may `Fail`, which ends the
request where it is, a cancellation and a killed worker included. `Visit` is
somebody else's creation, replacement or deletion of one file at any moment.
Reading a whole tree is one step because `snapshot` is taken before and after and
includes change times. Folders of others, links and metadata are left out.

### Trash

A container is named after the request that made it. `places[i]` is the set of
places with a copy of item `i` (two after a transfer that could not remove its
source). `notes[c]` holds the note under its temporary and its final name.
`Names` is what `readdir` returns, where an item called
`.panasms-trash-info.json` (`Special`) is indistinguishable from the note, as in
`TrashMetadata`. The transfer in and out is one step with the outcomes `Transfer`
allows. Three failures change what is left and are told to nobody: a container that
was made stays when what follows in `MakeContainer` fails, `UndoContainer` may not
get rid of it, and `CleanupFails` ends the best-effort cleanup anywhere. The history
variable `troubled` keeps the containers concerned.

### CloudTransfer

`at[f][n]` is the object at name `n` of folder `f`, in an account or on local
storage (`Local`). A worker stages in an account under a private name that it draws for
each entry (`Own`), which other requests can see: a moved folder takes staged objects
along, under the same name or one made from it (`Aside`). One
entry goes through inspect, resolve, copy, verify, check the source, compare the
destination, `moveto`, check the source again, remove it, clean up
(`runTransfer`); an upload to an account (`Client.Upload`) shares the steps from
the staged copy to `moveto`; a folder repeats them for its entries (`merge`). Every
step on an account may fail before or after it took effect, and a store may keep
something else than it was sent (`"garbage"`). Writing to local storage is one
compare-and-replace, which `Publish` implements. Only accounts garble: local storage
keeps what is written, as damaged media are excluded. `released` records contents that
were deleted or replaced on purpose, `trampled` those that a `moveto` or a removal
by path hit after the last comparison. Case folding of names, links, empty
folders and folders inside folders are left out.

### ArchiveEdit and AtomicArchive

`past` is the sequence of versions of the archive; a version is its position, and
stands for the local revision, the revision of the provider and its write token. A
worker opens the archive (`OpenStat`, then `OpenToken` in an account, then
`OpenRead`), each step seeing the archive as it is then; `opened` keeps the three
versions it saw and the `baseline` that member revisions are computed from. `Begin`,
`StageWrite`, `StageDelete`, `Abandon` are a batch on a copy of the listing;
`Commit` computes what is removed and added (`Removed`, `Added`), rewrites the
archive and verifies it; `Replace` installs it locally as one compare-and-replace
(which `Publish` implements; the error of a replacement that could be neither verified
nor undone, which takes one more request in between, is its outcome `"uncertain"` and not
repeated here), `Provide` and `Receive` are the provider's part, which
acts on the request at any time or never, with an answer that may be lost. `Doubt`
decides whether a failure to open is a failure or an unconfirmed result.
`RequestWhole` is the edit of a whole file in an account, which shares the
replacement. A path is listed as a member, as a folder implied by members, or as
staged (`index`); `View` is what a user sees.

`AtomicArchive` is the promise: a tree, requests with batches, one step that
applies a whole batch to the tree as it is, replies `ok`, `failed` or
`unconfirmed`. `WholeBatches` is the refinement, with the views of the versions as
the tree.

### TaskQueue

One step is what JavaScript runs between two awaits. `pc` and `item` say where the
loop is, `shown` the file the user is asked about, `preference` the answer that
holds for all further items, `forced` and `retry` a choice made for this item and
an upload that is repeated after a 409; `work[w]` is what the server makes of item `w`: an upload that is sent, a job
that is started, polled and ends. `ServeUpload`, `StartJob` and `ServeJob` are the
server; an answer may be lost at any of them. `dest` is the one folder all items go
to, changed by `Outside`. History: `consent` (the files the user was shown and chose
to replace), `blanket` (tasks with a choice for all) and `loose` (work whose answer
was lost or that was aborted).

### GitSwitch, Permissions, Thumbnails, PreviewSpace, TrashOrigin

`GitSwitch`: a request is a series of git commands, one step each, under an advisory
lock (`LockRoot`, shared or exclusive) that the git of others does not take
(`Others`). `head`, `tip`, `files`, `edited` and `indexLock` are the repository; a command may fail, or be
killed at its time limit, which may leave a switch half done (`Mixed`).

`Permissions`: items are opened and compared with what the user was shown, then
`Chown` and `Chmod` follow item by item; `Meddle` is another program that changes an
inode or gives a name to another one between any two calls; `Die` kills the worker.
`Kept` is what Linux clears at a change of owner.

`Thumbnails`: `handler`, `parent` (root) and `decoder` (the user's process) of each
request. The slot is held until the handler returns, and the handler reads until the
pipe has no writer (`EndOfFile`), which is what makes the cap hold for decoders that
ignore the signal.

`PreviewSpace`: each preview looks at the free space when its allowance is used up
(`CheckSpace`), several in turn, and writes in a later step (`Put`), next to exports
that do not look (`OthersTake`).

`TrashOrigin`: `Places`, `trashBase` and `TrashOriginal` as operators on the mounts of
the moment; mounts move, trash folders are copied, notes are forged; `trashOrigin`
says where a restore may go.

### MCParts

These five, `TreeMove` and `GrantChannel` share no variable and no process with one another.
`MCParts` EXTENDS all of them; each behaviour is about one (`subject`), while the
others stay as they are. The reachable states are the sum of the parts', each
explored in full, and nothing is claimed about their combination.

### GrantChannel

`requests`, `serving` and `replies` are the two directions of the socket and the
parent's goroutine. A reply is the grant whose token it carries, or an error.
`Expire` is the deadline of a call that has sent its request; nothing drains the
late reply. Each call decodes with a new decoder, so bytes it read beyond one
reply are dropped (`Receive`).

## Runs

| Run | Instance | Shows |
|---|---|---|
| `publish_race` | 1 name, 2 requests, deletions; fairness | refinement of `AtomicReplace`, `NothingLost`, `FailureHarmless`, termination |
| `publish_rough` | the same with SIGKILL and an in-place write per file | `OnlyCompletePublic`, `OnlyPreviousRetained`, `LossNeedsRollback`, `OneWinner`, and the inductive invariant of the proofs |
| `publish_triple` | 3 requests | violation of `NothingLost` (finding) |
| `transfer_moves` | 2 copies or moves, 2 files, 3 names, 2 volumes | `ContentsSurvive`, `MovedOnce` |
| `transfer_touched` | 1 transfer, 1 upload or edit, 1 file, 2 names on 2 volumes, deletions at one of them, in-place writes | `OnlyPreviousRetained` when uploads and transfers share a name, `TroubleKeepsAll` |
| `trash_safe` | 2 items, one `Special`, 3 requests, SIGKILL | `LossNeedsSkip`, `NothingOutside`, `LeftoverNeedsTrouble` |
| `trash_skip` | 3 requests | violation of `NothingLost` (finding) |
| `cloud_races` | 2 requests, an account and local storage, 3 files, one name in use on both sides | `OnlyVerifiedPublic`, `LossNeedsTrampling`, `MovedOnce` |
| `archive_batches` | 2 requests of 2 operations, 1 foreign replacement, local storage or an account | refinement of `AtomicArchive`, `NoLostUpdate`, `ReplacesOnlyWhatWasSeen`, `ChangesMakeListing` |
| `tasks` | a batch of two items of either kind and a deletion behind it, 2 names, 2 foreign files, 1 trouble; fairness | `EveryItemAccounted`, `WorkIsSerial`, `NoWorkAfterCancel`, `ConsentToReplace`, `EveryTaskEnds` |
| `parts` | see below; fairness of `GrantChannel` and `Thumbnails` | `TreeSurvives`, `MergeIsComplete`; `RightUntilExpired`, `LagBounded`, `CallsReturn`; `SwitchesWhatWasSeen`, `ReportIsReal`; `BatchIsPrefix`; `ThumbnailCap`, `WaitersAnswered`; `HeadroomShared`; `OriginIsTrue` |
| `grant_late` | 2 callers, 2 grants, 2 calls each | violation of `RightToken` (finding) |

**Bounds.** One public name is enough for publishing, since requests for
different names touch no common entry; `Transfer` has three because a transfer
relates two, and a second volume because that decides between rename and copy.
Two requests show every pairwise race; the third matters only for the rollback,
which `publish_triple` covers, and the theorems are for any number of them or say which
number they need (see Proofs). `MovedOnce` is about two
moves by its meaning: a third that brings the file back makes it right to move it again.
`MaxEntries = 3` ends a merge after three entries: both names and one staged object.
All names that a rename makes from a private one are one name `x` in `cloud_races`.
`MaxTouches = 1` is one in-place write per file, which makes
each revision check fail at any point. In
`transfer_touched` only one of the two names is deleted from (`Deletable`), which is
the source of some transfers and the destination of others. The transfer runs have no SIGKILL: a
killed worker differs from one that is never scheduled again only in its lock,
which transfers do not take. `CloudTransfer` has no SIGKILL for the same reason. In `Trash` three requests are
a trash, a restore and one more of any kind: a second item that goes through the
trash at the same time, a second restore, or the deletion of the remaining note. The
placement of files in `cloud_races` gives every policy a conflict in both
directions, a folder of two entries and a free name for a rename. `MaxCalls = 2` lets a caller read the reply of
its own earlier call and of the other's.
In `archive_batches` the archive has a folder with members and paths whose folder is only
implied; `MaxVersions = 2` is one replacement by somebody else besides those of
the two requests, `MaxOps = 2` operations are what it takes to write where another
operation deleted. In `tasks` one trouble (`MaxTrouble = 1`) is a lost answer, the end of the
session, or a change of the folder by others. In `parts`: two callers with two
calls each; two git requests and one act of others (`MaxGit`); two items and one act of
others (`MaxMeddling`), which comes at every point; three viewers for two slots, so
that one waits; two previews whose sizes do and do not fit, with three acts of
others (`MaxTaken`); two volumes at two points, one inside the other, three mounts
and two deeds (`MaxMounts`, `MaxDeeds`), enough to trash an item, move its volume and restore
it; two pairs of trees, one with a file that is in conflict and a folder that is
not, one with folders that merge and a folder below them, and one visit
(`MaxVisits`). The real headroom of 64 MiB and allowance of 4 MiB are 3 and 2
there: what `HeadroomShared` says is that the allowances used blindly are
bounded by the number of previews, so with 17 or more at once the headroom may be
used up.
Symmetry is used only in runs without
liveness properties. Deadlock is not checked because the requests of an instance
are finite: when all are done, nothing happens any more. That no request gets
stuck is `Terminates` and `CallsReturn`.

**Fairness.** `Publish!FairSpec` has weak fairness for the steps of each worker: a
live process is scheduled and its system calls return. It is not assumed that a
request is made, a cancellation or a deletion happens. `GrantChannel!FairSpec`
has weak fairness for the turn of the caller that holds the mutex, whose deadline
expires whatever the parent does, and strong fairness for taking the mutex, since
Go's `sync.Mutex` hands the lock to a waiter that has starved for 1 ms. The
parent and the core get no fairness: they may never answer. `TaskQueue!FairSpec` has
weak fairness for the server, which answers or loses its answer, and for the steps
of the loop; never for the user, so `EveryTaskEnds` lets the queue wait for a
question. `ThumbFairness` has only the timer of a request and the wake-up of a
handler whose timer has fired: decoders may run for ever.

**Atomicity assumed.** A system call is atomic. `same()` and `snapshot()` include
change times, so a copy made while its source changed is always noticed; the
model makes the copy one step under that assumption.

## Findings

- `publish_triple`: a rollback (`transfer.go:286`) exchanges back without comparing
  again. A third request that replaced the file after the check at line 285 gets
  its file moved into the staging folder of the second and removed with it, though it
  reported success. `OnlyStaleRollbacksHarm` proves that this is the only way to lose a file,
  `PairLosesNothing` that it takes three requests or a write in place.
- `trash_skip`: the cleanup after a skipped restore deletes an item named like the
  note.
- `grant_late`: a late reply is read by the next call, as the token of another
  grant. `RightUntilExpired` and `LagBounded` say how far it can go.

Other limits are stated by properties that hold. `ContentsSurvive`: `removeTree`
(`transfer.go:235`) removes what is at the source name by then, and without that
nothing is lost. `TreeSurvives`: in a folder, the same for a file that arrives
after the comparison and before its folder is listed; later arrivals keep the
folder. `LeftoverNeedsTrouble`: a container without an item is left behind by a restore
that overlaps the writing of the note, by a request that failed after it had moved the
item, and where a system call fails that `Trash`, `TrashCleanup` or `Execute` go on
after (`content.go:251-265`, `operations.go:295-302`). `WorkIsSerial` speaks of work whose
answer was received: a job whose starting answer was lost may run next to the next item,
and `ConsentToReplace` and `EveryItemAccounted` hold for it as well. `LossNeedsTrampling` states the limit for accounts: `moveto` and
removal by path check nothing, so an object that arrives after the comparison
(`cloudfs/transfer.go:262`, `client.go:261`) can be overwritten. It passes: this is the
only way.

Seen while modelling, without a run of its own: after the user chose to rename for
all further items, a later choice to replace one of them is sent with the conflict
mode of the blanket choice (`uploads.ts:200`), and the server renames; the
revision that permissions are compared with is read before the calls that change
them, so a change in between is overwritten; a git command that is killed can
leave `index.lock`, and a failing second look after a successful switch reports an
error.

Each finding is a counterexample of TLC against a sentence of the documentation or a
comment, quoted in `PROJECT.json`.

## Proofs

All theorems are for any sets, finite or not, of names, workers, files, callers, grants, tasks,
requests, branches, inodes, volumes and trees; previews and viewers are finitely many. They rest only on the named
ASSUMEs of the modules (distinct kinds of identifiers, natural bounds), which every run
evaluates. The paths of `ArchiveEdit` are finitely many (`PathsAreBounded`), any number of
any depth: a listing has at most 3000 members and 256 KiB of names (`list.go:122-140`).

`PublishProofs`: type correctness (`Typing`), then `Invariance` of `IInv`, from
which `OneWinnerEver`, `PublicIsComplete`, `RetainedIsPrevious` and
`LossOnlyByRollback` follow. None of the four is inductive. `OneWinner` speaks of
replies, but what excludes a second winner is where files are: a file is in one
place (`OnePlace`), a file not staged yet is nowhere and in nobody's expectation
(`OnlyBorn`), and what a winner displaced is in its staging folder or gone
for ever (`Displaced`). A second winner with the same expectation would have to
hold the same file in its own folder. For a new file the argument is that the name
stays in use until something is deleted (`Occupied`). `Conserved` extends
`NothingLost` to workers that have exchanged but not replied. The part of `IInv` that
transfers keep as well is `Base`. The proof has one
lemma per action, over facts about where one exchange leaves every file.

Without rollbacks that is all. What a rollback can do is proved from both sides.
`OnlyStaleRollbacksHarm` (`NothingLost`, `FailureHarmless`), for any number of requests,
crashes, deletions and writes in place: nothing is lost and no failure leaves anything behind
unless a rollback is made at a name that has got another file since its recheck
(`StaleRollback`, `transfer.go:285-286`). It rests on two facts: after a rollback a request holds its own file or nothing
(`Undone`), and every file that was there or took effect is linked, held by a request that
replaced it, or was deleted (`Found`). The hypothesis speaks of the states of the race
itself, so `publish_triple` shows the only way.
`PairLosesNothing` and `PairFailsHarmlessly` say when it cannot happen: as long as no name has
more than two requests (`~Crowded`) and nobody writes in place, with any number of names. An exchange
brings back a wrong file only when the rival has been there before (`Beaten`), and that one
never touches the name again, so the rollback finds its own file unless that was deleted (`Duel`). Writes in place have to
be excluded: one between the exchange and the check makes the first roll back too, and TLC
then finds a file lost with two requests (`MaxTouches = 1`).
`PublishIsAtomic` is the refinement of `AtomicReplace` under the same conditions and without
SIGKILL: every step is a step of the register or none. A worker
killed before its rollback leaves its file in place of one that it did not expect, which the
register never does. That the empty entry is not a name (`NoFile \notin Name`) is what tells a request of the register
from none.

`GrantChannelProofs`: `Typing`; `Invariance` of `Exclusive` (who talks holds the
mutex) with `InStep` (until a call has given up, the only request under way is the
reader's own, in one of its three stages), hence `OwnTokenUntilExpired`; and
`LagNeverExceedsExpired`, which counts requests and replies under way.

`ArchiveEditProofs`: `Invariance` of `IInv`, hence `UpdatesAreNeverLost`. The property
compares the bytes a batch was made from with the version it replaces, but neither
guard of the code compares bytes: a local replacement compares the revision, that
of an account the token. What makes them enough is the order of the reads:
revision, then token, then bytes, so revision <= token <= bytes as positions in the
history (`Ordered`), and since no version comes twice, a revision or token that is
still current at the replacement squeezes the bytes to the current version. The
invariant also keeps what is staged tied to what was opened (`Ready`), a request
under way included, as the provider may act on it after the worker is gone. Typing
is part of it; the type invariants are proved here for every instance and not
listed in the runs.

The second half of the module is about what a batch of any length makes of an archive, on
`BatchInv`, which is inductive together with `IInv`.
`StagedChangesSuffice` (`ChangesMakeListing`): the archiver is given only what is to be
removed and added, and the rest is assumed to be listed again. What was staged is therefore
of the old listing or written by an operation of the batch (`Staged`); a member whose folder
is gone was removed with it. That the folders come back is `ListedAgain`: an implied folder
that is in the listing has a deepest entry below it, a minimal element in a finite set, and
that one is in the archive.
`FilesWereSeen` (`ReplacesOnlyWhatWasSeen`): a member revision is the hash of the path and of
the version the request first opened, its `baseline`, which survives the request's own
batches. So nothing is replaced but what was the same in that version, or what the request
itself wrote since (`Based`): it holds as far as the bytes are of the compared revision, and
revision <= bytes makes them so at the replacement.
`ChangesByWholeBatches` (`WholeBatches`): every step is a step of `AtomicArchive` or none.
`StageWrite`, `StageDelete` and `RequestWhole` ask; the replacement, local or by the
provider, applies the whole batch to the tree as it is; a reply settles or answers. What is
installed has to be `DoAll` of the current tree, so the staged listing is tracked as the
course of the batch, operation by operation (`Made`; `DoAllUnfolds`). The induction over the
length of a batch is done by a least counterexample, since the library's induction
theorems take an operator.

`TaskQueueProofs`: `Typing`, then one invariant per property. `ItemsAreAccounted` needs
`Books`: a task is in the queue once, only the first has begun, the loop stands at the
item after those processed, and the counts of a task that is not cancelled add up. The
property only speaks of tasks that ended, and a step that counted an item twice would be
seen there many steps later. `SerialEver` needs no strengthening. `CancelledIsIdle` is
about steps: whatever starts work is the head of the queue and reads its `cancelled` flag after
the last await. `ConsentIsKept` needs `Meant`: an order, even one whose request the
browser has given up, carries only revisions the user agreed to replace, or its task has a
blanket choice; the server replaces what the order carries and nothing else.

The second half of `PublishProofs` is about `Transfer`, with transfers, uploads, edits, deletions,
crashes and in-place writes together, on `TransferBase`: types, what the history variables may
be, and `Base`. The steps shared with `Publish` are steps of its `Next`, so its lemmas carry over, and
only the steps of a transfer's own are new. Hence `TransferPublicIsComplete` and
`TransferRetainsPrevious`, the two properties of `Publish` that hold when the destinations are shared.
`TroubleIsRecoverable` (`TroubleKeepsAll`): `Recoverable` says it from the publication on: what an exchange
brought back is verified before the transfer goes on, only the worker itself takes from
its folder, and the cleanup keeps the folder of an outcome `"kept"`.
`MovedOnceOnly` (`MovedOnce`): after a successful move its source name is empty or some other request
is aimed at it (`Vacated`). The second of two moves from there reports success only if it found the same file,
which is in one place and would have to come back. That takes a third request that puts something
there (`Contested`), and then moving it again is right. Nothing else is assumed.
`PairKeepsContents` and `OnlyStaleRollbacksLoseContents` (`ContentsSurvive`): contents survive although the file
is removed, because a move removes its source only after its copy was published. Which copy
that is may itself be moved on, so a file is followed with everything that was copied from it. Copies never
form a circle, since a file is copied when it exists already and its copy is new (`Acyclic`); so in the family of a file
there is always one with its contents that is published, or was replaced or
deleted on purpose (`Leafy`). A removal takes what was copied and compared (else `OnlyComparedRemoved` is false
already, which the property excepts), the published copy has the same contents (`Sourced`), and
in the family of the copy, which the source is not in, there is again such a file. The first theorem is for names
with at most two requests, the second for any number without a stale rollback; neither
bounds the transfers, and both hold with crashes, which the runs leave out. Writes in place are excluded: they change contents,
which the property compares.

`TrashProofs`: `NothingIsStranded`, `LossIsTheSkippedNote` and `OnlyTroubleLeavesContainers`. The
first two rest on `Residents`, who may be in a container: nothing before its own request moves
the item (`Untouched`), never another item (`Own`), a restore or deletion is about the item
that lies there (`Chosen`), and when the cleanup lists a container that item is gone, unless
its restore was skipped (`Emptied`). The last is what a list of names, taken before the
unlinks, relies on. `LeftoverNeedsTrouble` speaks of a system at rest only; while requests run,
a container that nobody wants, and no failed call has left, has somebody who is yet to remove it (`Swept`). Who that is may
change: a cleanup that finds the note gone stops, which is right because the one that unlinked it
had found nothing else listed and goes on to the rmdir, or fails at it. That takes notes
which are complete before anybody lists them (`AllListed`), of which there is one at most
(`Single`), and a request that never ends with an
empty container of its own (`Filled`, `Written`); both fail for who was early (`InTime`).

`CloudTransferProofs`: `GarbledStaysPrivate`, `OnlyTramplingLoses` and `MovesReportOnce`, for any
number of requests, accounts and entries, on one invariant, `CloudInv`.
`GarbledStaysPrivate` (`OnlyVerifiedPublic`): nobody sees a private name before the request that drew
it writes there (`Unseen`), so whatever is found under it later, moved folders included, is that one
write (`Uniform`). What was read back is therefore what `moveto` publishes, wherever the staged
object has been in between (`Checked`).
`MovesReportOnce` (`MovedOnce`): an object is in one place (`Placed`), and the one that was inspected
is there or nowhere (`Stays`), since only staged objects move. A move that succeeds leaves it nowhere.
`OnlyTramplingLoses` (`LossNeedsTrampling`): moves that run at the same time may each rely on the copy
that another is about to remove as its source: A moves to B while B is moved to A. The circle never
closes. Among the moves that still find the object they inspected there is a strict order
of places in which the copy comes later than the source (`Chained`): whatever is written becomes the
last place of that order, for the moves from there no longer find what they inspected. So what is
removed is also at a later place. `ContentsKeepPublicName` says more than the property: the contents
keep a name that users see, not just one that a failed request left behind.

`TreeMoveProofs`: `NoTextIsLost` and `SuccessIsComplete`, for trees of any depth and any
number of steps of others. Both rest on `Placed`, which is inductive by itself: both sides are
trees; the folders that are merged lie one in the other and are folders on both sides; the names
left in them lie apart from the entry at hand; the folders being removed lie below the entry.
It is what makes cutting, taking and grafting subtrees of different places independent, from a
dozen lemmas about prefixes.
`NoTextIsLost` (`TreeSurvives`) says more while a removal runs: what it may still take without a
look has its like at the destination, or was given up, or came late (`Kept`). What it may take only
shrinks: a folder that is listed exposes no new names.
`SuccessIsComplete` (`MergeIsComplete`) speaks of the end only. Until then every text of the source is
pending (below a name that is left, or below the entry until that is published) or at a place of the
destination where nothing may be replaced any more (`Accounted`), and in a move nothing else is
left but what is being compared and removed (`LeftBehind`). That a replacement never hits what the
same request had brought over is the reason for "nothing may be replaced": under the policy
`replace` every entry keeps its name, and no name is picked twice.

`PartsProofs`: the other parts of the run `parts`, one after the other.
`CapIsKept` (`ThumbnailCap`): a process of a request is alive only while its handler still
reads, so decoders are at most the slots held.
`WhatWasSeenIsSwitched` and `WhatIsReportedIsReal`: what a request has seen of a repository,
more with every command (`Current`), stays true until another git comes in, because it holds its
lock from the first command on (`Locked`) and only a request that holds the lock alone changes anything.
`HeadroomIsShared` (`HeadroomShared`): the units that previews may still write without looking are
counted as a set of pairs, `Spread`, whatever the number of previews. Once anything is written or
allowed, what is free, with what others took, and one step for each preview but one reach the
headroom and the `Spread` (`Reserved`): a look finds more than the headroom and grants a step,
which covers the chunk that is yet to be put.
`BatchesArePrefixes` (`BatchIsPrefix`): a selection may name one inode several times, so what an
inode is to be by now (`Due`) is as asked once any of its items is done. Between chown and chmod it
has its owner and at most the bits it had (`Half`). An inode nobody else touched was found the same
at each check (`Meant`), though the checks of its items are apart.
`OriginsAreTrue` (`OriginIsTrue`): roots are apart, and there is one container of a name in each place
(`Containers`), so a path into a trash leads to one note. That a trashed folder takes the trashes in
it along keeps this true (`Hosted`). A note is believed only if the folder of the trash is a root:
of the roots above a container the longest is where its volume is mounted, so it is the trash of
that volume (`OutermostTrash`).

Only model-checked: liveness (`Terminates`, `CallsReturn`, `EveryTaskEnds`,
`WaitersAnswered`), which the provers do not cover. Every other property of a passing run is stated by
a theorem. Some have conditions, which the instances of the runs meet:
`PublishIsAtomic`, `PairLosesNothing`, `PairFailsHarmlessly` and `PairKeepsContents` need at most
two requests for a name, `MovedOnceOnly` two moves without a third. Neither can be dropped:
`publish_triple` violates the one, a third move that brings the file back the other.

## Plan

Done, the most important behaviour first: publishing and its abstract register;
transfers; trash; the grant channel; accounts; archives and their abstract tree; the
queue; folders; the parts. A new module gets a run of its own only if its question needs
one; the parts that share no state are checked in one.

Left, in this order:

1. merges with several levels of folders in an account; archives inside archives;
2. progress accounting, the plan's fingerprint of folders.

## Not modelled

The wire format between core and module, the JSON contract, build tooling, rendering in the
browser, and the decoding of images have no shared state. The listing of
archives is the parsing of one program's output; `ArchiveEdit` takes its result.
Downloads and `Link` read once. Identity changes (re-exec with the user's UID) and path resolution by descriptor
are taken to do what the kernel says. Power loss and damaged media are excluded by
the repository itself (README.md:107-108). Metadata, ACLs and time stamps of copies
are data the properties do not tell apart.
