------------------------------ MODULE GitSwitch ------------------------------
(***************************************************************************)
(* Folders that are git repositories (internal/gitfs/git.go): requests     *)
(* look at one, or switch its branch, as a series of git commands under a  *)
(* lock on the folder that they do not wait for.  Git itself, run by       *)
(* others, takes no such lock.  A command may time out and be killed.      *)
(*                                                                         *)
(* The work tree is the commit whose files it holds, or Mixed after a      *)
(* switch that was killed, and whether it was edited since.  The search    *)
(* for the root and the check for filters decide only whether a request    *)
(* is refused, which it may always be.                                     *)
(***************************************************************************)
EXTENDS Naturals

CONSTANTS
  Client,           \* requests
  Branch, Detached, \* HEAD is on a branch or on none
  Commit, Absent,
  Mixed,            \* files of two commits
  Origin,           \* the branches of the remote
  Refs,             \* the local branches a run may start with
  MaxGit            \* bound on the commands of others

ASSUME GitAssumption ==
  /\ Detached \notin Branch /\ Absent \notin Commit /\ Mixed \notin Commit
  /\ Origin \in [Branch -> Commit \cup {Absent}]
  /\ Refs \subseteq [Branch -> Commit \cup {Absent}]
  /\ MaxGit \in Nat

VARIABLES
  head, tip,               \* [branch, commit] and the local branches
  files, edited,           \* the work tree
  indexLock,               \* index.lock, left by a git that was killed
  callers,                 \* of each request: its steps and what it asks
  report,                  \* what it found: [branch, commit, branches, dirty]
  gits,                    \* commands of others (the bound)
  stepped                  \* history: requests that others did not leave alone

repo    == <<head, tip, files, edited, indexLock>>
gitVars == <<repo, callers, report, gits, stepped>>

\* A request before it says what it wants, and again when it has been answered.
Idle == [step |-> "idle", kind |-> "inspect", want |-> CHOOSE b \in Branch : TRUE, expected |-> {},
         lock |-> "none", again |-> FALSE, local |-> FALSE, result |-> "none"]
NoReport == [branch |-> Detached, commit |-> Absent, branches |-> {}, dirty |-> FALSE]

GitInit ==
  /\ tip \in Refs
  /\ head \in {[branch |-> b, commit |-> tip[b]] : b \in {x \in Branch : tip[x] # Absent}}
  /\ files = head.commit /\ edited = FALSE /\ indexLock = FALSE
  /\ callers = [r \in Client |-> Idle]
  /\ report = [r \in Client |-> NoReport]
  /\ gits = 0 /\ stepped = {}

-----------------------------------------------------------------------------

Set(r, s)   == callers' = [callers EXCEPT ![r] = s]
Go(r, next) == Set(r, [callers[r] EXCEPT !.step = next])
AtStep(r, s) == callers[r].step = s
\* Whatever the outcome, the folder is unlocked; no report comes with an error.
EndCall(r, outcome) == Set(r, [Idle EXCEPT !.step = "end", !.result = outcome])
Quit(r) == EndCall(r, "refused") /\ report' = [report EXCEPT ![r] = NoReport]

\* Mutant: the folder is shared by all requests.
AlwaysShared(kind) == "shared"
LockMode(kind) == IF kind = "inspect" THEN "shared" ELSE "exclusive"
Free(r, mode) ==
  \A q \in Client \ {r} :
    callers[q].lock = "none" \/ (mode = "shared" /\ callers[q].lock = "shared")

\* A request to inspect, to plan a switch or to switch, by a user who was shown the
\* repository as it is now, or who does not say what was shown.
Arrive(r) ==
  /\ AtStep(r, "idle")
  /\ \E kind \in {"inspect", "plan", "switch"}, want \in Branch, expected \in {{}, {head}} :
       /\ kind = "inspect" => want = Idle.want /\ expected = {}
       /\ Set(r, [callers[r] EXCEPT !.step = "lock", !.kind = kind, !.want = want, !.expected = expected])
  /\ UNCHANGED <<repo, report, gits, stepped>>

LockRoot(r) ==
  /\ AtStep(r, "lock")
  /\ \/ Quit(r)
     \/ /\ Free(r, LockMode(callers[r].kind))
        /\ Set(r, [callers[r] EXCEPT !.step = "rev-parse", !.lock = LockMode(callers[r].kind)])
        /\ UNCHANGED report
  /\ UNCHANGED <<repo, gits, stepped>>

\* inspect: the commands that look at the repository, one after the other.
RevParse(r) ==
  /\ AtStep(r, "rev-parse")
  /\ \/ Quit(r)
     \/ Go(r, "symbolic-ref") /\ report' = [report EXCEPT ![r].commit = head.commit]
  /\ UNCHANGED <<repo, gits, stepped>>

\* A command that fails means a detached HEAD.
SymbolicRef(r) ==
  /\ AtStep(r, "symbolic-ref")
  /\ Go(r, "for-each-ref")
  /\ \E b \in {head.branch, Detached} : report' = [report EXCEPT ![r].branch = b]
  /\ UNCHANGED <<repo, gits, stepped>>

KnownBranches == {b \in Branch : tip[b] # Absent \/ Origin[b] # Absent}
ForEachRef(r) ==
  /\ AtStep(r, "for-each-ref")
  /\ \/ Quit(r)
     \/ Go(r, "status") /\ report' = [report EXCEPT ![r].branches = KnownBranches]
  /\ UNCHANGED <<repo, gits, stepped>>

Dirty == edited \/ files # head.commit

\* The last command, and what Switch makes of the report.
Status(r) ==
  LET c == callers[r]
      found == [report[r] EXCEPT !.dirty = Dirty]
      allowed == /\ ~found.dirty
                 /\ c.expected \in {{}, {[branch |-> found.branch, commit |-> found.commit]}}
                 /\ c.want \in found.branches
  IN
  /\ AtStep(r, "status")
  /\ \/ Quit(r)
     \/ /\ report' = [report EXCEPT ![r].dirty = Dirty]
        /\ \/ (c.kind = "inspect" \/ c.again \/ (c.kind = "plan" /\ allowed)) /\ EndCall(r, "shown")
           \/ c.kind = "switch" /\ ~c.again /\ allowed /\ Go(r, "show-ref")
  /\ UNCHANGED <<repo, gits, stepped>>

\* Anything but success makes it a branch to create.
ShowRef(r) ==
  /\ AtStep(r, "show-ref")
  /\ \E local \in {tip[callers[r].want] # Absent, FALSE} :
       Set(r, [callers[r] EXCEPT !.step = "switch", !.local = local])
  /\ UNCHANGED <<repo, report, gits, stepped>>

\* Git switches to a branch of its own, or makes one of the remote's.
Switchable(b, local) ==
  /\ ~indexLock /\ files = head.commit
  /\ IF local THEN tip[b] # Absent ELSE tip[b] = Absent /\ Origin[b] # Absent
Target(b, local) == IF local THEN tip[b] ELSE Origin[b]
Switch(b, local) ==
  /\ head' = [branch |-> b, commit |-> Target(b, local)]
  /\ tip' = [tip EXCEPT ![b] = Target(b, local)]
  /\ files' = Target(b, local)
  /\ UNCHANGED <<edited, indexLock>>

\* Mutant: the report from before the switch is returned.
NoSecondLook(r) == EndCall(r, "shown")
LookAgain(r) == Set(r, [callers[r] EXCEPT !.step = "rev-parse", !.again = TRUE])

\* It succeeds, refuses, or is killed at any moment: with the index locked, before HEAD
\* is set, or when all is done.
RunSwitch(r) ==
  LET b == callers[r].want local == callers[r].local IN
  /\ AtStep(r, "switch")
  /\ \/ Switchable(b, local) /\ Switch(b, local) /\ LookAgain(r) /\ UNCHANGED report
     \/ Quit(r) /\ UNCHANGED repo
     \/ /\ Switchable(b, local) /\ Quit(r)
        /\ \/ Switch(b, local)
           \/ /\ indexLock' = TRUE /\ files' \in {files, Mixed, Target(b, local)}
              /\ UNCHANGED <<head, tip, edited>>
           \/ /\ files' = Target(b, local) /\ tip' \in {tip, [tip EXCEPT ![b] = files']}
              /\ UNCHANGED <<head, edited, indexLock>>
  /\ UNCHANGED <<gits, stepped>>

-----------------------------------------------------------------------------

\* Git in the hands of others: edit and discard, commit, switch, detach.
Others ==
  /\ gits < MaxGit /\ gits' = gits + 1
  /\ stepped' = stepped \cup {r \in Client : callers[r].lock # "none"}
  /\ \/ edited' = TRUE /\ UNCHANGED <<head, tip, files, indexLock>>
     \/ /\ edited' = FALSE /\ indexLock' = FALSE /\ files' = head.commit
        /\ UNCHANGED <<head, tip>>
     \/ \E c \in Commit \ {head.commit} :
          /\ ~indexLock /\ files = head.commit
          /\ head' = [head EXCEPT !.commit = c] /\ files' = c /\ edited' = FALSE
          /\ tip' = IF head.branch = Detached THEN tip ELSE [tip EXCEPT ![head.branch] = c]
          /\ UNCHANGED indexLock
     \/ \E b \in Branch : Switchable(b, TRUE) /\ Switch(b, TRUE)
     \/ head' = [head EXCEPT !.branch = Detached] /\ UNCHANGED <<tip, files, edited, indexLock>>
  /\ UNCHANGED <<callers, report>>

Command(r) ==
  \/ Arrive(r) \/ LockRoot(r) \/ RevParse(r) \/ SymbolicRef(r) \/ ForEachRef(r)
  \/ Status(r) \/ ShowRef(r) \/ RunSwitch(r)

GitNext == Others \/ \E r \in Client : Command(r)

GitSpec == GitInit /\ [][GitNext]_gitVars

-----------------------------------------------------------------------------

\* A request changes the repository only from the branch and commit that its user was
\* shown, with nothing edited, unless another git came in while it held its lock; a
\* branch that git fails to tell counts as none.
SwitchesWhatWasSeen ==
  [][\A r \in Client :
       /\ AtStep(r, "switch") /\ callers'[r] # callers[r]
       /\ <<head, tip, files>>' # <<head, tip, files>>
       /\ r \notin stepped
       => /\ ~Dirty
          /\ \A e \in callers[r].expected : e.commit = head.commit /\ e.branch \in {head.branch, Detached}]_gitVars

\* What a request reports is what the repository was at one moment, and is when the
\* request ends, unless another git came in or git could not tell the branch.
ReportIsReal ==
  [][\A r \in Client :
       /\ ~AtStep(r, "end") /\ callers'[r].step = "end" /\ callers'[r].result = "shown"
       /\ r \notin stepped
       => /\ report'[r].branch \in {head'.branch, Detached}
          /\ report'[r] = [branch |-> report'[r].branch, commit |-> head'.commit,
                           branches |-> KnownBranches', dirty |-> Dirty']]_gitVars
=============================================================================
