----------------------------- MODULE GrantChannel -----------------------------
(***************************************************************************)
(* How a worker process gets OAuth tokens (cmd/server/grants.go).  The     *)
(* goroutines of the worker share one socket to the parent process and     *)
(* take turns under a mutex; the parent answers one request after the      *)
(* other by asking the core.  Neither requests nor replies carry an        *)
(* identifier: a reply belongs to whoever reads next.                      *)
(***************************************************************************)
EXTENDS Naturals, Sequences

CONSTANTS
  Caller,    \* goroutines that call the broker: the two ends of a copy, a cleanup
  Grant,     \* linked accounts
  NoCaller,  \* nobody holds the mutex
  MaxCalls   \* bound: calls of each caller

ASSUME GrantAssumption ==
  /\ NoCaller \notin Caller
  /\ MaxCalls \in Nat
  /\ \A g \in Grant : g \notin {"none", "error"}

VARIABLES
  pc,       \* where each caller stands
  want,     \* want[c]: the grant of the last call of c
  got,      \* got[c]: the grant whose token that call returned, or "error"
  calls,    \* calls[c]: calls c has made
  mutex,    \* the caller that holds the mutex
  requests, \* requests on their way to the parent
  serving,  \* the request the parent is working on
  replies,  \* replies not read yet
  expired   \* history: calls that gave up after they had sent their request

vars == <<pc, want, got, calls, mutex, requests, serving, replies, expired>>

Result == Grant \cup {"none", "error"}

Init ==
  /\ pc = [c \in Caller |-> "idle"]
  /\ want \in [Caller -> Grant]
  /\ got = [c \in Caller |-> "none"]
  /\ calls = [c \in Caller |-> 0]
  /\ mutex = NoCaller
  /\ requests = <<>> /\ replies = <<>>
  /\ serving = "none"
  /\ expired = 0

Call(c) ==
  /\ pc[c] = "idle" /\ calls[c] < MaxCalls
  /\ pc' = [pc EXCEPT ![c] = "waiting"]
  /\ \E g \in Grant : want' = [want EXCEPT ![c] = g]
  /\ got' = [got EXCEPT ![c] = "none"]
  /\ calls' = [calls EXCEPT ![c] = @ + 1]
  /\ UNCHANGED <<mutex, requests, serving, replies, expired>>

\* Mutant: callers do not take turns.
NoTurns == TRUE
Unlocked == mutex = NoCaller

Lock(c) ==
  /\ pc[c] = "waiting" /\ Unlocked
  /\ mutex' = c
  /\ pc' = [pc EXCEPT ![c] = "sending"]
  /\ UNCHANGED <<want, got, calls, requests, serving, replies, expired>>

\* Mutant: an early return leaves the mutex locked.
ForgetUnlock == UNCHANGED mutex
Unlock == mutex' = NoCaller

\* The call returns r; the deferred Unlock runs.
Return(c, r) ==
  /\ pc' = [pc EXCEPT ![c] = "idle"]
  /\ got' = [got EXCEPT ![c] = r]
  /\ Unlock

\* The request is written before the deadline, or the call gives up.
Send(c) ==
  /\ pc[c] = "sending"
  /\ \/ /\ requests' = Append(requests, want[c])
        /\ pc' = [pc EXCEPT ![c] = "reading"]
        /\ UNCHANGED <<got, mutex>>
     \/ Return(c, "error") /\ UNCHANGED requests
  /\ UNCHANGED <<want, calls, serving, replies, expired>>

\* Decode the first reply there is.  The decoder is new in every call: what it
\* has read beyond the first reply is dropped with it.
Receive(c) ==
  /\ pc[c] = "reading" /\ replies # <<>>
  /\ Return(c, Head(replies))
  /\ \E n \in 1 .. Len(replies) : replies' = SubSeq(replies, n + 1, Len(replies))
  /\ UNCHANGED <<want, calls, requests, serving, expired>>

\* The deadline of the call, at most 45 s, passes before a reply is there.
Expire(c) ==
  /\ pc[c] = "reading"
  /\ Return(c, "error")
  /\ expired' = expired + 1
  /\ UNCHANGED <<want, calls, requests, serving, replies>>

\* The goroutine of grantChannel, in the parent: one request at a time.
Serve ==
  /\ serving = "none" /\ requests # <<>>
  /\ serving' = Head(requests)
  /\ requests' = Tail(requests)
  /\ UNCHANGED <<pc, want, got, calls, mutex, replies, expired>>

\* The core answers with a token, refuses, or does not answer for 45 s.
Answers == {serving, "error"}

Answer ==
  /\ serving # "none"
  /\ \E a \in Answers : replies' = Append(replies, a)
  /\ serving' = "none"
  /\ UNCHANGED <<pc, want, got, calls, mutex, requests, expired>>

Turn(c) == Send(c) \/ Receive(c) \/ Expire(c)

Next ==
  \/ \E c \in Caller : Call(c) \/ Lock(c) \/ Turn(c)
  \/ Serve \/ Answer

Spec == Init /\ [][Next]_vars

\* Deadlines pass, and sync.Mutex does not let a waiter starve.
GrantFairness == \A c \in Caller : WF_vars(Turn(c)) /\ SF_vars(Lock(c))

FairSpec == Spec /\ GrantFairness

-----------------------------------------------------------------------------

TypeOK ==
  /\ pc \in [Caller -> {"idle", "waiting", "sending", "reading"}]
  /\ want \in [Caller -> Grant]
  /\ got \in [Caller -> Result]
  /\ calls \in [Caller -> 0 .. MaxCalls]
  /\ mutex \in Caller \cup {NoCaller}
  /\ requests \in Seq(Grant) /\ replies \in Seq(Grant \cup {"error"})
  /\ serving \in Grant \cup {"none"}
  /\ expired \in Nat

\* A call returns the token of the grant it asked for, or an error ("several
\* accounts per provider work through independent grants", README.md).
RightToken == \A c \in Caller : got[c] \in {want[c], "none", "error"}

\* It does until some call has given up on a reply that was still to come.
RightUntilExpired == expired = 0 => RightToken

\* What is under way: requests sent, being served or answered but not read.
UnderWay == Len(requests) + Len(replies) + (IF serving = "none" THEN 0 ELSE 1)
Reading  == {c \in Caller : pc[c] = "reading"}

\* The channel is never further out of step than the number of calls that gave
\* up, and a call that is reading always has a reply of its own to come unless
\* an earlier one dropped it.
LagBounded ==
  /\ UnderWay <= expired + (IF Reading = {} THEN 0 ELSE 1)
  /\ expired = 0 => UnderWay = (IF Reading = {} THEN 0 ELSE 1)

\* Every call returns: the deadline bounds each turn, and turns are handed on.
CallsReturn == \A c \in Caller : pc[c] = "waiting" ~> pc[c] = "idle"

-----------------------------------------------------------------------------
(* The strengthening that makes RightUntilExpired inductive. *)

\* Who talks on the socket holds the mutex.
Exclusive == \A c \in Caller : pc[c] \in {"sending", "reading"} => mutex = c

\* Without an expired call the only request under way is the reader's own.
InStep ==
  expired = 0 =>
    /\ Reading = {} => requests = <<>> /\ serving = "none" /\ replies = <<>>
    /\ \A c \in Reading :
         \/ requests = <<want[c]>> /\ serving = "none" /\ replies = <<>>
         \/ requests = <<>> /\ serving = want[c] /\ replies = <<>>
         \/ /\ requests = <<>> /\ serving = "none"
            /\ \E a \in {want[c], "error"} : replies = <<a>>

IInv == Exclusive /\ InStep /\ RightUntilExpired
=============================================================================
