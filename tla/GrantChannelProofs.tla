-------------------------- MODULE GrantChannelProofs --------------------------
(***************************************************************************)
(* Proofs about GrantChannel for any number of callers, grants and calls.  *)
(* The invariant says that, until a call gives up, the only thing under    *)
(* way on the socket is the request of the caller that holds the mutex.    *)
(***************************************************************************)
EXTENDS GrantChannel, SequenceTheorems, TLAPS

LEMMA AppendToEmpty == ASSUME NEW x PROVE Append(<<>>, x) = <<x>>
OBVIOUS

LEMMA AppendType ==
  ASSUME NEW S, NEW s \in Seq(S), NEW x \in S PROVE Append(s, x) \in Seq(S)
OBVIOUS

LEMMA DropLength ==
  ASSUME NEW S, NEW s \in Seq(S), NEW n \in 1 .. Len(s)
  PROVE  Len(SubSeq(s, n + 1, Len(s))) = Len(s) - n
<1>1. Len(s) \in Nat /\ \A i \in 1 .. Len(s) : s[i] \in S
  OBVIOUS
<1>2. Len(SubSeq(s, n + 1, Len(s)))
        = IF n + 1 <= Len(s) THEN Len(s) - (n + 1) + 1 ELSE 0
  <2>1. n + 1 \in Int /\ \A i \in n + 1 .. Len(s) : s[i] \in S
    BY <1>1
  <2> QED BY <1>1, <2>1, SubSeqProperties
<1> QED BY <1>1, <1>2

LEMMA TypeStep == ASSUME TypeOK, [Next]_vars PROVE TypeOK'
<1> USE DEF TypeOK, Result
<1>1. CASE UNCHANGED vars
  BY <1>1 DEF vars
<1>2. ASSUME NEW c \in Caller, Call(c) PROVE TypeOK'
  <2>1. want' \in [Caller -> Grant] /\ got' \in [Caller -> Result] /\ calls' \in [Caller -> 0 .. MaxCalls]
    BY <1>2, GrantAssumption DEF Call, GrantAssumption
  <2>2. pc' \in [Caller -> {"idle", "waiting", "sending", "reading"}]
    BY <1>2 DEF Call
  <2> QED BY <1>2, <2>1, <2>2 DEF Call
<1>3. ASSUME NEW c \in Caller, Lock(c) PROVE TypeOK'
  BY <1>3 DEF Lock, Unlocked
<1>4. ASSUME NEW c \in Caller, Send(c) PROVE TypeOK'
  <2>1. want[c] \in Grant
    OBVIOUS
  <2>2. requests' \in Seq(Grant)
    <3>1. requests' \in {requests, Append(requests, want[c])}
      BY <1>4 DEF Send
    <3>2. Append(requests, want[c]) \in Seq(Grant)
      BY <2>1, AppendType
    <3> QED BY <3>1, <3>2
  <2>3. pc' \in [Caller -> {"idle", "waiting", "sending", "reading"}]
        /\ got' \in [Caller -> Result] /\ mutex' \in Caller \cup {NoCaller}
    BY <1>4 DEF Send, Return, Unlock
  <2> QED BY <1>4, <2>2, <2>3 DEF Send
<1>5. ASSUME NEW c \in Caller, Receive(c) PROVE TypeOK'
  <2>1. Head(replies) \in Grant \cup {"error"}
    BY <1>5 DEF Receive
  <2>2. replies' \in Seq(Grant \cup {"error"})
    <3>1. PICK n \in 1 .. Len(replies) : replies' = SubSeq(replies, n + 1, Len(replies))
      BY <1>5 DEF Receive
    <3> QED BY <3>1
  <2> QED BY <1>5, <2>1, <2>2 DEF Receive, Return, Unlock
<1>6. ASSUME NEW c \in Caller, Expire(c) PROVE TypeOK'
  BY <1>6 DEF Expire, Return, Unlock
<1>7. CASE Serve
  BY <1>7 DEF Serve
<1>8. CASE Answer
  BY <1>8, GrantAssumption DEF Answer, Answers, GrantAssumption
<1> QED
  BY <1>1, <1>2, <1>3, <1>4, <1>5, <1>6, <1>7, <1>8 DEF Next, Turn

\* Type correctness: tokens, requests and replies are of the linked accounts.
THEOREM Typing == Spec => []TypeOK
<1>1. Init => TypeOK
  BY GrantAssumption DEF Init, TypeOK, Result, GrantAssumption
<1> QED
  BY <1>1, TypeStep, PTL DEF Spec

LEMMA InvInit == Init => IInv
  BY GrantAssumption DEF Init, IInv, Exclusive, InStep, Reading, RightUntilExpired, RightToken

LEMMA InvStep == ASSUME TypeOK, IInv, [Next]_vars PROVE IInv'
<1> USE DEF TypeOK, IInv, Exclusive, InStep, Reading, RightUntilExpired, RightToken
<1>1. CASE UNCHANGED vars
  BY <1>1 DEF vars
<1>2. ASSUME NEW c \in Caller, Call(c) PROVE IInv'
  BY <1>2 DEF Call
<1>3. ASSUME NEW c \in Caller, Lock(c) PROVE IInv'
  BY <1>3, GrantAssumption DEF Lock, Unlocked, GrantAssumption
<1>4. ASSUME NEW c \in Caller, Send(c) PROVE IInv'
  <2>1. mutex = c /\ \A d \in Caller \ {c} : pc[d] \notin {"sending", "reading"}
    BY <1>4 DEF Send
  <2>2. Reading = {}
    BY <1>4, <2>1 DEF Send
  <2>3. CASE pc' = [pc EXCEPT ![c] = "reading"] /\ requests' = Append(requests, want[c])
             /\ UNCHANGED <<got, mutex>>
    <3>1. expired = 0 => requests' = <<want[c]>>
      <4>1. expired = 0 => requests = <<>>
        BY <2>2
      <4> QED BY <2>3, <4>1, AppendToEmpty
    <3>2. Reading' = {c}
      BY <2>1, <2>3
    <3>3. Exclusive' /\ RightUntilExpired'
      BY <1>4, <2>1, <2>3 DEF Send
    <3>4. InStep'
      BY <1>4, <2>2, <3>1, <3>2 DEF Send
    <3> QED BY <3>3, <3>4
  <2>4. CASE Return(c, "error") /\ UNCHANGED requests
    BY <1>4, <2>1, <2>4 DEF Send, Return, Unlock
  <2> QED BY <1>4, <2>3, <2>4 DEF Send
<1>5. ASSUME NEW c \in Caller, Receive(c) PROVE IInv'
  BY <1>5 DEF Receive, Return, Unlock
<1>6. ASSUME NEW c \in Caller, Expire(c) PROVE IInv'
  BY <1>6 DEF Expire, Return, Unlock
<1>7. CASE Serve
  BY <1>7 DEF Serve
<1>8. CASE Answer
  <2>1. Exclusive' /\ RightUntilExpired'
    BY <1>8 DEF Answer
  <2>2. InStep'
    <3>1. SUFFICES ASSUME expired = 0 PROVE InStep'
      BY <1>8 DEF Answer
    <3>2. PICK a \in {serving, "error"} : replies' = Append(replies, a)
      BY <1>8 DEF Answer, Answers
    <3>3. Reading # {}
      BY <1>8, <3>1 DEF Answer
    <3>4. ASSUME NEW c \in Reading
          PROVE requests = <<>> /\ serving = want[c] /\ replies = <<>>
      <4>1. c \in Caller /\ want[c] \in Grant
        OBVIOUS
      <4>2. serving # "none"
        BY <1>8 DEF Answer
      <4> QED BY <3>1, <4>2
    <3>5. replies' = <<a>>
      BY <3>2, <3>3, <3>4, AppendToEmpty
    <3> QED BY <1>8, <3>2, <3>3, <3>4, <3>5 DEF Answer
  <2> QED BY <2>1, <2>2
<1> QED
  BY <1>1, <1>2, <1>3, <1>4, <1>5, <1>6, <1>7, <1>8 DEF Next, Turn

\* The mutex keeps callers apart and, until a call gives up, the socket in step.
THEOREM Invariance == Spec => []IInv
<1> QED
  BY InvInit, InvStep, Typing, PTL DEF Spec

\* However many goroutines share the channel and whatever the core answers, no
\* call returns the token of another grant before some call has given up.
THEOREM OwnTokenUntilExpired == Spec => []RightUntilExpired
<1>1. IInv => RightUntilExpired
  BY DEF IInv
<1> QED
  BY <1>1, Invariance, PTL

LEMMA LagStep ==
  ASSUME TypeOK, TypeOK', IInv, IInv', LagBounded, [Next]_vars PROVE LagBounded'
<1>1. SUFFICES ASSUME Next
              PROVE UnderWay' <= expired' + (IF Reading' = {} THEN 0 ELSE 1)
                    /\ (expired' = 0 => UnderWay' = (IF Reading' = {} THEN 0 ELSE 1))
  BY DEF LagBounded, UnderWay, Reading, vars
<1>2. ASSUME NEW c \in Caller, Call(c) \/ Lock(c) PROVE LagBounded'
  <2>1. Reading' = Reading
    BY <1>2 DEF Call, Lock, Reading, TypeOK
  <2> QED BY <1>2, <2>1 DEF Call, Lock, LagBounded, UnderWay
<1>3. ASSUME NEW c \in Caller, Send(c) PROVE LagBounded'
  <2>1. Reading = {}
    BY <1>3 DEF Send, Reading, IInv, Exclusive
  <2>2. CASE requests' = Append(requests, want[c]) /\ pc' = [pc EXCEPT ![c] = "reading"]
    <3>1. c \in Reading'
      BY <2>2 DEF Reading, TypeOK
    <3>2. Len(requests') = Len(requests) + 1
      BY <2>2 DEF TypeOK
    <3>3. Len(requests) \in Nat /\ Len(replies) \in Nat
      BY DEF TypeOK
    <3> QED BY <1>3, <2>1, <3>1, <3>2, <3>3 DEF Send, LagBounded, UnderWay, TypeOK
  <2>3. CASE Return(c, "error") /\ UNCHANGED requests
    <3>1. Reading' = {}
      BY <2>1, <2>3 DEF Return, Reading, TypeOK
    <3> QED BY <1>3, <2>1, <2>3, <3>1 DEF Send, LagBounded, UnderWay
  <2> QED BY <1>3, <2>2, <2>3 DEF Send
<1>4. ASSUME NEW c \in Caller, Receive(c) \/ Expire(c) PROVE LagBounded'
  <2>1. c \in Reading
    BY <1>4 DEF Receive, Expire, Reading
  <2>2. Reading' = {}
    BY <1>4, <2>1 DEF Receive, Expire, Return, Reading, TypeOK, IInv, Exclusive
  <2>3. Len(requests) \in Nat /\ Len(replies) \in Nat
    BY DEF TypeOK
  <2>4. CASE Receive(c)
    <3>1. PICK n \in 1 .. Len(replies) : replies' = SubSeq(replies, n + 1, Len(replies))
      BY <2>4 DEF Receive
    <3>2. Len(replies') = Len(replies) - n
      <4>1. Len(SubSeq(replies, n + 1, Len(replies))) = Len(replies) - n
        BY DropLength DEF TypeOK
      <4> QED BY <3>1, <4>1, Zenon
    <3>3. UNCHANGED <<requests, serving, expired>> /\ expired \in Nat
      BY <2>4 DEF Receive, TypeOK
    <3>4. UnderWay' = UnderWay - n /\ UnderWay \in Nat /\ n \in Nat /\ n >= 1
      BY <2>3, <3>2, <3>3 DEF UnderWay
    <3>5. Reading # {}
      BY <2>1
    <3>6. UnderWay <= expired + 1 /\ (expired = 0 => UnderWay = 1)
      BY <3>5 DEF LagBounded
    <3>7. UnderWay' \in Nat
      BY <2>3, <3>2, <3>3, TypeOK' DEF UnderWay, TypeOK
    <3>8. UnderWay' <= expired /\ (expired = 0 => UnderWay' = 0)
      BY <3>3, <3>4, <3>6, <3>7
    <3> QED BY <2>2, <3>3, <3>8 DEF LagBounded
  <2>5. CASE Expire(c)
    BY <2>1, <2>2, <2>3, <2>5 DEF Expire, LagBounded, UnderWay, TypeOK
  <2> QED BY <1>4, <2>4, <2>5
<1>5. CASE Serve
  <2>1. Len(requests') = Len(requests) - 1
    BY <1>5 DEF Serve, TypeOK
  <2>2. serving' # "none"
    BY <1>5, GrantAssumption DEF Serve, TypeOK, GrantAssumption
  <2>3. Len(requests) \in Nat /\ Len(replies) \in Nat
    BY DEF TypeOK
  <2>4. Reading' = Reading
    BY <1>5 DEF Serve, Reading
  <2> QED BY <1>5, <2>1, <2>2, <2>3, <2>4 DEF Serve, LagBounded, UnderWay, TypeOK
<1>6. CASE Answer
  <2>1. Len(replies') = Len(replies) + 1
    BY <1>6 DEF Answer, Answers, TypeOK
  <2>2. Len(requests) \in Nat /\ Len(replies) \in Nat
    BY DEF TypeOK
  <2>3. Reading' = Reading
    BY <1>6 DEF Answer, Reading
  <2> QED BY <1>6, <2>1, <2>2, <2>3 DEF Answer, LagBounded, UnderWay, TypeOK
<1> QED
  BY <1>1, <1>2, <1>3, <1>4, <1>5, <1>6 DEF Next, Turn, LagBounded

\* The socket is never further out of step than the number of calls that gave up.
THEOREM LagNeverExceedsExpired == Spec => []LagBounded
<1>1. Init => LagBounded
  BY DEF Init, LagBounded, UnderWay, Reading
<1> QED
  BY <1>1, LagStep, Typing, Invariance, PTL DEF Spec
=============================================================================
