----------------------------- MODULE Thumbnails ------------------------------
(***************************************************************************)
(* Thumbnails (cmd/server/files.go, content.go): a request waits for one   *)
(* of a few slots and then runs a decoder as the user it serves, which is  *)
(* the child of a process that runs as root.  The end of the request, at   *)
(* its deadline or when the client goes, kills the parent; the decoder     *)
(* gets a signal that it only obeys before it has set up its handler.      *)
(*                                                                         *)
(* The handler reads from a pipe that both processes hold open, and gives  *)
(* the slot back when it returns.                                          *)
(***************************************************************************)
EXTENDS Naturals, FiniteSets

CONSTANTS Viewer, Slots

ASSUME ThumbnailAssumption == IsFiniteSet(Viewer) /\ Slots \in Nat \ {0}

VARIABLES
  handler,   \* of each request: where its handler is
  over,      \* its context is done
  parent,    \* its process as root
  decoder,   \* the process of the user
  answer

thumbVars == <<handler, over, parent, decoder, answer>>

ThumbInit ==
  /\ handler = [v \in Viewer |-> "idle"]
  /\ over = [v \in Viewer |-> FALSE]
  /\ parent = [v \in Viewer |-> "none"]
  /\ decoder = [v \in Viewer |-> "none"]
  /\ answer = [v \in Viewer |-> "none"]

\* A slot is in the channel from the send to the return of the handler.
Holding == {v \in Viewer : handler[v] \in {"starting", "reading", "streaming"}}

Become(v, h) == handler' = [handler EXCEPT ![v] = h]
Reply(v, a) == Become(v, "returned") /\ answer' = [answer EXCEPT ![v] = a]

View(v) ==
  /\ handler[v] = "idle" /\ Become(v, "waiting")
  /\ UNCHANGED <<over, parent, decoder, answer>>

\* The deadline passes, or the client goes.
Expires(v) ==
  /\ handler[v] \notin {"idle", "returned"} /\ ~over[v]
  /\ over' = [over EXCEPT ![v] = TRUE]
  /\ UNCHANGED <<handler, parent, decoder, answer>>

Acquire(v) ==
  /\ handler[v] = "waiting" /\ Cardinality(Holding) < Slots
  /\ Become(v, "starting")
  /\ UNCHANGED <<over, parent, decoder, answer>>

\* Mutant: the deadline is only for the decoder.
WaitOnly(v) == FALSE
GiveUp(v) == over[v]
Unavailable(v) ==
  /\ handler[v] = "waiting" /\ GiveUp(v) /\ Reply(v, "unavailable")
  /\ UNCHANGED <<over, parent, decoder>>

\* A command is not started any more once its context is done.
Start(v) ==
  /\ handler[v] = "starting"
  /\ \/ ~over[v] /\ Become(v, "reading") /\ parent' = [parent EXCEPT ![v] = "runs"] /\ UNCHANGED answer
     \/ Reply(v, "unavailable") /\ UNCHANGED parent
  /\ UNCHANGED <<over, decoder>>

\* nsenter and content: the parent starts the decoder, or fails to.
Fork(v) ==
  /\ parent[v] = "runs" /\ decoder[v] = "none"
  /\ \/ decoder' = [decoder EXCEPT ![v] = "starts"] /\ UNCHANGED parent
     \/ parent' = [parent EXCEPT ![v] = "gone"] /\ UNCHANGED decoder
  /\ UNCHANGED <<handler, over, answer>>

\* signal.NotifyContext: from here on SIGTERM only cancels a context that nobody reads.
Handle(v) ==
  /\ decoder[v] = "starts" /\ decoder' = [decoder EXCEPT ![v] = "decodes"]
  /\ UNCHANGED <<handler, over, parent, answer>>

\* cmd.Cancel: SIGTERM ends the parent, and its death is a SIGTERM for the decoder.
Terminate(v) ==
  /\ over[v] /\ parent[v] = "runs"
  /\ parent' = [parent EXCEPT ![v] = "gone"]
  /\ decoder' = [decoder EXCEPT ![v] = IF @ = "starts" THEN "gone" ELSE @]
  /\ UNCHANGED <<handler, over, answer>>

\* The image is decoded and written, or it cannot be.
Decode(v) ==
  /\ decoder[v] = "decodes"
  /\ \E d \in {"wrote", "gone"} : decoder' = [decoder EXCEPT ![v] = d]
  /\ UNCHANGED <<handler, over, parent, answer>>

\* The parent ends after its child.
Follow(v) ==
  /\ parent[v] = "runs" /\ decoder[v] \in {"wrote", "gone"}
  /\ parent' = [parent EXCEPT ![v] = "gone"]
  /\ UNCHANGED <<handler, over, decoder, answer>>

\* Mutant: the handler does not wait for the pipe once the request is over.
ReadUntilOver(v) == over[v] \/ (parent[v] = "gone" /\ decoder[v] \in {"none", "gone"})
EndOfFile(v) == parent[v] = "gone" /\ decoder[v] \in {"none", "gone"}

\* The first line comes with the whole image behind it, or the pipe ends without one.
ReadLine(v) ==
  /\ handler[v] = "reading"
  /\ \/ decoder[v] = "wrote" /\ Become(v, "streaming") /\ UNCHANGED answer
     \/ EndOfFile(v) /\ Reply(v, "forbidden")
  /\ UNCHANGED <<over, parent, decoder>>

\* Stream: the last chunk goes out after the process has ended well.
Stream(v) ==
  /\ handler[v] = "streaming" /\ parent[v] = "gone"
  /\ \/ ~over[v] /\ Reply(v, "image")
     \/ Reply(v, "broken")
  /\ UNCHANGED <<over, parent, decoder>>

Serving(v) == Start(v) \/ ReadLine(v) \/ Stream(v) \/ Fork(v) \/ Handle(v) \/ Decode(v) \/ Follow(v) \/ Terminate(v)

ThumbNext == \E v \in Viewer : View(v) \/ Expires(v) \/ Acquire(v) \/ Unavailable(v) \/ Serving(v)

\* Timers expire, and a waiting handler wakes up; a decoder may take for ever.
ThumbFairness == \A v \in Viewer : WF_thumbVars(Expires(v)) /\ WF_thumbVars(Unavailable(v))

ThumbSpec == ThumbInit /\ [][ThumbNext]_thumbVars /\ ThumbFairness

-----------------------------------------------------------------------------

\* There are never more decoders than slots, also of requests that are over: what a
\* cut request leaves running still counts.
ThumbnailCap == Cardinality({v \in Viewer : decoder[v] \in {"starts", "decodes"}}) <= Slots

\* Who waits for a slot gets it or an answer, even if the decoders never end.
WaitersAnswered == \A v \in Viewer : handler[v] = "waiting" ~> handler[v] # "waiting"
=============================================================================
