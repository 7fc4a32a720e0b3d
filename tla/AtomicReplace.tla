---------------------------- MODULE AtomicReplace ----------------------------
(***************************************************************************)
(* What publishing promises: each name is a register, a request names the  *)
(* file it expects there (or none), and in one atomic step it either puts  *)
(* its own file in place of exactly that file, or fails and changes        *)
(* nothing.  file.delete empties a register.                               *)
(***************************************************************************)
CONSTANTS Name, Worker, Original, NoFile

VARIABLES
  current,  \* the file at each name
  asked,    \* asked[w]: what w was asked to do, NotAsked before that
  verdict   \* verdict[w]: "open", then "won" or "lost"

avars == <<current, asked, verdict>>

File  == Original \cup Worker
Entry == File \cup {NoFile}
NotAsked == [name |-> NoFile, expects |-> NoFile]

Init ==
  /\ current \in [Name -> Original \cup {NoFile}]
  /\ asked = [w \in Worker |-> NotAsked]
  /\ verdict = [w \in Worker |-> "open"]

Ask(w) ==
  /\ asked[w] = NotAsked
  /\ \E n \in Name, f \in Entry :
       asked' = [asked EXCEPT ![w] = [name |-> n, expects |-> f]]
  /\ UNCHANGED <<current, verdict>>

Win(w) ==
  /\ asked[w] # NotAsked /\ verdict[w] = "open"
  /\ current[asked[w].name] = asked[w].expects
  /\ current' = [current EXCEPT ![asked[w].name] = w]
  /\ verdict' = [verdict EXCEPT ![w] = "won"]
  /\ UNCHANGED asked

Lose(w) ==
  /\ asked[w] # NotAsked /\ verdict[w] = "open"
  /\ verdict' = [verdict EXCEPT ![w] = "lost"]
  /\ UNCHANGED <<current, asked>>

Delete(n) ==
  /\ current' = [current EXCEPT ![n] = NoFile]
  /\ UNCHANGED <<asked, verdict>>

Next ==
  \/ \E w \in Worker : Ask(w) \/ Win(w) \/ Lose(w)
  \/ \E n \in Name : Delete(n)

Spec == Init /\ [][Next]_avars
=============================================================================
