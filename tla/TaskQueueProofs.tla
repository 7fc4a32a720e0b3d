---------------------------- MODULE TaskQueueProofs ---------------------------
(***************************************************************************)
(* Safety of the queue for any batches of items, any folder and any amount *)
(* of trouble.                                                             *)
(***************************************************************************)
EXTENDS TaskQueue, SequenceTheorems, TLAPS

Tally == [processed : Nat, completed : Nat, skipped : Nat, errors : Nat]
Place == {"next", "listing", "deciding", "uploading", "relisting", "planning", "starting", "polling"}
Known == File \cup {NoFile}

QTypeOK ==
  /\ kind \in [Task -> {"upload", "copy", "delete"}]
  /\ status \in [Task -> {"new", "queued", "running", "waiting"} \cup Ended]
  /\ cancelled \in [Task -> BOOLEAN]
  /\ preference \in [Task -> Mode \cup {"none"}]
  /\ tally \in [Task -> Tally]
  /\ queue \in Seq(Task)
  /\ pc \in Place /\ item \in Nat \ {0}
  /\ dest \in [Name -> Known]
  /\ work \in [Work -> {"none"} \cup Pending \cup Over]

\* The tasks are the indices of Items, and each has a list of names.
LEMMA Lists == Items \in Seq(Seq(Name)) /\ Task = 1..Len(Items) /\ \A t \in Task : Items[t] \in Seq(Name) /\ Len(Items[t]) \in Nat
  BY QueueAssumption DEF Task

\* What the end of an item adds to the counts of its task, and to no other.
LEMMA Counts ==
  ASSUME QTypeOK, NEW t \in Task, NEW F, EndItem(t, F)
  PROVE  /\ tally' \in [Task -> Tally]
         /\ \A s \in Task : s # t => tally'[s] = tally[s]
         /\ tally'[t].processed = tally[t].processed + 1
         /\ tally'[t].completed = tally[t].completed + IF "completed" \in F THEN 1 ELSE 0
         /\ tally'[t].skipped = tally[t].skipped + IF "skipped" \in F THEN 1 ELSE 0
         /\ tally'[t].errors = tally[t].errors + IF "errors" \in F THEN 1 ELSE 0
  <1> DEFINE r == tally[t]
             more(f) == IF f \in F \cup {"processed"} THEN r[f] + 1 ELSE r[f]
             n == [processed |-> more("processed"), completed |-> more("completed"),
                   skipped |-> more("skipped"), errors |-> more("errors")]
  <1>1. r \in Tally
    BY DEF QTypeOK
  <1>2. DOMAIN r = {"processed", "completed", "skipped", "errors"}
    BY <1>1 DEF Tally
  <1>3. [f \in DOMAIN r |-> more(f)] = n
    BY <1>2
  <1>4. tally' = [tally EXCEPT ![t] = n]
    BY <1>3 DEF EndItem
  <1>5. n \in Tally
    BY <1>1 DEF Tally
  <1> QED
    BY <1>1, <1>4, <1>5 DEF QTypeOK, Tally

-----------------------------------------------------------------------------
(* Types. *)

\* An empty browser has the types.
LEMMA TypeInit == Init => QTypeOK
  <1> SUFFICES ASSUME Init PROVE QTypeOK
    OBVIOUS
  <1>1. dest \in [Name -> Known]
    BY QueueAssumption DEF Init, Known, File
  <1>2. tally \in [Task -> Tally]
    BY DEF Init, Tally
  <1> QED
    BY <1>1, <1>2 DEF Init, QTypeOK, Place

\* A step whose item ends, or goes on.
LEMMA EndTypes ==
  ASSUME QTypeOK, NEW t \in Task, NEW F, EndItem(t, F)
  PROVE  tally' \in [Task -> Tally] /\ pc' \in Place /\ item' \in Nat \ {0}
  <1>1. tally' \in [Task -> Tally]
    BY Counts
  <1> QED
    BY <1>1 DEF QTypeOK, EndItem, Place

\* An item that is given up keeps the types.
LEMMA AbandonTypes ==
  ASSUME QTypeOK, NEW w, Abandon(w) \/ Taken(w)
  PROVE  work' \in [Work -> {"none"} \cup Pending \cup Over]
  BY DEF QTypeOK, Abandon, Taken, Forget

\* Every step of the queue, the server and the user keeps the types.
LEMMA TypeStep == QTypeOK /\ [Next]_vars => QTypeOK'
  <1> SUFFICES ASSUME QTypeOK, [Next]_vars PROVE QTypeOK'
    OBVIOUS
  <1> USE DEF QTypeOK
  <1>1. ASSUME NEW t \in Task, Enqueue(t) PROVE QTypeOK'
    BY <1>1 DEF Enqueue, runVars, Mode
  <1>2. ASSUME NEW t \in Task, NextItem(t) PROVE QTypeOK'
    <2>1. queue \in Seq(Task) /\ queue # <<>>
      BY <1>2 DEF NextItem, At, Runs
    <2>2. queue' \in Seq(Task)
      <3>1. Tail(queue) \in Seq(Task)
        BY <2>1, HeadTailProperties
      <3>2. queue' = Tail(queue) \/ queue' = queue
        BY <1>2 DEF NextItem
      <3> QED
        BY <2>1, <3>1, <3>2
    <2>3. pc' \in Place /\ item' \in Nat \ {0}
      BY <1>2 DEF NextItem, Place
    <2>4. status' \in [Task -> {"new", "queued", "running", "waiting"} \cup Ended]
      BY <1>2 DEF NextItem, Ended
    <2> QED
      BY <1>2, <2>2, <2>3, <2>4 DEF NextItem
  <1>3. ASSUME NEW t \in Task, Proceed(t, dest[name]) \/ Proceed(t, NoFile) \/ Proceed(t, shown)
        PROVE  /\ tally' = tally /\ item' = item /\ pc' \in Place
               /\ work' \in [Work -> {"none"} \cup Pending \cup Over]
    BY <1>3 DEF Proceed, Place, Pending
  <1>4. ASSUME NEW t \in Task, NEW n \in Name, TryName(n)
        PROVE  tally' = tally /\ item' = item /\ pc' \in Place
    BY <1>4 DEF TryName, Place
  <1>5. ASSUME NEW t \in Task, Fail(t) \/ Skip(t)
        PROVE  tally' \in [Task -> Tally] /\ pc' \in Place /\ item' \in Nat \ {0}
    BY <1>5, EndTypes DEF Fail, Skip
  <1>6. ASSUME NEW t \in Task, List(t) PROVE QTypeOK'
    <2>1. status' \in [Task -> {"new", "queued", "running", "waiting"} \cup Ended]
      BY <1>6 DEF List
    <2>2. tally' \in [Task -> Tally] /\ pc' \in Place /\ item' \in Nat \ {0}
          /\ work' \in [Work -> {"none"} \cup Pending \cup Over]
      BY <1>3, <1>4, <1>5, <1>6 DEF List, Place
    <2> QED
      BY <1>6, <2>1, <2>2 DEF List
  <1>7. ASSUME NEW t \in Task, Answer(t) PROVE QTypeOK'
    <2>1. status' \in [Task -> {"new", "queued", "running", "waiting"} \cup Ended]
          /\ preference' \in [Task -> Mode \cup {"none"}]
      BY <1>7 DEF Answer, Remember
    <2>2. tally' \in [Task -> Tally] /\ pc' \in Place /\ item' \in Nat \ {0}
          /\ work' \in [Work -> {"none"} \cup Pending \cup Over]
      BY <1>3, <1>4, <1>5, <1>7, EndTypes DEF Answer
    <2> QED
      BY <1>7, <2>1, <2>2 DEF Answer
  <1>8. ASSUME NEW t \in Task, UploadAnswer(t) PROVE QTypeOK'
    <2>1. work' \in [Work -> {"none"} \cup Pending \cup Over]
      BY <1>8, AbandonTypes DEF UploadAnswer
    <2>2. tally' \in [Task -> Tally] /\ pc' \in Place /\ item' \in Nat \ {0}
      BY <1>5, <1>8, EndTypes DEF UploadAnswer, Place
    <2> QED
      BY <1>8, <2>1, <2>2 DEF UploadAnswer
  <1>9. ASSUME NEW t \in Task, Relist(t) PROVE QTypeOK'
    <2>1. tally' \in [Task -> Tally] /\ pc' \in Place /\ item' \in Nat \ {0}
      BY <1>5, <1>9 DEF Relist, Place
    <2> QED
      BY <1>9, <2>1 DEF Relist
  <1>10. ASSUME NEW t \in Task, Plan(t) PROVE QTypeOK'
    <2>1. tally' \in [Task -> Tally] /\ pc' \in Place /\ item' \in Nat \ {0}
      BY <1>5, <1>10 DEF Plan, Place
    <2>2. work' \in [Work -> {"none"} \cup Pending \cup Over]
      BY <1>10 DEF Plan, Pending
    <2> QED
      BY <1>10, <2>1, <2>2 DEF Plan
  <1>11. ASSUME NEW t \in Task, Started(t) PROVE QTypeOK'
    <2>1. work' \in [Work -> {"none"} \cup Pending \cup Over]
      BY <1>11, AbandonTypes DEF Started
    <2>2. tally' \in [Task -> Tally] /\ pc' \in Place /\ item' \in Nat \ {0}
      BY <1>5, <1>11 DEF Started, Place
    <2> QED
      BY <1>11, <2>1, <2>2 DEF Started
  <1>12. ASSUME NEW t \in Task, Poll(t) PROVE QTypeOK'
    <2>1. work' \in [Work -> {"none"} \cup Pending \cup Over]
      BY <1>12, AbandonTypes DEF Poll, Pending
    <2>2. tally' \in [Task -> Tally] /\ pc' \in Place /\ item' \in Nat \ {0}
      BY <1>5, <1>12, EndTypes DEF Poll
    <2> QED
      BY <1>12, <2>1, <2>2 DEF Poll
  <1>13. ASSUME NEW S \in SUBSET Task, Stop(S) PROVE QTypeOK'
    <2>1. status' \in [Task -> {"new", "queued", "running", "waiting"} \cup Ended]
          /\ cancelled' \in [Task -> BOOLEAN]
      BY <1>13 DEF Stop, Ended
    <2>2. queue # <<>> => Head(queue) \in Task
      OBVIOUS
    <2>3. CASE \E t \in S : At(t, "uploading")
      BY <1>13, <2>1, <2>2, <2>3, EndTypes, AbandonTypes DEF Stop, At, Runs
    <2>4. CASE ~ \E t \in S : At(t, "uploading")
      <3>1. tally' \in [Task -> Tally] /\ pc' \in Place /\ item' \in Nat \ {0}
        BY <1>13, <2>2, <2>4, EndTypes DEF Stop, Release, runVars
      <3> QED
        BY <1>13, <2>1, <2>4, <3>1 DEF Stop
    <2> QED
      BY <2>3, <2>4
  <1>14. ASSUME NEW t \in Task, Cancel(t) PROVE QTypeOK'
    BY <1>13, <1>14 DEF Cancel
  <1>15. CASE EndSession
    BY <1>13, <1>15 DEF EndSession, Active
  <1>16. CASE Serve
    <2>1. PICK w \in Work : ServeUpload(w) \/ StartJob(w) \/ ServeJob(w)
      BY <1>16 DEF Serve
    <2>2. \A r \in Over : Finish(w, r) => work' \in [Work -> {"none"} \cup Pending \cup Over]
      BY DEF Finish
    <2>3. work' \in [Work -> {"none"} \cup Pending \cup Over]
      BY <2>1, <2>2 DEF ServeUpload, StartJob, ServeJob, Published, Over, Pending
    <2>4. \A n : [dest EXCEPT ![n] = w] \in [Name -> Known]
      BY DEF Known, File
    <2>5. dest' \in [Name -> Known]
      BY <2>1, <2>4 DEF ServeUpload, StartJob, ServeJob, Published, Put
    <2> QED
      BY <1>16, <2>3, <2>5 DEF Serve, taskVars, runVars
  <1>17. CASE Outside
    BY <1>17 DEF Outside, taskVars, runVars, Known, File
  <1>18. CASE UNCHANGED vars
    BY <1>18 DEF vars, taskVars, runVars
  <1> QED
    BY <1>1, <1>2, <1>6, <1>7, <1>8, <1>9, <1>10, <1>11, <1>12, <1>14, <1>15, <1>16, <1>17, <1>18
    DEF Next, Step

\* The types hold in every reachable state, for any number of tasks and items.
THEOREM Typing == FairSpec => []QTypeOK
  BY TypeInit, TypeStep, PTL DEF FairSpec

-----------------------------------------------------------------------------
(* Every item is accounted once. *)

\* The counts of a task, whatever has become of it.
Sums == \A t \in Task : ~cancelled[t] =>
          tally[t].completed + tally[t].skipped + tally[t].errors = tally[t].processed
Ends == \A t \in Task : ~cancelled[t] /\ status[t] \in Ended =>
          /\ tally[t].processed = Len(Items[t])
          /\ status[t] = "succeeded" => tally[t].errors = 0

\* A task is in the queue once, before it ends, and only the first one has begun.
Queued ==
  /\ \A i, j \in DOMAIN queue : queue[i] = queue[j] => i = j
  /\ \A i \in DOMAIN queue : status[queue[i]] # "new" /\ (status[queue[i]] \in Ended => cancelled[queue[i]])
  /\ \A i \in DOMAIN queue : i # 1 => tally[queue[i]].processed = 0
  /\ \A t \in Task : status[t] = "new" => tally[t].processed = 0

\* The loop is at the item after those that are processed.
Loop ==
  /\ queue # <<>> => /\ tally[queue[1]].processed = item - 1
                     /\ item <= Len(Items[queue[1]]) + 1
                     /\ pc # "next" => item <= Len(Items[queue[1]])
  /\ queue = <<>> => pc = "next" /\ item = 1

Books == Sums /\ Ends /\ Queued /\ Loop

\* The head of the queue is the task that runs; the rest stand behind it.
LEMMA First == ASSUME QTypeOK, queue # <<>>
               PROVE  1 \in DOMAIN queue /\ Head(queue) = queue[1] /\ queue[1] \in Task
                      /\ DOMAIN queue = 1..Len(queue) /\ Len(queue) \in Nat
  BY DEF QTypeOK

\* A step that ends no task: who is not cancelled by then is no further than before.
Mild ==
  \A s \in Task :
    /\ cancelled[s] => cancelled'[s]
    /\ status'[s] = "new" => status[s] = "new"
    /\ status'[s] \in Ended /\ ~cancelled'[s] => status'[s] = status[s]

\* A step within an item keeps the books.
LEMMA QuietBooks ==
  ASSUME QTypeOK, Books, Mild, queue' = queue, tally' = tally, item' = item,
         pc' # "next" => queue # <<>> /\ item <= Len(Items[queue[1]])
  PROVE  Books'
  <1>1. Sums' /\ Ends'
    BY DEF Books, Sums, Ends, Mild
  <1>2. \A i \in DOMAIN queue : queue[i] \in Task
    BY DEF QTypeOK
  <1>3. Queued'
    BY <1>2 DEF Books, Queued, Mild
  <1>4. Loop'
    BY DEF Books, Loop
  <1> QED
    BY <1>1, <1>3, <1>4 DEF Books

\* A step that ends an item keeps the books, if it counts as one thing.
LEMMA EndBooks ==
  ASSUME QTypeOK, Books, Mild, queue' = queue,
         NEW t \in Task, Runs(t), pc # "next", NEW F, EndItem(t, F),
         ~cancelled'[t] => F \in {{"completed"}, {"skipped"}, {"errors"}}
  PROVE  Books'
  <1>1. t = queue[1] /\ queue # <<>> /\ 1 \in DOMAIN queue
    BY First DEF Runs
  <1> DEFINE c == IF "completed" \in F THEN 1 ELSE 0
             s == IF "skipped" \in F THEN 1 ELSE 0
             e == IF "errors" \in F THEN 1 ELSE 0
  <1>2. /\ \A u \in Task : u # t => tally'[u] = tally[u]
        /\ tally'[t].processed = tally[t].processed + 1
        /\ tally'[t].completed = tally[t].completed + c
        /\ tally'[t].skipped = tally[t].skipped + s
        /\ tally'[t].errors = tally[t].errors + e
    BY Counts
  <1>3. /\ tally[t].processed \in Nat /\ tally[t].completed \in Nat
        /\ tally[t].skipped \in Nat /\ tally[t].errors \in Nat
    BY DEF QTypeOK, Tally
  <1>4. ~cancelled'[t] => c + s + e = 1
    OBVIOUS
  <1> HIDE DEF c, s, e
  <1>5. c \in {0, 1} /\ s \in {0, 1} /\ e \in {0, 1}
    BY DEF c, s, e
  <1>6. Sums'
    <2>1. ~cancelled'[t] => tally'[t].completed + tally'[t].skipped + tally'[t].errors = tally'[t].processed
      BY <1>2, <1>3, <1>4, <1>5 DEF Books, Sums, Mild
    <2> QED
      BY <1>2, <2>1 DEF Books, Sums, Mild
  <1>7. status[t] \in Ended => cancelled[t]
    BY <1>1 DEF Books, Queued
  <1>8. Ends'
    BY <1>2, <1>7 DEF Books, Ends, Mild
  <1>9. \A i \in DOMAIN queue : queue[i] \in Task /\ (i # 1 => queue[i] # t)
    BY <1>1 DEF QTypeOK, Books, Queued
  <1>10. status[t] # "new"
    BY <1>1 DEF Books, Queued
  <1>11. Queued'
    <2>1. \A u \in Task : status'[u] = "new" => tally'[u].processed = 0
      BY <1>2, <1>10 DEF Books, Queued, Mild
    <2>2. \A i \in DOMAIN queue : i # 1 => tally'[queue[i]].processed = 0
      BY <1>2, <1>9 DEF Books, Queued
    <2>3. \A i \in DOMAIN queue : status'[queue[i]] # "new" /\ (status'[queue[i]] \in Ended => cancelled'[queue[i]])
      BY <1>9 DEF Books, Queued, Mild
    <2> QED
      BY <2>1, <2>2, <2>3 DEF Books, Queued
  <1>12. Loop'
    <2>1. pc' = "next" /\ item' = item + 1
      BY DEF EndItem
    <2>2. item \in Nat /\ item <= Len(Items[t]) /\ tally[t].processed = item - 1 /\ Len(Items[t]) \in Nat
      BY <1>1, Lists DEF Books, Loop, QTypeOK
    <2> QED
      BY <1>1, <1>2, <1>3, <2>1, <2>2 DEF Loop
  <1> QED
    BY <1>6, <1>8, <1>11, <1>12 DEF Books

\* Nothing is enqueued and nothing is counted at first.
LEMMA BooksInit == Init => Books
  <1> SUFFICES ASSUME Init PROVE Books
    OBVIOUS
  <1>1. Sums /\ Ends
    BY DEF Init, Sums, Ends, Ended
  <1>2. Queued /\ Loop
    BY DEF Init, Queued, Loop
  <1> QED
    BY <1>1, <1>2 DEF Books

\* A task that is enqueued goes behind the others.
LEMMA EnqueueBooks ==
  ASSUME QTypeOK, Books, NEW t \in Task, Enqueue(t)
  PROVE  Books'
  <1>1. /\ status[t] = "new" /\ status' = [status EXCEPT ![t] = "queued"]
        /\ queue' = Append(queue, t)
        /\ cancelled' = cancelled /\ tally' = tally /\ pc' = pc /\ item' = item
    BY DEF Enqueue, runVars
  <1>2. /\ queue \in Seq(Task) /\ Len(queue) \in Nat /\ DOMAIN queue = 1..Len(queue)
        /\ \A i \in DOMAIN queue : queue[i] \in Task
    BY DEF QTypeOK
  <1>3. /\ Len(queue') = Len(queue) + 1 /\ DOMAIN queue' = 1..(Len(queue) + 1)
        /\ \A i \in DOMAIN queue : queue'[i] = queue[i]
        /\ queue'[Len(queue) + 1] = t
    BY <1>1, <1>2
  <1>4. \A i \in DOMAIN queue : queue[i] # t
    BY <1>1 DEF Books, Queued
  <1>5. Sums' /\ Ends'
    BY <1>1 DEF QTypeOK, Books, Sums, Ends, Ended
  <1>6. tally[t].processed = 0
    BY <1>1 DEF Books, Queued
  <1>7. Queued'
    <2>1. \A i, j \in DOMAIN queue' : queue'[i] = queue'[j] => i = j
      BY <1>2, <1>3, <1>4 DEF Books, Queued
    <2>2. \A i \in DOMAIN queue' : status'[queue'[i]] # "new" /\ (status'[queue'[i]] \in Ended => cancelled'[queue'[i]])
      BY <1>1, <1>2, <1>3, <1>4 DEF QTypeOK, Books, Queued, Ended
    <2>3. \A i \in DOMAIN queue' : i # 1 => tally'[queue'[i]].processed = 0
      BY <1>1, <1>2, <1>3, <1>6 DEF Books, Queued
    <2>4. \A u \in Task : status'[u] = "new" => tally'[u].processed = 0
      BY <1>1 DEF QTypeOK, Books, Queued
    <2> QED
      BY <2>1, <2>2, <2>3, <2>4 DEF Queued
  <1>8. Loop'
    <2>1. CASE queue = <<>>
      <3>1. Len(queue) = 0 /\ Len(Items[t]) \in Nat
        BY <2>1, Lists
      <3>2. queue' # <<>> /\ queue'[1] = t
        BY <1>3, <3>1
      <3>3. pc = "next" /\ item = 1
        BY <2>1 DEF Books, Loop
      <3> QED
        BY <1>1, <1>6, <3>1, <3>2, <3>3 DEF Loop
    <2>2. CASE queue # <<>>
      <3>1. queue'[1] = queue[1] /\ queue' # <<>>
        BY <1>2, <1>3, <2>2
      <3> QED
        BY <1>1, <2>2, <3>1 DEF Books, Loop
    <2> QED
      BY <2>1, <2>2
  <1> QED
    BY <1>5, <1>7, <1>8 DEF Books

\* A task that leaves the queue has dealt with all of its items, or is cancelled.
LEMMA NextItemBooks ==
  ASSUME QTypeOK, Books, NEW t \in Task, NextItem(t)
  PROVE  Books'
  <1>1. t = queue[1] /\ queue # <<>> /\ pc = "next" /\ 1 \in DOMAIN queue
        /\ cancelled' = cancelled /\ tally' = tally
    BY First DEF NextItem, At, Runs
  <1>2. /\ queue \in Seq(Task) /\ Len(queue) \in Nat /\ DOMAIN queue = 1..Len(queue)
        /\ \A i \in DOMAIN queue : queue[i] \in Task
        /\ Len(Items[t]) \in Nat /\ item \in Nat \ {0}
    BY Lists DEF QTypeOK
  <1>3. item <= Len(Items[t]) + 1 /\ tally[t].processed = item - 1
    BY <1>1 DEF Books, Loop
  <1>4. CASE ~(cancelled[t] \/ item > Len(Items[t]))
    <2>1. /\ queue' = queue /\ item' = item /\ status' = [status EXCEPT ![t] = "running"]
      BY <1>4 DEF NextItem
    <2>2. Mild
      BY <1>1, <2>1 DEF QTypeOK, Mild, Ended
    <2> QED
      BY <1>1, <1>2, <1>4, <2>1, <2>2, QuietBooks
  <1>5. CASE cancelled[t] \/ item > Len(Items[t])
    <2> DEFINE end == IF cancelled[t] THEN "cancelled" ELSE IF tally[t].errors > 0 THEN "failed" ELSE "succeeded"
    <2>1. queue' = Tail(queue) /\ item' = 1 /\ pc' = "next" /\ status' = [status EXCEPT ![t] = end]
      BY <1>1, <1>5 DEF NextItem
    <2>2. /\ Len(queue') = Len(queue) - 1 /\ DOMAIN queue' = 1..(Len(queue) - 1)
          /\ \A i \in DOMAIN queue' : queue'[i] = queue[i + 1] /\ i + 1 \in DOMAIN queue
      <3>1. queue' \in Seq(Task) /\ Len(queue') = Len(queue) - 1
            /\ \A i \in 1..Len(queue') : queue'[i] = queue[i + 1]
        BY <1>1, <1>2, <2>1, HeadTailProperties
      <3> QED
        BY <1>2, <3>1
    <2>3. \A i \in DOMAIN queue' : queue'[i] # t /\ tally[queue'[i]].processed = 0
      BY <1>1, <1>2, <2>2 DEF Books, Queued
    <2>4. Sums'
      BY <1>1 DEF Books, Sums
    <2>5. ~cancelled[t] => tally[t].processed = Len(Items[t])
      BY <1>2, <1>3, <1>5
    <2>6. end = "succeeded" => tally[t].errors = 0
      BY DEF QTypeOK, Tally
    <2>7. Ends'
      BY <1>1, <2>1, <2>5, <2>6 DEF QTypeOK, Books, Ends
    <2>8. Queued'
      <3>1. \A i, j \in DOMAIN queue' : queue'[i] = queue'[j] => i = j
        BY <1>2, <2>2 DEF Books, Queued
      <3>2. \A i \in DOMAIN queue' :
              status'[queue'[i]] # "new" /\ (status'[queue'[i]] \in Ended => cancelled'[queue'[i]])
        BY <1>1, <1>2, <2>1, <2>2, <2>3 DEF QTypeOK, Books, Queued
      <3>3. \A u \in Task : status'[u] = "new" => tally'[u].processed = 0
        BY <1>1, <2>1 DEF QTypeOK, Books, Queued
      <3> QED
        BY <1>1, <2>3, <3>1, <3>2, <3>3 DEF Queued
    <2>9. Loop'
      <3>1. queue' # <<>> => 1 \in DOMAIN queue' /\ queue'[1] \in Task
        BY <1>2, <2>2
      <3>2. \A u \in Task : Len(Items[u]) \in Nat
        BY Lists
      <3>3. queue' # <<>> => tally'[queue'[1]].processed = item' - 1
        <4>1. queue' # <<>> => tally[queue'[1]].processed = 0
          BY <2>3, <3>1
        <4> QED
          BY <1>1, <2>1, <4>1
      <3>4. queue' # <<>> => item' <= Len(Items[queue'[1]]) + 1
        BY <2>1, <3>1, <3>2
      <3> QED
        BY <2>1, <3>3, <3>4 DEF Loop
    <2> QED
      BY <2>4, <2>7, <2>8, <2>9 DEF Books
  <1> QED
    BY <1>4, <1>5

\* What a step of the running task may do, for the books.
LEMMA ItemBooks ==
  ASSUME QTypeOK, Books, Mild, cancelled' = cancelled, queue' = queue,
         NEW t \in Task, Runs(t), pc # "next",
         \/ UNCHANGED <<tally, item>>
         \/ Fail(t) \/ Skip(t) \/ EndItem(t, {"completed"})
         \/ cancelled[t] /\ EndItem(t, {})
  PROVE  Books'
  <1>1. queue # <<>> /\ item <= Len(Items[queue[1]])
    BY DEF Runs, Books, Loop
  <1>2. CASE UNCHANGED <<tally, item>>
    BY <1>1, <1>2, QuietBooks
  <1>3. CASE Fail(t)
    <2> DEFINE F == IF cancelled[t] THEN {} ELSE {"errors"}
    <2>1. EndItem(t, F) /\ (~cancelled'[t] => F = {"errors"})
      BY <1>3 DEF Fail
    <2> QED
      BY <2>1, EndBooks
  <1>4. CASE Skip(t)
    BY <1>4, EndBooks DEF Skip
  <1>5. CASE EndItem(t, {"completed"})
    BY <1>5, EndBooks
  <1>6. CASE cancelled[t] /\ EndItem(t, {})
    BY <1>6, EndBooks
  <1> QED
    BY <1>2, <1>3, <1>4, <1>5, <1>6

\* A cancellation ends at most the item that runs, of a task that is cancelled by then.
LEMMA StopBooks ==
  ASSUME QTypeOK, Books, NEW S \in SUBSET Task, Stop(S)
  PROVE  Books'
  <1>1. /\ queue' = queue
        /\ cancelled' = [t \in Task |-> cancelled[t] \/ t \in S]
        /\ status' = [t \in Task |-> IF t \in S /\ status[t] \in {"queued", "waiting"} THEN "cancelled" ELSE status[t]]
    BY DEF Stop
  <1>2. Mild
    BY <1>1 DEF Mild, QTypeOK
  <1>3. ASSUME NEW t \in S, Runs(t), pc # "next", EndItem(t, {}) PROVE Books'
    <2>1. cancelled'[t]
      BY <1>1, <1>3
    <2> QED
      BY <1>1, <1>2, <1>3, <2>1, EndBooks
  <1>4. ASSUME tally' = tally, item' = item, pc' = pc PROVE Books'
    <2>1. pc' # "next" => queue # <<>> /\ item <= Len(Items[queue[1]])
      BY <1>4 DEF Books, Loop
    <2> QED
      BY <1>1, <1>2, <1>4, <2>1, QuietBooks
  <1>5. CASE \E t \in S : At(t, "uploading")
    <2>1. PICK t \in S : At(t, "uploading")
      BY <1>5
    <2>2. Head(queue) = t /\ Runs(t) /\ pc # "next"
      BY <2>1 DEF At, Runs
    <2> QED
      BY <1>3, <1>5, <2>2 DEF Stop
  <1>6. CASE ~ \E t \in S : At(t, "uploading")
    <2>1. CASE queue # <<>> /\ Head(queue) \in S /\ At(Head(queue), "deciding")
      BY <1>3, <1>6, <2>1 DEF Stop, Release, At
    <2>2. CASE ~(queue # <<>> /\ Head(queue) \in S /\ At(Head(queue), "deciding"))
      <3>1. UNCHANGED <<runVars, tally>>
        BY <1>6, <2>2 DEF Stop, Release
      <3> QED
        BY <1>4, <3>1 DEF runVars
    <2> QED
      BY <2>1, <2>2
  <1> QED
    BY <1>5, <1>6

\* The books balance after every step.
LEMMA BooksStep == QTypeOK /\ Books /\ [Next]_vars => Books'
  <1> SUFFICES ASSUME QTypeOK, Books, [Next]_vars PROVE Books'
    OBVIOUS
  <1>1. ASSUME NEW t \in Task, List(t) PROVE Books'
    <2>1. Mild
      BY <1>1 DEF List, Mild, QTypeOK, Ended
    <2>2. \/ UNCHANGED <<tally, item>>
          \/ Fail(t) \/ Skip(t)
      BY <1>1 DEF List, Proceed, TryName
    <2> QED
      BY <1>1, <2>1, <2>2, ItemBooks DEF List, At
  <1>2. ASSUME NEW t \in Task, Answer(t) PROVE Books'
    <2>1. Mild
      BY <1>2 DEF Answer, Mild, QTypeOK, Ended
    <2>2. \/ UNCHANGED <<tally, item>>
          \/ Fail(t) \/ Skip(t)
          \/ cancelled[t] /\ EndItem(t, {})
      BY <1>2 DEF Answer, Proceed, TryName
    <2> QED
      BY <1>2, <2>1, <2>2, ItemBooks DEF Answer, At
  <1>3. ASSUME NEW t \in Task, UploadAnswer(t) \/ Relist(t) \/ Plan(t) \/ Started(t) \/ Poll(t) PROVE Books'
    <2>1. status' = status /\ cancelled' = cancelled /\ queue' = queue /\ Runs(t) /\ pc # "next"
      BY <1>3 DEF UploadAnswer, Relist, Plan, Started, Poll, At
    <2>2. Mild
      BY <2>1 DEF Mild
    <2>3. \/ UNCHANGED <<tally, item>>
          \/ Fail(t) \/ EndItem(t, {"completed"})
      BY <1>3 DEF UploadAnswer, Relist, Plan, Started, Poll
    <2> QED
      BY <2>1, <2>2, <2>3, ItemBooks
  <1>4. ASSUME NEW t \in Task, Cancel(t) PROVE Books'
    BY <1>4, StopBooks DEF Cancel
  <1>5. CASE EndSession
    BY <1>5, StopBooks DEF EndSession, Active
  <1>6. CASE Serve \/ Outside \/ UNCHANGED vars
    <2>1. UNCHANGED <<taskVars, runVars>>
      BY <1>6 DEF Serve, Outside, vars
    <2> QED
      BY <2>1 DEF taskVars, runVars, Books, Sums, Ends, Queued, Loop
  <1> QED
    BY <1>1, <1>2, <1>3, <1>4, <1>5, <1>6, EnqueueBooks, NextItemBooks DEF Next, Step

\* While a task is not cancelled its items are accounted once each, whatever the server
\* and the user answer, for batches of any size.
THEOREM ItemsAreAccounted == FairSpec => []EveryItemAccounted
  <1>1. Books => EveryItemAccounted
    <2> SUFFICES ASSUME Books, NEW t \in Task, ~cancelled[t]
                 PROVE  /\ tally[t].completed + tally[t].skipped + tally[t].errors = tally[t].processed
                        /\ status[t] \in Ended => tally[t].processed = Len(Items[t])
                        /\ status[t] = "succeeded" => tally[t].errors = 0
      BY DEF EveryItemAccounted
    <2>1. tally[t].completed + tally[t].skipped + tally[t].errors = tally[t].processed
      BY DEF Books, Sums
    <2>2. status[t] \in Ended =>
            /\ tally[t].processed = Len(Items[t])
            /\ status[t] = "succeeded" => tally[t].errors = 0
      BY DEF Books, Ends
    <2>3. status[t] = "succeeded" => tally[t].errors = 0
      BY <2>2 DEF Ended
    <2> QED
      BY <2>1, <2>2, <2>3
  <1> QED
    BY <1>1, TypeInit, TypeStep, BooksInit, BooksStep, PTL DEF FairSpec

-----------------------------------------------------------------------------
(* Work is serial, and none starts after a cancellation. *)

Awaiting == {"uploading", "starting", "polling"}

\* While work is serial, only the first task can have work that counts, and only in a wait.
LEMMA OnlyMine ==
  ASSUME WorkIsSerial, NEW t \in Task, Runs(t), NEW w \in Work \ loose, work[w] \in Pending
  PROVE  w = Me(t) /\ pc \in Awaiting
  <1>1. w = <<w[1], w[2]>>
    BY DEF Work
  <1>2. w[1] = t /\ w[2] = item /\ pc \in Awaiting
    BY DEF WorkIsSerial, Runs, Awaiting
  <1> QED
    BY <1>1, <1>2 DEF Me

\* Once the answer is taken or given up, the task has no work that counts.
LEMMA Released ==
  ASSUME QTypeOK, WorkIsSerial, NEW t \in Task, Runs(t),
         (Taken(Me(t)) /\ work[Me(t)] \in Over) \/ Abandon(Me(t))
  PROVE  WorkIsSerial'
  <1> SUFFICES ASSUME NEW w \in Work \ loose', work'[w] \in Pending PROVE FALSE
    BY DEF WorkIsSerial
  <1>1. loose \subseteq loose' /\ work' = [work EXCEPT ![Me(t)] = IF work[Me(t)] \in Over THEN "none" ELSE @]
    BY DEF Taken, Abandon, Forget
  <1>2. work[w] \in Pending
    BY <1>1 DEF QTypeOK, Pending
  <1>3. w = Me(t)
    BY <1>1, <1>2, OnlyMine
  <1>4. work[Me(t)] \notin Over
    BY <1>2, <1>3 DEF Over, Pending
  <1>5. Me(t) \in loose'
    BY <1>4 DEF Abandon
  <1> QED
    BY <1>3, <1>5

\* A step outside of the three waits, which starts no work, leaves none.
LEMMA IdleSerial ==
  ASSUME WorkIsSerial, pc \notin Awaiting, work' = work, loose' = loose
  PROVE  WorkIsSerial'
  BY DEF WorkIsSerial, Awaiting

\* The request for an item starts one upload or job, where none was under way.
LEMMA ProceedSerial ==
  ASSUME QTypeOK, WorkIsSerial, pc \notin Awaiting, loose' = loose, queue' = queue,
         NEW t \in Task, Runs(t), NEW r, Proceed(t, r)
  PROVE  WorkIsSerial'
  <1>1. CASE work' = work
    BY <1>1, IdleSerial
  <1>2. CASE pc' = "uploading" /\ work' = [work EXCEPT ![Me(t)] = "busy"]
    <2> SUFFICES ASSUME NEW w \in Work \ loose', work'[w] \in Pending
                 PROVE  Runs(w[1])' /\ item' = w[2] /\ pc' \in {"uploading", "starting", "polling"}
      BY DEF WorkIsSerial
    <2>1. item' = item
      BY DEF Proceed
    <2>2. w = Me(t)
      BY <1>2 DEF WorkIsSerial, Awaiting, QTypeOK
    <2> QED
      BY <1>2, <2>1, <2>2 DEF Me, Runs
  <1> QED
    BY <1>1, <1>2 DEF Proceed

\* Every step keeps work serial.
LEMMA SerialStep == QTypeOK /\ WorkIsSerial /\ [Next]_vars => WorkIsSerial'
  <1> SUFFICES ASSUME QTypeOK, WorkIsSerial, [Next]_vars PROVE WorkIsSerial'
    OBVIOUS
  <1>1. ASSUME NEW t \in Task, Enqueue(t) PROVE WorkIsSerial'
    <2>1. queue' = Append(queue, t) /\ work' = work /\ loose' = loose /\ pc' = pc /\ item' = item
      BY <1>1 DEF Enqueue, runVars
    <2>2. queue # <<>> => queue' # <<>> /\ Head(queue') = Head(queue)
      BY <2>1 DEF QTypeOK
    <2> QED
      BY <2>1, <2>2 DEF WorkIsSerial, Runs
  <1>2. ASSUME NEW t \in Task, NextItem(t) \/ Relist(t) PROVE WorkIsSerial'
    BY <1>2, IdleSerial DEF NextItem, Relist, At, Awaiting
  <1>3. ASSUME NEW t \in Task, List(t) PROVE WorkIsSerial'
    <2>1. work' = work \/ Proceed(t, NoFile) \/ Proceed(t, dest[name])
      BY <1>3 DEF List
    <2>2. pc \notin Awaiting /\ loose' = loose /\ queue' = queue /\ Runs(t)
      BY <1>3 DEF List, At, Awaiting
    <2> QED
      BY <2>1, <2>2, IdleSerial, ProceedSerial
  <1>4. ASSUME NEW t \in Task, Answer(t) PROVE WorkIsSerial'
    <2>1. work' = work \/ Proceed(t, shown)
      BY <1>4 DEF Answer
    <2>2. pc \notin Awaiting /\ loose' = loose /\ queue' = queue /\ Runs(t)
      BY <1>4 DEF Answer, At, Awaiting
    <2> QED
      BY <2>1, <2>2, IdleSerial, ProceedSerial
  <1>5. ASSUME NEW t \in Task, UploadAnswer(t) PROVE WorkIsSerial'
    BY <1>5, Released DEF UploadAnswer, At, Over
  <1>6. ASSUME NEW t \in Task, Plan(t) PROVE WorkIsSerial'
    <2>1. CASE work' = work
      BY <1>6, <2>1, IdleSerial DEF Plan, At, Awaiting
    <2>2. CASE pc' = "starting" /\ work' = [work EXCEPT ![Me(t)] = "sent"] /\ item' = item
      <3> SUFFICES ASSUME NEW w \in Work \ loose', work'[w] \in Pending
                   PROVE  Runs(w[1])' /\ item' = w[2] /\ pc' \in {"uploading", "starting", "polling"}
        BY DEF WorkIsSerial
      <3>1. pc = "planning" /\ loose' = loose /\ queue' = queue /\ Runs(t)
        BY <1>6 DEF Plan, At
      <3>2. w = Me(t)
        BY <2>2, <3>1 DEF WorkIsSerial, QTypeOK
      <3> QED
        BY <2>2, <3>1, <3>2 DEF Me, Runs
    <2> QED
      BY <1>6, <2>1, <2>2 DEF Plan
  <1>7. ASSUME NEW t \in Task, Started(t) PROVE WorkIsSerial'
    <2>1. CASE pc' = "polling" /\ UNCHANGED <<item, work, loose>>
      BY <1>7, <2>1 DEF Started, WorkIsSerial, Runs
    <2>2. CASE (Taken(Me(t)) /\ work[Me(t)] \in Over) \/ Abandon(Me(t))
      BY <1>7, <2>2, Released DEF Started, At
    <2> QED
      BY <1>7, <2>1, <2>2 DEF Started, Over
  <1>8. ASSUME NEW t \in Task, Poll(t) PROVE WorkIsSerial'
    <2>1. CASE work[Me(t)] = "busy" /\ work' = [work EXCEPT ![Me(t)] = "stopping"] /\ UNCHANGED <<pc, item, loose>>
      BY <1>8, <2>1 DEF Poll, WorkIsSerial, Runs, QTypeOK, Pending
    <2>2. CASE (Taken(Me(t)) /\ work[Me(t)] \in Over) \/ Abandon(Me(t))
      BY <1>8, <2>2, Released DEF Poll, At
    <2> QED
      BY <1>8, <2>1, <2>2 DEF Poll, JobOver, Over
  <1>9. ASSUME NEW S \in SUBSET Task, Stop(S) PROVE WorkIsSerial'
    <2>1. CASE \E t \in S : At(t, "uploading")
      <3>1. PICK t \in S : At(t, "uploading")
        BY <2>1
      <3>2. t = Head(queue) /\ Abandon(Me(t)) /\ Runs(t)
        BY <1>9, <2>1, <3>1 DEF Stop, At, Runs
      <3> QED
        BY <3>1, <3>2, Released
    <2>2. CASE ~ \E t \in S : At(t, "uploading")
      <3>1. work' = work /\ loose' = loose /\ queue' = queue
        BY <1>9, <2>2 DEF Stop
      <3>2. pc = "deciding" \/ (pc' = pc /\ item' = item)
        BY <1>9, <2>2 DEF Stop, Release, At, runVars
      <3>3. CASE pc = "deciding"
        BY <3>1, <3>3, IdleSerial DEF Awaiting
      <3>4. CASE pc' = pc /\ item' = item
        BY <3>1, <3>4 DEF WorkIsSerial, Runs
      <3> QED
        BY <3>2, <3>3, <3>4
    <2> QED
      BY <2>1, <2>2
  <1>10. ASSUME NEW t \in Task, Cancel(t) PROVE WorkIsSerial'
    BY <1>9, <1>10 DEF Cancel
  <1>11. CASE EndSession
    BY <1>9, <1>11 DEF EndSession, Active
  <1>12. CASE Serve
    <2>1. PICK v \in Work : ServeUpload(v) \/ StartJob(v) \/ ServeJob(v)
      BY <1>12 DEF Serve
    <2>2. UNCHANGED <<queue, pc, item>>
      BY <1>12 DEF Serve, taskVars, runVars
    <2>3. \A r \in Over : Finish(v, r) =>
            work'[v] \notin Pending /\ loose \subseteq loose' \cup {v} /\ \A u \in Work : u # v => work'[u] = work[u]
      BY DEF Finish, QTypeOK, Over, Pending
    <2>4. \/ work'[v] \notin Pending /\ loose \subseteq loose' \cup {v} /\ \A u \in Work : u # v => work'[u] = work[u]
          \/ work[v] \in Pending /\ loose' = loose /\ \A u \in Work : u # v => work'[u] = work[u]
      BY <2>1, <2>3 DEF ServeUpload, StartJob, ServeJob, Published, Over, Pending, QTypeOK
    <2> QED
      BY <2>2, <2>4 DEF WorkIsSerial, Runs
  <1>13. CASE Outside \/ UNCHANGED vars
    BY <1>13 DEF Outside, vars, taskVars, runVars, WorkIsSerial, Runs
  <1> QED
    BY <1>1, <1>2, <1>3, <1>4, <1>5, <1>6, <1>7, <1>8, <1>10, <1>11, <1>12, <1>13 DEF Next, Step

\* Of any number of items and tasks, at most one has an upload or a job under way, but
\* for those whose answer was lost or that were aborted.
THEOREM SerialEver == FairSpec => []WorkIsSerial
  <1>1. Init => WorkIsSerial
    BY DEF Init, WorkIsSerial, Pending
  <1> QED
    BY <1>1, TypeInit, TypeStep, SerialStep, PTL DEF FairSpec

\* What starts work is the task that runs, and it has not been cancelled.
LEMMA NewWork ==
  ASSUME QTypeOK, [Next]_vars, NEW w \in Work, work[w] \notin Pending, work'[w] \in Pending
  PROVE  \E t \in Task : w = Me(t) /\ ~cancelled[t]
  <1>1. ASSUME NEW t \in Task, NEW r, Proceed(t, r), ~cancelled[t] PROVE w = Me(t)
    BY <1>1 DEF Proceed, QTypeOK
  <1>2. ASSUME NEW t \in Task, List(t) \/ Answer(t) PROVE w = Me(t) /\ ~cancelled[t]
    BY <1>1, <1>2 DEF List, Answer
  <1>3. ASSUME NEW t \in Task, Plan(t) PROVE w = Me(t) /\ ~cancelled[t]
    BY <1>3 DEF Plan, MayRun, QTypeOK
  <1>4. ASSUME NEW v, Taken(v) \/ Abandon(v) PROVE FALSE
    BY <1>4 DEF Taken, Abandon, Forget, QTypeOK, Pending
  <1>5. ASSUME NEW t \in Task, UploadAnswer(t) \/ Started(t) PROVE FALSE
    BY <1>4, <1>5 DEF UploadAnswer, Started
  <1>6. ASSUME NEW t \in Task, Poll(t) PROVE FALSE
    BY <1>4, <1>6 DEF Poll, Pending, QTypeOK
  <1>7. ASSUME NEW S, Stop(S) PROVE FALSE
    BY <1>4, <1>7 DEF Stop
  <1>8. ASSUME NEW t \in Task, Enqueue(t) \/ NextItem(t) \/ Relist(t) \/ Cancel(t) PROVE FALSE
    BY <1>7, <1>8 DEF Enqueue, NextItem, Relist, Cancel
  <1>9. CASE EndSession \/ Outside \/ UNCHANGED vars
    BY <1>7, <1>9 DEF EndSession, Outside, vars
  <1>10. CASE Serve
    <2>1. PICK v \in Work : ServeUpload(v) \/ StartJob(v) \/ ServeJob(v)
      BY <1>10 DEF Serve
    <2>2. \A r \in Over : ~Finish(v, r)
      BY DEF Finish, QTypeOK, Over, Pending
    <2> QED
      BY <2>1, <2>2 DEF ServeUpload, StartJob, ServeJob, Published, Over, Pending, QTypeOK
  <1> QED
    BY <1>2, <1>3, <1>5, <1>6, <1>8, <1>9, <1>10 DEF Next, Step

\* A cancelled task sends no upload and starts no job ("Cancelling stops uploads and
\* skips remaining entries", README.md), wherever the cancellation comes.
THEOREM CancelledIsIdle == FairSpec => NoWorkAfterCancel
  <1>1. QTypeOK /\ [Next]_vars =>
          [\A w \in Work : work[w] \notin Pending /\ work'[w] \in Pending => ~cancelled[w[1]]]_vars
    BY NewWork DEF Me
  <1> QED
    BY <1>1, TypeInit, TypeStep, PTL DEF FairSpec, NoWorkAfterCancel

-----------------------------------------------------------------------------
(* Nothing is replaced without consent. *)

\* A request that is under way, or was given up, carries what the user agreed to.
Meant ==
  /\ DOMAIN order = Work /\ DOMAIN consent = Work
  /\ \A w \in Work : order[w].revision # NoFile => order[w].revision \in consent[w] \/ w[1] \in blanket
  /\ \A w \in Work : order[w].mode = "replace" => w[1] \in blanket
  /\ \A t \in Task : preference[t] = "replace" => t \in blanket

\* A new request keeps it, if what it may replace was agreed to.
LEMMA ProceedMeant ==
  ASSUME Meant, NEW t \in Task, NEW r, Proceed(t, r),
         DOMAIN consent' = Work, blanket \subseteq blanket',
         \A w \in Work : consent[w] \subseteq consent'[w],
         r # NoFile => t \in blanket' \/ (Me(t) \in Work => r \in consent'[Me(t)]),
         \A u \in Task : preference'[u] = "replace" => u \in blanket'
  PROVE  Meant'
  <1> DEFINE o == [name |-> name, revision |-> r, mode |-> preference'[t]]
  <1>1. order' = [order EXCEPT ![Me(t)] = o]
    BY DEF Proceed
  <1>2. o.revision = r /\ o.mode = preference'[t]
    OBVIOUS
  <1> HIDE DEF o
  <1>3. DOMAIN order' = Work /\ \A w \in Work : order'[w] = IF w = Me(t) THEN o ELSE order[w]
    BY <1>1 DEF Meant
  <1>4. Me(t)[1] = t
    BY DEF Me
  <1>5. ASSUME NEW w \in Work, order'[w].revision # NoFile
        PROVE  order'[w].revision \in consent'[w] \/ w[1] \in blanket'
    BY <1>2, <1>3, <1>4, <1>5 DEF Meant
  <1>6. ASSUME NEW w \in Work, order'[w].mode = "replace" PROVE w[1] \in blanket'
    BY <1>2, <1>3, <1>4, <1>6 DEF Meant
  <1> QED
    BY <1>3, <1>5, <1>6 DEF Meant

\* What was meant is used up at the end of the request.
LEMMA FinishMeant ==
  ASSUME Meant, NEW w \in Work, NEW r, Finish(w, r), blanket' = blanket, preference' = preference
  PROVE  Meant'
  <1>1. NoOrder.revision = NoFile /\ NoOrder.mode = "none"
    BY DEF NoOrder
  <1>2. /\ DOMAIN order' = Work /\ DOMAIN consent' = Work
        /\ \A v \in Work : order'[v] = IF v = w THEN NoOrder ELSE order[v]
        /\ \A v \in Work : v # w => consent'[v] = consent[v]
    BY DEF Meant, Finish
  <1> QED
    BY <1>1, <1>2 DEF Meant

\* After every step, an order still carries only what the user agreed to.
LEMMA MeantStep == QTypeOK /\ Meant /\ [Next]_vars => Meant'
  <1> SUFFICES ASSUME QTypeOK, Meant, [Next]_vars PROVE Meant'
    OBVIOUS
  <1>1. ASSUME NEW t \in Task, Enqueue(t) PROVE Meant'
    <2>1. /\ UNCHANGED <<order, consent>> /\ blanket \subseteq blanket'
          /\ \A u \in Task : u # t => preference'[u] = preference[u]
          /\ preference'[t] = "replace" => t \in blanket'
      BY <1>1 DEF Enqueue, QTypeOK
    <2> QED
      BY <2>1 DEF Meant
  <1>2. ASSUME NEW t \in Task, List(t) PROVE Meant'
    <2>1. UNCHANGED <<consent, blanket, preference>>
      BY <1>2 DEF List, userVars
    <2>2. \/ UNCHANGED order
          \/ Proceed(t, NoFile)
          \/ preference[t] = "replace" /\ Proceed(t, dest[name])
      BY <1>2 DEF List
    <2>3. DOMAIN consent' = Work /\ blanket \subseteq blanket'
          /\ \A u \in Task : preference'[u] = "replace" => u \in blanket'
      BY <2>1 DEF Meant
    <2> QED
      BY <2>1, <2>2, <2>3, ProceedMeant DEF Meant
  <1>3. ASSUME NEW t \in Task, Answer(t) PROVE Meant'
    <2>1. PICK m \in Mode, all \in BOOLEAN :
            /\ preference' = [preference EXCEPT ![t] = IF all THEN m ELSE @]
            /\ consent' = [consent EXCEPT ![Me(t)] = IF m = "replace" THEN @ \cup {shown} ELSE @]
            /\ blanket' = IF m = "replace" /\ all THEN blanket \cup {t} ELSE blanket
            /\ \/ UNCHANGED order
               \/ m = "replace" /\ Proceed(t, shown)
      BY <1>3 DEF Answer, Remember
    <2>2. /\ DOMAIN consent' = Work /\ blanket \subseteq blanket'
          /\ \A w \in Work : consent[w] \subseteq consent'[w]
          /\ m = "replace" /\ Me(t) \in Work => shown \in consent'[Me(t)]
      BY <2>1 DEF Meant
    <2>3. \A u \in Task : preference'[u] = "replace" => u \in blanket'
      BY <2>1 DEF Meant, QTypeOK
    <2>4. CASE UNCHANGED order
      BY <2>2, <2>3, <2>4 DEF Meant
    <2>5. CASE m = "replace" /\ Proceed(t, shown)
      BY <2>2, <2>3, <2>5, ProceedMeant
    <2> QED
      BY <2>1, <2>4, <2>5
  <1>4. ASSUME NEW t \in Task,
               NextItem(t) \/ UploadAnswer(t) \/ Relist(t) \/ Plan(t) \/ Started(t) \/ Poll(t)
        PROVE  Meant'
    <2>1. UNCHANGED <<order, consent, blanket, preference>>
      BY <1>4 DEF NextItem, UploadAnswer, Relist, Plan, Started, Poll, userVars
    <2> QED
      BY <2>1 DEF Meant
  <1>5. ASSUME NEW t \in Task, Cancel(t) PROVE Meant'
    BY <1>5 DEF Cancel, Stop, userVars, Meant
  <1>6. CASE EndSession \/ Outside \/ UNCHANGED vars
    BY <1>6 DEF EndSession, Stop, Outside, vars, taskVars, userVars, Meant
  <1>7. CASE Serve
    <2>1. PICK w \in Work : ServeUpload(w) \/ StartJob(w) \/ ServeJob(w)
      BY <1>7 DEF Serve
    <2>2. blanket' = blanket /\ preference' = preference
      BY <1>7 DEF Serve, taskVars
    <2>3. UNCHANGED <<order, consent>> \/ \E r \in Over : Finish(w, r)
      BY <2>1 DEF ServeUpload, StartJob, ServeJob, Published, Over
    <2> QED
      BY <2>2, <2>3, FinishMeant DEF Meant
  <1> QED
    BY <1>1, <1>2, <1>3, <1>4, <1>5, <1>6, <1>7 DEF Next, Step

\* The server replaces only what a request carries.
LEMMA PutMeant ==
  ASSUME QTypeOK, Meant, Serve, NEW w \in Work, NEW n \in Name, dest'[n] = w, dest[n] \notin {w, NoFile}
  PROVE  dest[n] \in consent[w] \/ w[1] \in blanket
  <1>1. PICK v \in Work : ServeUpload(v) \/ StartJob(v) \/ ServeJob(v)
    BY DEF Serve
  <1>2. dest' # dest
    OBVIOUS
  <1>3. ASSUME Put(v) PROVE v = w /\ order[w].name = n
    BY <1>3 DEF Put, QTypeOK
  <1>4. CASE ServeUpload(v)
    <2>1. dest[order[v].name] = order[v].revision /\ Put(v)
      BY <1>2, <1>4 DEF ServeUpload, Published
    <2> QED
      BY <1>3, <2>1 DEF Meant
  <1>5. CASE StartJob(v)
    BY <1>2, <1>5 DEF StartJob
  <1>6. CASE ServeJob(v)
    <2>1. CASE \E k \in Name : dest[k] = NoFile /\ dest' = [dest EXCEPT ![k] = v]
      BY <2>1 DEF QTypeOK
    <2>2. CASE Put(v) /\ dest[order[v].name] = NoFile
      BY <1>3, <2>2
    <2>3. CASE /\ Put(v)
               /\ IF order[v].revision = NoFile THEN order[v].mode = "replace"
                  ELSE order[v].revision = dest[order[v].name]
      BY <1>3, <2>3 DEF Meant
    <2> QED
      BY <1>2, <1>6, <2>1, <2>2, <2>3 DEF ServeJob, Published
  <1> QED
    BY <1>1, <1>4, <1>5, <1>6

\* Whatever the order of listings, answers, retries and changes by others: a file of
\* somebody else is replaced only by the choice of the user.
THEOREM ConsentIsKept == FairSpec => ConsentToReplace
  <1>1. Init => Meant
    BY DEF Init, Meant, NoOrder
  <1>2. QTypeOK /\ Meant /\ [Next]_vars =>
          [\A w \in Work, n \in Name :
             dest'[n] = w /\ dest[n] \notin {w, NoFile} => dest[n] \in consent[w] \/ w[1] \in blanket]_vars
    <2> SUFFICES ASSUME QTypeOK, Meant, Next, NEW w \in Work, NEW n \in Name,
                        dest'[n] = w, dest[n] \notin {w, NoFile}
                 PROVE  dest[n] \in consent[w] \/ w[1] \in blanket
      OBVIOUS
    <2>1. dest' # dest
      OBVIOUS
    <2>2. ~Outside
      BY QueueAssumption DEF Outside, QTypeOK, File
    <2>3. \A t \in Task : ~(Enqueue(t) \/ Step(t) \/ Answer(t) \/ Cancel(t))
      BY <2>1 DEF Enqueue, Step, NextItem, List, UploadAnswer, Relist, Plan, Started, Poll, Answer, Cancel, Stop
    <2>4. ~EndSession
      BY <2>1 DEF EndSession, Stop
    <2> QED
      BY <2>2, <2>3, <2>4, PutMeant DEF Next
  <1> QED
    BY <1>1, <1>2, TypeInit, TypeStep, MeantStep, PTL DEF FairSpec, ConsentToReplace
=============================================================================
