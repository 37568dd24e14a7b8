--------------------------- MODULE WalStoreProofs ---------------------------
(***************************************************************************)
(* The write-ahead log, for any number of events and crashes: the order of *)
(* its history, and what becomes of the events it has acknowledged.        *)
(***************************************************************************)
EXTENDS WalStore, SequenceTheorems, TLAPS

\* Taking a job takes the head of the queue.
LEMMA TakeHead ==
    ASSUME queue \in Seq(Events), TakeJob
    PROVE  /\ Len(queue) > 0
           /\ queue' \in Seq(Events)
           /\ Len(queue') = Len(queue) - 1
           /\ \A j \in 1..Len(queue') : queue'[j] = queue[j + 1]
           /\ \/ job' = queue[1] /\ stage' = "opened"
              \/ UNCHANGED <<job, stage>>
<1>1. Len(queue) > 0 /\ 1 \in DOMAIN queue /\ Takes = {1}
  BY DEF TakeJob, Takes
<1>2. queue' = SubSeq(queue, 1, 0) \o SubSeq(queue, 2, Len(queue))
  BY <1>1 DEF TakeJob
<1>3. queue # <<>>
  BY <1>1
<1>4. /\ queue' \in Seq(Events) /\ Len(queue') = Len(queue) - 1
      /\ \A j \in 1..Len(queue') : queue'[j] = queue[j + 1]
  <2>1. SubSeq(queue, 2, Len(queue)) = Tail(queue) /\ Tail(queue) \in Seq(Events)
    BY <1>3, TailIsSubSeq, HeadTailProperties
  <2>2. SubSeq(queue, 1, 0) = <<>>
    BY SubSeqEmpty
  <2>3. queue' = Tail(queue)
    BY <1>2, <2>1, <2>2, ConcatEmptySeq
  <2> QED BY <1>3, <2>3, HeadTailProperties
<1>5. \/ job' = queue[1] /\ stage' = "opened"
      \/ UNCHANGED <<job, stage>>
  BY <1>1 DEF TakeJob
<1> QED BY <1>1, <1>4, <1>5

\* Finishing a job leaves well-formed outcomes, and acknowledges at most that job.
LEMMA FinishedTyped ==
    ASSUME outcome \in [Events -> Outcomes], job \in Events,
           NEW o \in Outcomes, Finished(o)
    PROVE  /\ outcome' \in [Events -> Outcomes]
           /\ job' = NoJob /\ stage' = "idle"
           /\ \A e \in Events : outcome'[e] = outcome[e] \/ (e = job /\ outcome'[e] = o)
BY DEF Finished

\* What a power failure leaves: pieces that were there, all of them confirmed now,
\* the confirmed ones untouched.
LEMMA WhatSurvives ==
    ASSUME TypeOK, PowerFails
    PROVE  /\ file' \in Seq(Pieces)
           /\ Len(file') \in synced..Len(file)
           /\ synced' = Len(file')
           /\ \A i \in 1..Len(file') : file'[i].event = file[i].event
           /\ \A i \in 1..synced : file'[i] = file[i]
<1> PICK n \in Survives :
        /\ synced' = n
        /\ IF n <= synced
           THEN file' = SubSeq(file, 1, n)
           ELSE \E end \in CutShort(file[n].end) :
                    file' = [SubSeq(file, 1, n) EXCEPT ![n].end = end]
  BY DEF PowerFails
<1>1. /\ n \in synced..Len(file) /\ n \in Nat /\ file \in Seq(Pieces)
      /\ synced \in Nat
  BY DEF Survives, TypeOK
<1> DEFINE kept == SubSeq(file, 1, n)
<1>2. kept \in Seq(Pieces) /\ Len(kept) = n /\ \A i \in 1..n : kept[i] = file[i]
  BY <1>1
<1>3. CASE n <= synced
  BY <1>1, <1>2, <1>3
<1>4. CASE n > synced
  <2>1. n \in 1..n /\ kept[n] \in Pieces
    BY <1>1, <1>2, <1>4
  <2>2. PICK end \in Ends : file' = [kept EXCEPT ![n].end = end]
    BY <1>1, <1>4 DEF CutShort, Ends
  <2>3. [kept[n] EXCEPT !.end = end] \in Pieces
    BY <2>1 DEF Pieces
  <2>4. /\ file' \in Seq(Pieces) /\ Len(file') = n
        /\ \A i \in 1..n : i # n => file'[i] = kept[i]
        /\ file'[n].event = kept[n].event
    <3>1. file' = [kept EXCEPT ![n] = [kept[n] EXCEPT !.end = end]]
      BY <2>2
    <3>2. [kept[n] EXCEPT !.end = end].event = kept[n].event
      BY <2>1 DEF Pieces
    <3> DEFINE piece == [kept[n] EXCEPT !.end = end]
    <3>3. n \in 1..Len(kept)
      BY <1>2, <2>1
    <3> HIDE DEF kept, piece
    <3>4. /\ [kept EXCEPT ![n] = piece] \in Seq(Pieces)
          /\ Len([kept EXCEPT ![n] = piece]) = Len(kept)
          /\ \A j \in 1..Len(kept) :
                 [kept EXCEPT ![n] = piece][j] = IF j = n THEN piece ELSE kept[j]
      BY <1>2, <2>3, <3>3, ExceptSeq DEF piece
    <3> QED BY <1>2, <3>1, <3>2, <3>3, <3>4 DEF piece
  <2> QED BY <1>1, <1>2, <1>4, <2>4
<1> QED BY <1>1, <1>3, <1>4

\* Completing the last piece of the file keeps the others and every event.
LEMMA LastPiece ==
    ASSUME file \in Seq(Pieces), Len(file) > 0, NEW end \in Ends,
           file' = [file EXCEPT ![Len(file)].end = end]
    PROVE  /\ file' \in Seq(Pieces) /\ Len(file') = Len(file)
           /\ \A i \in 1..Len(file) : file'[i].event = file[i].event
           /\ \A i \in 1..Len(file) : i # Len(file) => file'[i] = file[i]
           /\ file'[Len(file)].end = end
<1>1. Len(file) \in 1..Len(file) /\ file[Len(file)] \in Pieces
  OBVIOUS
<1>2. [file[Len(file)] EXCEPT !.end = end] \in Pieces
  BY <1>1 DEF Pieces
<1> QED BY <1>1, <1>2 DEF Pieces

(***************************************************************************)
(* The type is inductive only together with the fact that the line being   *)
(* written is the last piece of the file and not yet confirmed: without it *)
(* the end of a write might touch a confirmed piece, or none at all.       *)
(***************************************************************************)
Writing == stage \in {"partial", "written"} => Len(file) > synced

\* The type and what it leans on.
LEMMA WellFormed == Spec => [](TypeOK /\ Writing)
<1> DEFINE Inv == TypeOK /\ Writing
<1> USE WalAssumption DEF NoJob, Events
<1>1. Init => Inv
  BY DEF Init, TypeOK, Writing, Outcomes
<1>2. Inv /\ [Next]_vars => Inv'
  <2> SUFFICES ASSUME TypeOK, Writing, [Next]_vars PROVE TypeOK' /\ Writing'
    OBVIOUS
  <2>1. CASE SaveEvent
    <3>1. submitted + 1 \in Events
      BY <2>1 DEF SaveEvent, TypeOK, Writing
    <3>2. queue' \in Seq(Events)
      BY <2>1, <3>1 DEF SaveEvent, TypeOK, Writing
    <3> QED BY <2>1, <3>1, <3>2 DEF SaveEvent, TypeOK, Writing, Outcomes
  <2>2. ASSUME NEW e \in Events, CancelCaller(e) PROVE TypeOK' /\ Writing'
    BY <2>2 DEF CancelCaller, TypeOK, Writing, Outcomes
  <2>3. CASE TakeJob
    <3>1. queue \in Seq(Events)
      BY DEF TypeOK, Writing
    <3>2. Len(queue) > 0 => queue[1] \in Events
      BY <3>1, ElementOfSeq
    <3>3. queue' \in Seq(Events)
      BY <2>3, <3>1, TakeHead
    <3>4. \/ job' \in Events /\ stage' = "opened"
          \/ UNCHANGED <<job, stage>>
      BY <2>3, <3>1, <3>2, TakeHead
    <3>5. UNCHANGED <<submitted, file, synced, outcome, crashes>>
      BY <2>3 DEF TakeJob
    <3> QED BY <3>3, <3>4, <3>5 DEF TypeOK, Writing
  <2>4. CASE WriteBegins
    <3>1. [event |-> job, end |-> "half"] \in Pieces
      BY <2>4 DEF WriteBegins, TypeOK, Pieces, Ends
    <3>2. file' \in Seq(Pieces) /\ Len(file') = Len(file) + 1
      BY <2>4, <3>1 DEF WriteBegins, TypeOK, Writing
    <3> QED BY <2>4, <3>2 DEF WriteBegins, TypeOK, Writing
  <2>5. CASE stage = "partial" /\ (WriteEnds \/ WriteFails)
    <3>1. file' \in Seq(Pieces) /\ Len(file') = Len(file)
      <4>1. \E end \in Ends : file' = [file EXCEPT ![Len(file)].end = end]
        BY <2>5 DEF WriteEnds, WriteFails, LineEnd, Ends
      <4>2. file \in Seq(Pieces) /\ Len(file) > 0
        BY <2>5 DEF Writing, TypeOK
      <4> QED BY <4>1, <4>2, LastPiece
    <3>2. CASE WriteEnds
      BY <2>5, <3>1, <3>2 DEF WriteEnds, TypeOK, Writing
    <3>3. CASE WriteFails
      <4>1. job \in Events /\ Finished("raised")
        BY <2>5, <3>3 DEF WriteFails, TypeOK, Writing
      <4> QED BY <3>1, <3>3, <4>1, FinishedTyped DEF WriteFails, TypeOK, Writing, Outcomes
    <3> QED BY <2>5, <3>2, <3>3
  <2>6. ASSUME NEW o \in Outcomes, Finished(o), stage # "idle",
               synced' \in 0..Len(file), UNCHANGED <<submitted, queue, file, crashes>>
        PROVE  TypeOK' /\ Writing'
    BY <2>6, FinishedTyped DEF TypeOK, Writing
  <2>7. CASE OpenFails \/ SyncEnds \/ SyncFails
    BY <2>6, <2>7 DEF OpenFails, SyncEnds, SyncFails, Synced, Outcomes, TypeOK, Writing
  <2>8. CASE Kill
    BY <2>8 DEF Kill, ProcessDies, TypeOK, Writing, Outcomes
  <2>9. CASE PowerFails
    <3>1. /\ file' \in Seq(Pieces)
          /\ synced' \in 0..Len(file')
      BY <2>9, WhatSurvives DEF TypeOK, Writing
    <3> QED BY <2>9, <3>1 DEF PowerFails, ProcessDies, TypeOK, Writing, Outcomes
  <2>10. CASE UNCHANGED vars
    BY <2>10 DEF vars, TypeOK, Writing
  <2> QED
    <3>1. CASE WorkerStep
      BY <2>3, <2>4, <2>5, <2>7, <3>1 DEF WorkerStep, WriteEnds, WriteFails
    <3> QED BY <2>1, <2>2, <2>8, <2>9, <2>10, <3>1 DEF Next
<1> QED BY <1>1, <1>2, PTL DEF Spec

\* The log keeps its type; in particular fsync confirms only what is in the file.
THEOREM TypeCorrect == Spec => []TypeOK
BY WellFormed, PTL

(***************************************************************************)
(* Events enter the file in the order they were submitted: the file, the   *)
(* job under way and the queue are one increasing line.                    *)
(***************************************************************************)
FileOrdered ==
    \A i, j \in 1..Len(file) : i < j => file[i].event < file[j].event

QueueOrdered ==
    \A i, j \in 1..Len(queue) : i < j => queue[i] < queue[j]

FileBeforeQueue ==
    \A i \in 1..Len(file), j \in 1..Len(queue) : file[i].event < queue[j]

NoneAhead ==
    /\ \A i \in 1..Len(file) : file[i].event <= submitted
    /\ \A j \in 1..Len(queue) : queue[j] <= submitted

JobBetween ==
    stage # "idle" =>
        /\ job <= submitted
        /\ \A j \in 1..Len(queue) : job < queue[j]
        /\ IF stage = "opened"
           THEN \A i \in 1..Len(file) : file[i].event < job
           ELSE file[Len(file)].event = job

Order == FileOrdered /\ QueueOrdered /\ FileBeforeQueue /\ NoneAhead /\ JobBetween

\* A file that only loses pieces at its end, or has them completed, stays in order
\* when the worker is idle.
LEMMA OrderKept ==
    ASSUME Order, TypeOK, file' \in Seq(Pieces), Len(file') <= Len(file),
           \A i \in 1..Len(file') : file'[i].event = file[i].event,
           queue' = queue \/ queue' = <<>>, submitted' = submitted,
           stage' = "idle"
    PROVE  Order'
<1>1. Len(file') \in Nat /\ Len(file) \in Nat
  BY DEF TypeOK
<1>2. FileOrdered' /\ (\A i \in 1..Len(file') : file'[i].event <= submitted)
  BY <1>1 DEF Order, FileOrdered, NoneAhead
<1>3. CASE queue' = queue
  BY <1>1, <1>2, <1>3 DEF Order, QueueOrdered, FileBeforeQueue, NoneAhead, JobBetween
<1>4. CASE queue' = <<>>
  BY <1>1, <1>2, <1>4 DEF Order, QueueOrdered, FileBeforeQueue, NoneAhead, JobBetween
<1> QED BY <1>3, <1>4

\* Every step keeps the line increasing.
LEMMA OrderStep ==
    ASSUME TypeOK, Writing, Order, [Next]_vars
    PROVE  Order'
<1>0. /\ submitted \in Nat /\ job \in Int
      /\ Len(file) \in Nat /\ Len(queue) \in Nat
      /\ \A i \in 1..Len(file) : file[i].event \in Int
      /\ \A j \in 1..Len(queue) : queue[j] \in Int
  <2>1. \A i \in 1..Len(file) : file[i] \in Pieces
    BY ElementOfSeq DEF TypeOK
  <2>2. \A j \in 1..Len(queue) : queue[j] \in Events
    BY ElementOfSeq DEF TypeOK
  <2> QED BY <2>1, <2>2, WalAssumption DEF TypeOK, Pieces, Events, NoJob
<1>1. CASE SaveEvent
  <2>1. /\ Len(queue') = Len(queue) + 1
        /\ \A j \in 1..Len(queue) : queue'[j] = queue[j]
        /\ queue'[Len(queue) + 1] = submitted + 1
    BY <1>1 DEF SaveEvent, TypeOK
  <2>2. \A j \in 1..Len(queue') :
            \/ j \in 1..Len(queue) /\ queue'[j] = queue[j]
            \/ j = Len(queue) + 1 /\ queue'[j] = submitted + 1
    BY <1>0, <2>1
  <2> QED BY <1>0, <1>1, <2>1, <2>2
          DEF SaveEvent, Order, FileOrdered, QueueOrdered, FileBeforeQueue, NoneAhead,
              JobBetween
<1>2. ASSUME NEW e \in Events, CancelCaller(e) PROVE Order'
  BY <1>2 DEF CancelCaller, Order, FileOrdered, QueueOrdered, FileBeforeQueue,
              NoneAhead, JobBetween
<1>3. CASE TakeJob
  <2>1. UNCHANGED <<submitted, file>> /\ stage = "idle"
    BY <1>3 DEF TakeJob
  <2>2. /\ Len(queue) > 0 /\ 1 \in 1..Len(queue)
        /\ \A j \in 1..Len(queue') : j + 1 \in 1..Len(queue) /\ queue'[j] = queue[j + 1]
        /\ \/ job' = queue[1] /\ stage' = "opened"
           \/ UNCHANGED <<job, stage>>
    BY <1>3, TakeHead DEF TypeOK
  <2>3. FileOrdered' /\ FileBeforeQueue' /\ NoneAhead'
    BY <2>1, <2>2 DEF Order, FileOrdered, FileBeforeQueue, NoneAhead
  <2>4. QueueOrdered'
    <3>1. ASSUME NEW i \in 1..Len(queue'), NEW j \in 1..Len(queue'), i < j
          PROVE  queue'[i] < queue'[j]
      <4>1. i + 1 < j + 1
        BY <3>1
      <4> QED BY <2>2, <4>1 DEF Order, QueueOrdered
    <3> QED BY <3>1 DEF QueueOrdered
  <2>5. JobBetween'
    <3>1. CASE job' = queue[1] /\ stage' = "opened"
      <4>1. \A j \in 1..Len(queue') : queue[1] < queue'[j]
        BY <2>2 DEF Order, QueueOrdered
      <4> QED BY <2>1, <2>2, <3>1, <4>1 DEF Order, FileBeforeQueue, NoneAhead, JobBetween
    <3>2. CASE UNCHANGED <<job, stage>>
      BY <2>1, <3>2 DEF JobBetween
    <3> QED BY <2>2, <3>1, <3>2
  <2> QED BY <2>3, <2>4, <2>5 DEF Order
<1>4. CASE WriteBegins
  <2>1. /\ Len(file') = Len(file) + 1
        /\ \A i \in 1..Len(file) : file'[i] = file[i]
        /\ file'[Len(file) + 1].event = job
    BY <1>4 DEF WriteBegins, TypeOK
  <2>2. \A i \in 1..Len(file') :
            \/ i \in 1..Len(file) /\ file'[i] = file[i]
            \/ i = Len(file) + 1 /\ file'[i].event = job
    BY <1>0, <2>1
  <2> QED BY <1>0, <1>4, <2>1, <2>2
          DEF WriteBegins, Order, FileOrdered, QueueOrdered, FileBeforeQueue, NoneAhead,
              JobBetween
<1>5. CASE stage = "partial" /\ (WriteEnds \/ WriteFails)
  <2>1. \E end \in Ends : file' = [file EXCEPT ![Len(file)].end = end]
    BY <1>5 DEF WriteEnds, WriteFails, LineEnd, Ends
  <2>2. file \in Seq(Pieces) /\ Len(file) > 0 /\ Len(file) \in Nat
    BY <1>5 DEF Writing, TypeOK
  <2>3. /\ file' \in Seq(Pieces) /\ Len(file') = Len(file)
        /\ \A i \in 1..Len(file) : file'[i].event = file[i].event
    BY <2>1, <2>2, LastPiece
  <2>4. CASE WriteEnds
    BY <1>5, <2>2, <2>3, <2>4
       DEF WriteEnds, Order, FileOrdered, QueueOrdered, FileBeforeQueue, NoneAhead,
           JobBetween
  <2>5. CASE WriteFails
    BY <2>2, <2>3, <2>5, OrderKept DEF WriteFails, Finished
  <2> QED BY <1>5, <2>4, <2>5
<1>6. CASE OpenFails \/ SyncEnds \/ SyncFails
  BY <1>6, OrderKept DEF OpenFails, SyncEnds, SyncFails, Finished, TypeOK
<1>7. CASE Kill
  BY <1>7, OrderKept DEF Kill, ProcessDies, TypeOK
<1>8. CASE PowerFails
  BY <1>8, WhatSurvives, OrderKept DEF PowerFails, ProcessDies, TypeOK
<1>9. CASE UNCHANGED vars
  BY <1>9 DEF vars, Order, FileOrdered, QueueOrdered, FileBeforeQueue, NoneAhead,
              JobBetween
<1> QED
  <2>1. CASE WorkerStep
    BY <1>3, <1>4, <1>5, <1>6, <2>1 DEF WorkerStep, WriteEnds, WriteFails
  <2> QED BY <1>1, <1>2, <1>7, <1>8, <1>9, <2>1 DEF Next

\* Whoever reads the log, whenever it is read, gets the events in the order of the
\* save_event calls and none of them twice.
THEOREM OrderedHistory == Spec => []HistoryInOrder
<1>1. Init => Order
  BY DEF Init, Order, FileOrdered, QueueOrdered, FileBeforeQueue, NoneAhead, JobBetween
<1>2. TypeOK /\ Writing /\ Order /\ [Next]_vars => Order'
  BY OrderStep
<1>3. TypeOK /\ Order => HistoryInOrder
  BY DEF TypeOK, Order, FileOrdered, HistoryInOrder, Readable
<1> QED BY <1>1, <1>2, <1>3, WellFormed, PTL DEF Spec

(***************************************************************************)
(* What fsync has confirmed stays: an acknowledged event is a whole line   *)
(* among the confirmed pieces, which no step touches.                      *)
(***************************************************************************)
Line(e) == [event |-> e, end |-> "whole"]

Confirmed ==
    /\ \A e \in Acked : \E i \in 1..synced : file[i] = Line(e)
    /\ stage = "written" => file[Len(file)] = Line(job)

\* No step changes a confirmed piece or withdraws its confirmation.
LEMMA ConfirmedPiecesStay ==
    ASSUME TypeOK, Writing, [Next]_vars
    PROVE  /\ synced' \in Nat /\ synced <= synced'
           /\ \A i \in 1..synced : file'[i] = file[i]
           /\ synced' <= Len(file') /\ Len(file') \in Nat
<1>0. /\ file \in Seq(Pieces) /\ Len(file) \in Nat
      /\ synced \in Nat /\ synced <= Len(file)
  BY DEF TypeOK
<1>1. CASE UNCHANGED <<file, synced>>
  BY <1>0, <1>1
<1>2. CASE WriteBegins
  BY <1>0, <1>2 DEF WriteBegins
<1>3. CASE stage = "partial" /\ (WriteEnds \/ WriteFails)
  <2>1. \E end \in Ends : file' = [file EXCEPT ![Len(file)].end = end]
    BY <1>3 DEF WriteEnds, WriteFails, LineEnd, Ends
  <2>2. Len(file) > synced /\ synced' = synced
    BY <1>3 DEF Writing, WriteEnds, WriteFails
  <2>3. /\ Len(file') = Len(file)
        /\ \A i \in 1..Len(file) : i # Len(file) => file'[i] = file[i]
    BY <1>0, <2>1, <2>2, LastPiece
  <2> QED BY <1>0, <2>2, <2>3
<1>4. CASE SyncEnds
  BY <1>0, <1>4 DEF SyncEnds, Synced
<1>5. CASE PowerFails
  BY <1>0, <1>5, WhatSurvives
<1>6. CASE WorkerStep
  BY <1>1, <1>2, <1>3, <1>4, <1>6
     DEF WorkerStep, TakeJob, OpenFails, WriteEnds, WriteFails, SyncFails
<1> QED BY <1>1, <1>5, <1>6 DEF Next, SaveEvent, CancelCaller, Kill, vars

\* Only a completed fsync acknowledges an event, and only the one of its job.
LEMMA AckedBySync ==
    ASSUME TypeOK, [Next]_vars, NEW e \in Acked', e \notin Acked
    PROVE  SyncEnds /\ e = job
<1>0. /\ e \in Events /\ outcome'[e] = "acked" /\ outcome[e] # "acked"
      /\ outcome \in [Events -> Outcomes]
  BY DEF Acked, TypeOK
<1>1. CASE SaveEvent \/ (\E x \in Events : CancelCaller(x)) \/ Kill \/ PowerFails
  BY <1>0, <1>1 DEF SaveEvent, CancelCaller, Kill, PowerFails, ProcessDies
<1>2. CASE OpenFails \/ WriteFails \/ SyncFails
  BY <1>0, <1>2 DEF OpenFails, WriteFails, SyncFails, Finished
<1>3. CASE SyncEnds
  BY <1>0, <1>3 DEF SyncEnds, Finished
<1>4. CASE UNCHANGED outcome
  BY <1>0, <1>4
<1> QED BY <1>1, <1>2, <1>3, <1>4
        DEF Next, WorkerStep, TakeJob, WriteBegins, WriteEnds, vars

\* Every acknowledged event stays among the confirmed lines.
LEMMA ConfirmedStep ==
    ASSUME TypeOK, Writing, Order, Confirmed, [Next]_vars
    PROVE  Confirmed'
<1>0. /\ synced \in Nat /\ synced' \in Nat /\ synced <= synced'
      /\ \A i \in 1..synced : file'[i] = file[i]
      /\ file \in Seq(Pieces) /\ Len(file) \in Nat
  BY ConfirmedPiecesStay DEF TypeOK
<1>1. ASSUME NEW e \in Acked' PROVE \E i \in 1..synced' : file'[i] = Line(e)
  <2>1. CASE e \in Acked
    <3>1. PICK i \in 1..synced : file[i] = Line(e)
      BY <2>1 DEF Confirmed
    <3>2. i \in 1..synced' /\ file'[i] = Line(e)
      BY <1>0, <3>1
    <3> QED BY <3>2
  <2>2. CASE SyncEnds /\ e = job
    <3>1. stage = "written" /\ synced' = Len(file) /\ file' = file
      BY <2>2 DEF SyncEnds, Synced
    <3>2. Len(file) > 0 /\ file[Len(file)] = Line(job)
      BY <1>0, <3>1 DEF Writing, Confirmed
    <3>3. Len(file) \in 1..synced' /\ file'[Len(file)] = Line(e)
      BY <1>0, <2>2, <3>1, <3>2
    <3> QED BY <3>3
  <2> QED BY <2>1, <2>2, AckedBySync
<1>2. stage' = "written" => file'[Len(file')] = Line(job')
  <2>1. CASE WriteEnds
    <3>1. /\ Len(file) > 0 /\ file[Len(file)].event = job /\ job' = job
      BY <1>0, <2>1 DEF WriteEnds, Writing, Order, JobBetween
    <3>2. /\ file' \in Seq(Pieces) /\ Len(file') = Len(file)
          /\ file'[Len(file)].event = job /\ file'[Len(file)].end = "whole"
      <4>1. "whole" \in Ends /\ file' = [file EXCEPT ![Len(file)].end = "whole"]
        BY <2>1 DEF WriteEnds, LineEnd, Ends
      <4>2. Len(file) \in 1..Len(file)
        BY <1>0, <3>1
      <4> QED BY <1>0, <3>1, <4>1, <4>2, LastPiece
    <3>3. file'[Len(file)] \in Pieces
      BY <1>0, <3>1, <3>2, ElementOfSeq
    <3> QED BY <3>1, <3>2, <3>3 DEF Pieces, Line
  <2>2. CASE UNCHANGED <<file, stage, job>>
    BY <2>2 DEF Confirmed
  <2>3. CASE stage' # "written"
    BY <2>3
  <2>4. CASE TakeJob
    <3>1. stage = "idle"
      BY <2>4 DEF TakeJob
    <3>2. stage' = "opened" \/ stage' = stage
      BY <2>4, TakeHead DEF TypeOK
    <3> QED BY <3>1, <3>2
  <2> QED BY <2>1, <2>2, <2>3, <2>4
          DEF Next, WorkerStep, SaveEvent, CancelCaller, WriteBegins, OpenFails, WriteFails,
              SyncEnds, SyncFails, Finished, Kill, PowerFails, ProcessDies, vars
<1> QED BY <1>1, <1>2 DEF Confirmed

\* The three invariants of the log hold together.
LEMMA Invariants == Spec => [](TypeOK /\ Writing /\ Order /\ Confirmed)
<1>1. Init => Order /\ Confirmed
  BY DEF Init, Order, FileOrdered, QueueOrdered, FileBeforeQueue, NoneAhead, JobBetween,
         Confirmed, Acked
<1>2. TypeOK /\ Writing /\ Order /\ Confirmed /\ [Next]_vars => Order' /\ Confirmed'
  BY OrderStep, ConfirmedStep
<1> QED BY <1>1, <1>2, WellFormed, PTL DEF Spec

\* An event whose save_event has returned is missing from the history only if its line
\* stands right behind a piece without a newline.
THEOREM LostOnlyToTear == Spec => []AckedLostOnlyToTear
<1>1. TypeOK /\ Confirmed => AckedLostOnlyToTear
  <2> SUFFICES ASSUME TypeOK, Confirmed, NEW e \in Acked
               PROVE  \E i \in DOMAIN file :
                          /\ file[i] = [event |-> e, end |-> "whole"]
                          /\ i \in Readable(file) \/ file[i - 1].end # "whole"
    BY DEF AckedLostOnlyToTear
  <2>1. PICK i \in 1..synced : file[i] = Line(e)
    BY DEF Confirmed
  <2>2. i \in DOMAIN file
    BY <2>1 DEF TypeOK
  <2>3. i \in Readable(file) \/ file[i - 1].end # "whole"
    BY <2>1, <2>2 DEF Readable, StartsLine, EndsLine, Line
  <2> QED BY <2>1, <2>2, <2>3 DEF Line
<1> QED BY <1>1, Invariants, PTL

\* No step takes an acknowledged event that can be read out of the history.
THEOREM AckedNeverLeaves == Spec => AckedStays
<1>1. ASSUME TypeOK, Writing, Order, Confirmed, [Next]_vars,
             NEW e \in Acked, e \in Recovered(file)
      PROVE  e \in Recovered(file')
  <2>0. /\ synced \in Nat /\ synced' \in Nat /\ synced <= synced'
        /\ \A i \in 1..synced : file'[i] = file[i]
        /\ synced' <= Len(file') /\ Len(file') \in Nat
        /\ file \in Seq(Pieces) /\ Len(file) \in Nat /\ synced <= Len(file)
    BY <1>1, ConfirmedPiecesStay DEF TypeOK
  <2>1. PICK i \in 1..synced : file[i] = Line(e)
    BY <1>1 DEF Confirmed
  <2>2. PICK j \in Readable(file) : file[j].event = e
    BY <1>1 DEF Recovered
  <2>3. j = i
    <3>1. i \in 1..Len(file) /\ j \in 1..Len(file) /\ file[i].event = e
      BY <2>0, <2>1, <2>2 DEF Readable, Line
    <3>2. e \in Int
      BY WalAssumption DEF Acked, Events
    <3> QED BY <1>1, <2>0, <2>2, <3>1, <3>2 DEF Order, FileOrdered
  <2>4. StartsLine(file', i) /\ EndsLine(file', i)
    BY <2>0, <2>1, <2>2, <2>3 DEF Readable, StartsLine, EndsLine, Line
  <2>5. i \in DOMAIN file' /\ file'[i].event = e
    BY <2>0, <2>1 DEF Line
  <2> QED BY <2>4, <2>5 DEF Recovered, Readable
<1>2. TypeOK /\ Writing /\ Order /\ Confirmed /\ [Next]_vars =>
          \A e \in Acked : e \in Recovered(file) => e \in Recovered(file')
  BY <1>1
<1> QED BY <1>2, Invariants, PTL DEF Spec, AckedStays
=============================================================================
