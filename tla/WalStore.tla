------------------------------ MODULE WalStore ------------------------------
(***************************************************************************)
(* The write-ahead log of infra/wal_store.py: save_event hands a line to   *)
(* the one worker thread of an executor, which opens the file, appends the *)
(* line, flushes and syncs it; load_history reads whatever is there after  *)
(* a restart, or while the worker is in the middle of a line.              *)
(*                                                                         *)
(* The file is a sequence of pieces, one per attempt to append a line:     *)
(*   "half"   the text stops inside the JSON object                        *)
(*   "bare"   the object is complete, its newline is missing               *)
(*   "whole"  the object and its newline                                   *)
(* Only the first `synced` pieces are sure to survive a power failure; of  *)
(* the others a prefix survives, its last piece possibly cut short.        *)
(* Events are numbered in the order of the save_event calls.               *)
(***************************************************************************)
EXTENDS Integers, Sequences

CONSTANTS MaxEvents,   \* bound: calls of save_event
          MaxCrashes   \* bound: process kills and power failures

ASSUME WalAssumption == MaxEvents \in Nat /\ MaxCrashes \in Nat

VARIABLES submitted,  \* calls of save_event so far
          queue,      \* jobs handed to the executor, not yet taken by its worker
          job,        \* the job the worker is running, or NoJob
          stage,      \* how far it has got
          file,       \* the pieces load_history would read
          synced,     \* how many of them fsync() has confirmed
          outcome,    \* how each call ended
          crashes     \* kills and power failures so far

vars == <<submitted, queue, job, stage, file, synced, outcome, crashes>>

Events == 1..MaxEvents
NoJob == 0
Ends == {"half", "bare", "whole"}
Pieces == [event : Events, end : Ends]

\* "acked": save_event returned.  "raised": it raised the worker's exception.
\* "cancelled": its caller was cancelled.  "lost": the process died first.
Outcomes == {"none", "waiting", "acked", "raised", "cancelled", "lost"}

\* Besides the types: the worker holds a job exactly when it is not idle, and fsync
\* has confirmed nothing that is not in the file.
TypeOK ==
    /\ submitted \in 0..MaxEvents
    /\ queue \in Seq(Events)
    /\ job \in Events \cup {NoJob}
    /\ stage \in {"idle", "opened", "partial", "written"}
    /\ (stage = "idle") <=> (job = NoJob)
    /\ file \in Seq(Pieces)
    /\ synced \in 0..Len(file)
    /\ outcome \in [Events -> Outcomes]
    /\ crashes \in 0..MaxCrashes

Init ==
    /\ submitted = 0
    /\ queue = <<>>
    /\ job = NoJob
    /\ stage = "idle"
    /\ file = <<>>
    /\ synced = 0
    /\ outcome = [e \in Events |-> "none"]
    /\ crashes = 0
-----------------------------------------------------------------------------
(* What load_history makes of a file: a line ends at a newline, so a piece *)
(* without one swallows the piece behind it.  Neither half an object nor   *)
(* an object with more text behind it parses; both are skipped with a      *)
(* warning.                                                                *)

StartsLine(f, i) == i = 1 \/ f[i - 1].end = "whole"

EndsLine(f, i) ==
    \/ f[i].end = "whole"
    \/ f[i].end = "bare" /\ i = Len(f)

Readable(f) == {i \in DOMAIN f : StartsLine(f, i) /\ EndsLine(f, i)}

\* The events load_history returns.
Recovered(f) == {f[i].event : i \in Readable(f)}
-----------------------------------------------------------------------------
SaveEvent ==
    /\ submitted < MaxEvents
    /\ submitted' = submitted + 1
    /\ queue' = Append(queue, submitted + 1)
    /\ outcome' = [outcome EXCEPT ![submitted + 1] = "waiting"]
    /\ UNCHANGED <<job, stage, file, synced, crashes>>

\* The caller of save_event is cancelled.  Its job is dropped if the worker has not
\* taken it yet (TakeJob), and runs to its end otherwise.
CancelCaller(e) ==
    /\ outcome[e] = "waiting"
    /\ outcome' = [outcome EXCEPT ![e] = "cancelled"]
    /\ UNCHANGED <<submitted, queue, job, stage, file, synced, crashes>>

\* A pool of several threads, whose jobs overtake each other.
TakesAny == DOMAIN queue

\* The positions of the queue the pool may take a job from: one worker, first in
\* first out.
Takes == {i \in DOMAIN queue : i = 1}

TakeJob ==
    /\ stage = "idle"
    /\ \E i \in Takes :
           /\ queue' = SubSeq(queue, 1, i - 1) \o SubSeq(queue, i + 1, Len(queue))
           /\ IF outcome[queue[i]] = "cancelled"
              THEN UNCHANGED <<job, stage>>
              ELSE job' = queue[i] /\ stage' = "opened"
    /\ UNCHANGED <<submitted, file, synced, outcome, crashes>>

\* A worker that does not get over an exception of its job.
FinishedStuck(o) ==
    /\ job' = NoJob /\ stage' = IF o = "raised" THEN "broken" ELSE "idle"
    /\ outcome' = IF outcome[job] = "waiting" THEN [outcome EXCEPT ![job] = o] ELSE outcome

\* The job ends and its future tells the caller, if there is still one.
Finished(o) ==
    /\ job' = NoJob /\ stage' = "idle"
    /\ outcome' = IF outcome[job] = "waiting" THEN [outcome EXCEPT ![job] = o] ELSE outcome

\* The flushed line reaches the file, but not in one piece as far as others can see.
WriteBegins ==
    /\ stage = "opened"
    /\ file' = Append(file, [event |-> job, end |-> "half"])
    /\ stage' = "partial"
    /\ UNCHANGED <<submitted, queue, job, synced, outcome, crashes>>

\* A serialisation that forgets OPT_APPEND_NEWLINE.
NoNewline == "bare"

LineEnd == "whole"

WriteEnds ==
    /\ stage = "partial"
    /\ file' = [file EXCEPT ![Len(file)].end = LineEnd]
    /\ stage' = "written"
    /\ UNCHANGED <<submitted, queue, job, synced, outcome, crashes>>

\* open() fails, or the first write does: nothing is in the file.
OpenFails ==
    /\ stage = "opened"
    /\ Finished("raised")
    /\ UNCHANGED <<submitted, queue, file, synced, crashes>>

\* flush() raises after part of the line; closing the file may still flush the rest.
WriteFails ==
    /\ stage = "partial"
    /\ \E end \in Ends : file' = [file EXCEPT ![Len(file)].end = end]
    /\ Finished("raised")
    /\ UNCHANGED <<submitted, queue, synced, crashes>>

\* A worker that acknowledges a line the kernel has not written yet.
NotSynced == synced

\* fsync() confirms everything in the file, the lines of earlier jobs included.
Synced == Len(file)

SyncEnds ==
    /\ stage = "written"
    /\ synced' = Synced
    /\ Finished("acked")
    /\ UNCHANGED <<submitted, queue, file, crashes>>

SyncFails ==
    /\ stage = "written"
    /\ Finished("raised")
    /\ UNCHANGED <<submitted, queue, file, synced, crashes>>

WorkerStep ==
    \/ TakeJob \/ WriteBegins \/ WriteEnds \/ OpenFails \/ WriteFails
    \/ SyncEnds \/ SyncFails

\* The executor and every call in flight die with the process.
ProcessDies ==
    /\ crashes < MaxCrashes
    /\ crashes' = crashes + 1
    /\ queue' = <<>>
    /\ job' = NoJob
    /\ stage' = "idle"
    /\ outcome' = [e \in Events |-> IF outcome[e] = "waiting" THEN "lost" ELSE outcome[e]]
    /\ UNCHANGED submitted

\* Killed: what the kernel has been given stays in the file, unconfirmed.
Kill == ProcessDies /\ UNCHANGED <<file, synced>>

\* What may be left of the last piece that reached the disk.
CutShort(end) == IF end = "half" THEN {"half"} ELSE Ends

\* How many pieces may survive a power failure.
Survives == synced..Len(file)

PowerFails ==
    /\ ProcessDies
    /\ \E n \in Survives :
           /\ synced' = n
           /\ IF n <= synced
              THEN file' = SubSeq(file, 1, n)
              ELSE \E end \in CutShort(file[n].end) :
                       file' = [SubSeq(file, 1, n) EXCEPT ![n].end = end]

Next ==
    \/ SaveEvent
    \/ \E e \in Events : CancelCaller(e)
    \/ WorkerStep
    \/ Kill
    \/ PowerFails

\* The worker thread runs, and the disk answers.
Fairness == WF_vars(WorkerStep)

Spec == Init /\ [][Next]_vars /\ Fairness
-----------------------------------------------------------------------------
Acked == {e \in Events : outcome[e] = "acked"}

\* Whoever reads the log, even in the middle of an append or after a crash, gets the
\* events in the order of the save_event calls, and none of them twice.
HistoryInOrder ==
    \A i, j \in Readable(file) : i < j => file[i].event < file[j].event

\* An event whose save_event has returned is missing from the history only if its
\* line stands right behind a line that a crash or a failed write left without its
\* newline.
AckedLostOnlyToTear ==
    \A e \in Acked : \E i \in DOMAIN file :
        /\ file[i] = [event |-> e, end |-> "whole"]
        /\ i \in Readable(file) \/ file[i - 1].end # "whole"

\* A later crash, failed write or append never takes an event whose save_event has
\* returned out of the history.
AckedStays ==
    [][\A e \in Acked : e \in Recovered(file) => e \in Recovered(file')]_vars

\* Every call of save_event comes to an end.
EverySaveEnds ==
    \A e \in Events : outcome[e] = "waiting" ~> outcome[e] # "waiting"

\* Half a line left by a power failure does not keep valid events out of the history.
AckedIsRecovered == Acked \subseteq Recovered(file)
=============================================================================
