------------------------------ MODULE Recorder ------------------------------
(***************************************************************************)
(* SensorRecorder (sensor/recorder.py): whatever happens is put on a       *)
(* bounded queue without waiting, and a background worker appends it to    *)
(* the log a batch at a time.  An event is the number of its arrival.      *)
(*                                                                         *)
(* The worker does not suspend between two batches while the queue has     *)
(* something; here an event may arrive in between, which adds behaviours   *)
(* and removes none.  A line cut short by a failing write counts as lost.  *)
(***************************************************************************)
EXTENDS EventLoop, Integers, Sequences, FiniteSets

CONSTANTS MaxQueue,   \* maxsize of the queue
          MaxBatch,   \* the most events of a batch
          Malformed,  \* the events orjson cannot serialise
          MaxEvents   \* bound: events that arrive

ASSUME RecorderAssumption ==
    /\ MaxQueue \in Nat \ {0}
    /\ MaxBatch \in Nat \ {0}
    /\ MaxEvents \in Nat

VARIABLES rRunning,     \* self._is_running
          rQueue,       \* self._queue
          rUnfinished,  \* put on the queue and not yet marked done
          rTask,        \* self._worker_task; before the first start a task that is done
          rPaused,      \* for each worker: it sleeps after an error, not in get()
          rFile,        \* the lines of the log
          rArrived,     \* history: events seen
          rDropped,     \* history: events refused by a full queue
          rLost         \* history: lost event -> the event its batch broke on

books == <<rQueue, rUnfinished, rFile, rArrived, rDropped, rLost>>
rVars == <<rRunning, rTask, rPaused, books>>

RecorderInit ==
    /\ rRunning = FALSE /\ rTask = "recorder" /\ rPaused = [t \in RecorderTasks |-> FALSE]
    /\ rQueue = <<>> /\ rUnfinished = 0
    /\ rFile = <<>> /\ rArrived = 0 /\ rDropped = {} /\ rLost = {}

RecorderStart ==
    /\ \E t \in RecorderTasks : Create(t) /\ rTask' = t
    /\ rRunning' = TRUE
    /\ UNCHANGED <<rPaused, books>>

\* The last worker is cancelled where it sleeps; the queue stays as it is.
RecorderStop ==
    /\ rRunning' = FALSE
    /\ Go(rTask, AfterCancel(phase[rTask]))
    /\ UNCHANGED <<rTask, rPaused, books>>

\* put_nowait, running or not; an event that meets a full queue is dropped.
OnEvent ==
    /\ rArrived < MaxEvents
    /\ rArrived' = rArrived + 1
    /\ \/ /\ Len(rQueue) < MaxQueue
          /\ rQueue' = Append(rQueue, rArrived')
          /\ rUnfinished' = rUnfinished + 1
          /\ rDropped' = rDropped
       \/ /\ Len(rQueue) = MaxQueue
          /\ rDropped' = rDropped \cup {rArrived'}
          /\ UNCHANGED <<rQueue, rUnfinished>>
    /\ UNCHANGED <<phase, rRunning, rTask, rPaused, rFile, rLost>>

\* The events of the next batch; none, and get() suspends.
Taken == SubSeq(rQueue, 1, IF Len(rQueue) < MaxBatch THEN Len(rQueue) ELSE MaxBatch)
Items(s) == {s[i] : i \in 1..Len(s)}

\* As BatchBreaks, with the batch marked done in a finally clause.
BatchBreaksMarked(k) ==
    /\ rFile' = rFile \o SubSeq(Taken, 1, k - 1)
    /\ rLost' = rLost \cup {<<Taken[i], Taken[k]>> : i \in k..Len(Taken)}
    /\ rUnfinished' = rUnfinished - Len(Taken)

\* The file cannot be opened or written, or the k-th event cannot be serialised: the
\* events before it are in the file, the rest of the batch is nowhere, and none of the
\* batch is marked done.
BatchBreaks(k) ==
    /\ rFile' = rFile \o SubSeq(Taken, 1, k - 1)
    /\ rLost' = rLost \cup {<<Taken[i], Taken[k]>> : i \in k..Len(Taken)}
    /\ rUnfinished' = rUnfinished

BatchWritten ==
    /\ Items(Taken) \cap Malformed = {}
    /\ rFile' = rFile \o Taken
    /\ rUnfinished' = rUnfinished - Len(Taken)
    /\ rLost' = rLost

\* At the head of its loop a worker sees whether it is still to run.
AtHead(t) == phase[t] = "created" \/ (phase[t] = "sleeping" /\ rPaused[t])

\* A worker that never comes back from its pause.
WorksInGetOnly(t) ==
    phase[t] = "created" \/ (phase[t] = "sleeping" /\ ~rPaused[t] /\ rQueue # <<>>)

\* A worker has something to do: it is at the head of its loop, or get() has an event.
Works(t) == AtHead(t) \/ (phase[t] = "sleeping" /\ rQueue # <<>>)

Pauses(t, paused) == rPaused' = [rPaused EXCEPT ![t] = paused]

\* One turn of a worker: a batch, empty when get() has to wait.  A worker that was waiting
\* in get() when it was told to stop, and was not cancelled, still writes a batch.
RecorderWorks(t) ==
    /\ Works(t) /\ (AtHead(t) => rRunning)
    /\ \/ /\ BatchWritten
          /\ Pauses(t, FALSE)
          /\ Go(t, IF rRunning THEN "sleeping" ELSE "done")
       \/ /\ \E k \in 1..Len(Taken) :
                 /\ \A i \in 1..(k - 1) : Taken[i] \notin Malformed
                 /\ BatchBreaks(k)
          /\ Pauses(t, TRUE)
          /\ Go(t, "sleeping")
    /\ rQueue' = SubSeq(rQueue, Len(Taken) + 1, Len(rQueue))
    /\ UNCHANGED <<rRunning, rTask, rArrived, rDropped>>

\* Told to stop, or cancelled in get() or in the pause: the worker leaves without another
\* batch.
RecorderEnds(t) ==
    /\ Ends(t) \/ (AtHead(t) /\ ~rRunning /\ Go(t, "done"))
    /\ Pauses(t, FALSE)
    /\ UNCHANGED <<rRunning, rTask, books>>

RecorderStep(t) == RecorderWorks(t) \/ RecorderEnds(t)
-----------------------------------------------------------------------------
\* Every event that arrived is in exactly one place, in order of arrival where there is
\* an order; one was lost only behind the event its batch broke on and within that batch;
\* and the queue can be joined exactly when no batch ever broke.
RecorderAccounts ==
    LET kept == rFile \o rQueue
        lost == {l[1] : l \in rLost}
    IN  /\ \A i, j \in 1..Len(kept) : i < j => kept[i] < kept[j]
        /\ Items(kept) \cup lost \cup rDropped = 1..rArrived
        /\ Items(kept) \cap (lost \cup rDropped) = {} /\ lost \cap rDropped = {}
        /\ \A l \in rLost :
               l[2] <= l[1] /\ Cardinality({m \in rLost : m[2] = l[2]}) <= MaxBatch
        /\ (rUnfinished = Len(rQueue)) <=> (rLost = {})

\* What was accepted leaves the queue, whatever breaks on the way and however many workers
\* take from it, unless the recorder is told to stop or is shut down first: the queue never
\* holds something for good (the events are finitely many, so it is empty in the end).
QueueDrains == []<>(rQueue = <<>> \/ ~rRunning \/ ~Live(phase[rTask]))
=============================================================================
