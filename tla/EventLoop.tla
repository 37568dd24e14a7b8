----------------------------- MODULE EventLoop -----------------------------
(***************************************************************************)
(* The tasks that share the program's event loop: the main loop, the tasks *)
(* of the signal handlers, the last shutdown and the background tasks of   *)
(* the agents.  asyncio.all_tasks() is the set of them that are not done.  *)
(*                                                                         *)
(* An agent's start() creates a task whether or not an earlier one is      *)
(* still there and keeps a reference to the last one only.  Bound: an      *)
(* agent has two tasks that are not done at a time.                        *)
(***************************************************************************)
EXTENDS AsyncTask

CONSTANT Signals  \* the tasks register_signals may create, one per signal received

RecorderTasks == {"recorder", "recorder2"}
ReportTasks == {"report", "report2"}
TelegramTasks == {"telegram", "telegram2"}
AgentTasks == RecorderTasks \cup ReportTasks \cup TelegramTasks
Tasks == Signals \cup AgentTasks \cup {"loop", "final"}

\* The handlers' tasks are tasks of their own.
ASSUME SignalsAssumption == Signals \cap (AgentTasks \cup {"loop", "final"}) = {}

VARIABLE phase

LoopInit == phase = [t \in Tasks |-> "done"]

AllTasks == {t \in Tasks : ~IsDone(phase[t])}

Go(t, p) == phase' = [phase EXCEPT ![t] = p]

\* create_task(): the new task takes a name no task goes by any more.
Create(t) == IsDone(phase[t]) /\ Go(t, "created")

\* The task ends with the CancelledError it was sent.
Ends(t) == phase[t] \in {"cancelling", "aborted"} /\ Go(t, "done")
=============================================================================
