--------------------------- MODULE ExecutionAgent ---------------------------
(***************************************************************************)
(* ExecutionAgent.handle_execution_report and _garbage_collect_orphans     *)
(* (exchange/execution.py): every report of the broker moves the order     *)
(* table, is published on the bus, and starts or stops the background task *)
(* that asks for the cancellation of an order left partially filled.       *)
(*                                                                         *)
(* The garbage-collection tasks are separate coroutines: each runs in      *)
(* steps that interleave with the reports, with each other and with the    *)
(* other writers of the order table.  Time is a countdown per sleeping     *)
(* task, so the model needs no bound on the clock; a task may run late.    *)
(***************************************************************************)
EXTENDS Naturals, Sequences, AsyncTask

CONSTANTS Orders,          \* client order ids
          Tasks,           \* identities of asyncio tasks
          NoTask,          \* dict.get() of an order without a task
          GcTimeout,       \* the timeout of _garbage_collect_orphans, in ticks
          ReportStatuses,  \* the statuses the broker reports
          MaxBus           \* bound: no report is taken while so many events wait

ASSUME OrdersAssumption == Orders # {}
ASSUME GcTimeoutAssumption == GcTimeout \in Nat \ {0}
ASSUME NoTaskAssumption == NoTask \notin Tasks
ASSUME MaxBusAssumption == MaxBus \in Nat

VARIABLES states,      \* OmsFsm.states
          monitor,     \* _partial_fills_monitor: order -> its task
          phase,       \* where each task is
          owner,       \* the order_id each task was created for
          timer,       \* ticks until the sleep of a task ends
          bus,         \* events published and not yet consumed
          cancelSent   \* history: CANCEL_ORDER published since the last PARTIAL report

vars == <<states, monitor, phase, owner, timer, bus, cancelSent>>

Fsm == INSTANCE OmsFsm

Final == {"FILLED", "CANCELLED", "REJECTED"}

ASSUME ReportStatusesAssumption == ReportStatuses \subseteq Fsm!Statuses

ReportEvent(o, s) == [type |-> "EXECUTION_REPORT", order |-> o, status |-> s]
CancelEvent(o) == [type |-> "CANCEL_ORDER", order |-> o]
Events == {ReportEvent(o, s) : o \in Orders, s \in Fsm!Statuses}
              \cup {CancelEvent(o) : o \in Orders}

\* The step of the agent that publishes e.
Published(e) == bus' = Append(bus, e)

LiveTasks(o) == {t \in Tasks : owner[t] = o /\ Live(phase[t])}

\* The orders some task will look at again.
Watched == {o \in Orders : LiveTasks(o) # {}}

\* Every variable has the shape its handlers rely on.
TypeOK ==
    /\ states \in [Orders -> Fsm!Statuses \cup {Fsm!Absent}]
    /\ monitor \in [Orders -> Tasks \cup {NoTask}]
    /\ phase \in [Tasks -> Phases]
    /\ owner \in [Tasks -> Orders]
    /\ timer \in [Tasks -> 0..GcTimeout]
    /\ bus \in Seq(Events)
    /\ cancelSent \in [Orders -> BOOLEAN]

Init ==
    /\ Fsm!Init
    /\ monitor = [o \in Orders |-> NoTask]
    /\ phase = [t \in Tasks |-> "done"]
    /\ owner = [t \in Tasks |-> CHOOSE o \in Orders : TRUE]
    /\ timer = [t \in Tasks |-> 0]
    /\ bus = <<>>
    /\ cancelSent = [o \in Orders |-> FALSE]
-----------------------------------------------------------------------------
(***************************************************************************)
(* The registry of background tasks.                                       *)
(***************************************************************************)

\* create_task(_garbage_collect_orphans(o)) and its entry in the registry.
StartGc(t, o) ==
    /\ phase' = [phase EXCEPT ![t] = "created"]
    /\ owner' = [owner EXCEPT ![t] = o]
    /\ monitor' = [monitor EXCEPT ![o] = t]
    /\ timer' = timer

\* As StopGc, with the entry left for the task's own finally clause to remove.
StopGcKeepsEntry(o) ==
    /\ phase' = IF monitor[o] = NoTask
                THEN phase
                ELSE [phase EXCEPT ![monitor[o]] = AfterCancel(@)]
    /\ UNCHANGED <<monitor, owner, timer>>

\* The task of the order, if it has one, leaves the registry and is cancelled.
StopGc(o) ==
    /\ monitor' = [monitor EXCEPT ![o] = NoTask]
    /\ phase' = IF monitor[o] = NoTask
                THEN phase
                ELSE [phase EXCEPT ![monitor[o]] = AfterCancel(@)]
    /\ timer' = IF monitor[o] = NoTask
                THEN timer
                ELSE [timer EXCEPT ![monitor[o]] = 0]
    /\ owner' = owner

\* As WatchPartial, without looking for a task the order already has.
WatchPartialUnchecked(o) ==
    \E t \in Tasks : phase[t] = "done" /\ StartGc(t, o)

\* A PARTIAL report: the order gets a task unless the registry has one for it.
WatchPartial(o) ==
    \/ /\ monitor[o] = NoTask
       /\ \E t \in Tasks : phase[t] = "done" /\ StartGc(t, o)
    \/ /\ monitor[o] # NoTask
       /\ UNCHANGED <<monitor, phase, owner, timer>>

\* The finally clause of a task that forgets the registry.
UnregisterNothing(o) == monitor' = monitor

\* The finally clause: the order's entry goes, whichever task it names.
Unregister(o) == monitor' = [monitor EXCEPT ![o] = NoTask]
-----------------------------------------------------------------------------
(***************************************************************************)
(* handle_execution_report.  Neither the transition nor the publication    *)
(* suspends, so the whole handler is one step.  A report that cannot be    *)
(* decoded, or names no known status, returns early and changes nothing.   *)
(***************************************************************************)

HandleExecutionReport(o, s) ==
    /\ Len(bus) < MaxBus
    /\ Fsm!Transition(o, s)
    /\ bus' = Append(bus, ReportEvent(o, s))
    /\ \/ s = "PARTIAL" /\ WatchPartial(o)
       \/ s \in Final /\ StopGc(o)
       \/ /\ s \notin Final \cup {"PARTIAL"}
          /\ UNCHANGED <<monitor, phase, owner, timer>>
    /\ cancelSent' = IF s = "PARTIAL" THEN [cancelSent EXCEPT ![o] = FALSE]
                                      ELSE cancelSent
-----------------------------------------------------------------------------
(***************************************************************************)
(* _garbage_collect_orphans, one action per stretch between suspensions.   *)
(***************************************************************************)

SleepTooShort == GcTimeout - 1

\* The delay the task sleeps for.
SleepTime == GcTimeout

GcStart(t) ==
    /\ phase[t] = "created"
    /\ phase' = [phase EXCEPT ![t] = "sleeping"]
    /\ timer' = [timer EXCEPT ![t] = SleepTime]
    /\ UNCHANGED <<states, monitor, owner, bus, cancelSent>>

\* The timer fires: the cancellation of a still partial order is published.
GcWake(t) ==
    LET o == owner[t] IN
    /\ phase[t] = "sleeping" /\ timer[t] = 0
    /\ \/ /\ Fsm!GetStatus(o) = "PARTIAL"
          /\ bus' = Append(bus, CancelEvent(o))
          /\ cancelSent' = [cancelSent EXCEPT ![o] = TRUE]
       \/ /\ Fsm!GetStatus(o) # "PARTIAL"
          /\ UNCHANGED <<bus, cancelSent>>
    /\ Unregister(o)
    /\ phase' = [phase EXCEPT ![t] = "done"]
    /\ UNCHANGED <<states, owner, timer>>

\* CancelledError inside the body: nothing is published, finally still runs.
GcCancelled(t) ==
    /\ phase[t] = "cancelling"
    /\ Unregister(owner[t])
    /\ phase' = [phase EXCEPT ![t] = "done"]
    /\ UNCHANGED <<states, owner, timer, bus, cancelSent>>

\* CancelledError before the body started: not even finally runs.
GcAborted(t) ==
    /\ phase[t] = "aborted"
    /\ phase' = [phase EXCEPT ![t] = "done"]
    /\ UNCHANGED <<states, monitor, owner, timer, bus, cancelSent>>
-----------------------------------------------------------------------------
(***************************************************************************)
(* The environment: the clock, the consumer of the bus and the other       *)
(* writers of the order table (RiskManager and ManualCommandController).   *)
(***************************************************************************)

Tick ==
    /\ timer' = [t \in Tasks |-> IF phase[t] = "sleeping" /\ timer[t] > 0
                                 THEN timer[t] - 1 ELSE timer[t]]
    /\ UNCHANGED <<states, monitor, phase, owner, bus, cancelSent>>

Consume ==
    /\ bus # <<>>
    /\ bus' = Tail(bus)
    /\ UNCHANGED <<states, monitor, phase, owner, timer, cancelSent>>

\* The order passes the risk checks and is registered, or fails them.
Register(o) ==
    /\ Fsm!RegisterOrder(o) \/ Fsm!Transition(o, "REJECTED")
    /\ UNCHANGED <<monitor, phase, owner, timer, bus, cancelSent>>

\* ManualCommandController forces an order aside or cancels it.
Override(o) ==
    /\ \E s \in {"STANDBY_OVERRIDE", "CANCELLED"} : Fsm!Transition(o, s)
    /\ UNCHANGED <<monitor, phase, owner, timer, bus, cancelSent>>
-----------------------------------------------------------------------------
GcStep(t) == GcStart(t) \/ GcWake(t) \/ GcCancelled(t) \/ GcAborted(t)

\* Reports in any order: the broker's socket may duplicate, delay or reorder them.
Next ==
    \/ \E o \in Orders, s \in ReportStatuses : HandleExecutionReport(o, s)
    \/ \E t \in Tasks : GcStep(t)
    \/ \E o \in Orders : Register(o) \/ Override(o)
    \/ Tick
    \/ Consume

\* The event loop runs every task that is ready, the clock advances and the bus
\* is drained.  Nothing obliges the broker or an operator to act.
Fairness ==
    /\ \A t \in Tasks : WF_vars(GcStep(t))
    /\ WF_vars(Tick)
    /\ WF_vars(Consume)

Spec == Init /\ [][Next]_vars
FairSpec == Spec /\ Fairness
-----------------------------------------------------------------------------
\* The registry never names a task that has ended or has been told to stop: a
\* PARTIAL report that finds an entry finds a task that will look at the order.
MonitorLive ==
    \A o \in Orders : monitor[o] # NoTask => monitor[o] \in LiveTasks(o)

\* However the reports are duplicated or reordered, an order left PARTIAL is not
\* forgotten: a task still watches it, or the bus carried its cancellation after
\* the last PARTIAL report.
NoForgottenPartial ==
    \A o \in Orders :
        states[o] = "PARTIAL" => cancelSent[o] \/ LiveTasks(o) # {}

\* What the agent promises about partially filled orders, with the tasks hidden.
Watch == INSTANCE PartialFillWatch WITH
             Statuses <- Fsm!Statuses \cup {Fsm!Absent},
             watched <- Watched

\* The tasks, timers and registry of the agent implement the abstract watch.
ImplementsWatch == Watch!Spec
=============================================================================
