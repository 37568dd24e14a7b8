---------------------- MODULE ManualCommandController ----------------------
(***************************************************************************)
(* The manual override of interface/controllers.py: the panic halt, the    *)
(* operator's commands (and the /stop command of interface/telegram_bot.py *)
(* that ends in the same call) and the dead man's switch.                  *)
(*                                                                         *)
(* A watcher is a coroutine: it sleeps for the timeout, looks at the age of *)
(* the last heartbeat and either halts the system or sleeps again.  Nothing *)
(* prevents a second start, so there may be several watchers; the          *)
(* controller remembers the last one.  stop_deadman_switch cancels that one *)
(* and waits for it.                                                       *)
(*                                                                         *)
(* Time is the age of the last heartbeat and one countdown per sleeping    *)
(* watcher.  A tick passes only when no watcher is ready to run: the event *)
(* loop is assumed to serve a ready coroutine within a tick.               *)
(***************************************************************************)
EXTENDS Naturals, AsyncTask, PanicHalt

CONSTANTS Orders,      \* client order ids
          Watchers,    \* identities of the watcher tasks
          NoWatcher,   \* the controller has no task
          Timeout,     \* _DEADMAN_TIMEOUT, in ticks
          Moves        \* the statuses the other agents move an order to

ASSUME TimeoutAssumption == Timeout \in Nat \ {0}
ASSUME NoWatcherAssumption == NoWatcher \notin Watchers

VARIABLES states,     \* OmsFsm.states
          halted,     \* _is_halted
          beatAge,    \* ticks since _last_heartbeat, counted up to twice the timeout
          current,    \* _deadman_task
          phase,      \* where each watcher is
          timer,      \* ticks until the sleep of a watcher ends
          listed,     \* the order_ids each watcher was started with
          stopping    \* the watcher a caller of stop_deadman_switch waits for

vars == <<states, halted, beatAge, current, phase, timer, listed, stopping>>

Fsm == INSTANCE OmsFsm

ASSUME MovesAssumption == Moves \subseteq Fsm!Statuses

\* Every variable has the shape the handlers rely on.
TypeOK ==
    /\ states \in [Orders -> Fsm!Statuses \cup {Fsm!Absent}]
    /\ halted \in BOOLEAN
    /\ beatAge \in 0..2 * Timeout
    /\ current \in Watchers \cup {NoWatcher}
    /\ phase \in [Watchers -> Phases]
    /\ timer \in [Watchers -> 0..Timeout]
    /\ listed \in [Watchers -> SUBSET Orders]
    /\ stopping \in Watchers \cup {NoWatcher}

Init ==
    /\ Fsm!Init
    /\ halted = FALSE
    /\ beatAge = 0
    /\ current = NoWatcher
    /\ phase = [w \in Watchers |-> "done"]
    /\ timer = [w \in Watchers |-> 0]
    /\ listed = [w \in Watchers |-> {}]
    /\ stopping = NoWatcher
-----------------------------------------------------------------------------
(***************************************************************************)
(* trigger_panic_halt and the commands that end in it.                     *)
(***************************************************************************)

\* A second halt is ignored, whatever orders it lists.
TriggerPanicHalt(ids) ==
    \/ halted /\ UNCHANGED <<halted, states>>
    \/ ~halted /\ halted' = TRUE /\ states' = HaltOrders(states, ids)

\* override_position with the command PANIC_HALT; with an empty list it does what
\* StopCommand does.
PanicHaltCommand(ids) ==
    /\ ids # {}
    /\ TriggerPanicHalt(ids)
    /\ UNCHANGED <<beatAge, current, phase, timer, listed, stopping>>

\* override_position with the command STANDBY_OVERRIDE: no status is spared.
StandbyCommand(ids) ==
    /\ states' = [o \in Orders |-> IF o \in ids THEN "STANDBY_OVERRIDE" ELSE states[o]]
    /\ UNCHANGED <<halted, beatAge, current, phase, timer, listed, stopping>>

\* TelegramBotAgent._handle_stop_command: the list of orders is empty.
StopCommand ==
    /\ TriggerPanicHalt({})
    /\ UNCHANGED <<beatAge, current, phase, timer, listed, stopping>>
-----------------------------------------------------------------------------
(***************************************************************************)
(* The dead man's switch.                                                  *)
(***************************************************************************)

ReceiveHeartbeat ==
    /\ beatAge' = 0
    /\ UNCHANGED <<states, halted, current, phase, timer, listed, stopping>>

\* The age of the heartbeat that a start leaves untouched.
StartAgeKept == beatAge

\* A start counts as a heartbeat.
StartAge == 0

\* One list for all the watchers, that of the last start.
SharedList(w, ids) == [v \in Watchers |-> ids]

\* Each watcher keeps the list its own start was called with.
OwnList(w, ids) == [listed EXCEPT ![w] = ids]

StartDeadmanSwitch(w, ids) ==
    /\ phase[w] = "done"
    /\ w # stopping
    /\ beatAge' = StartAge
    /\ current' = w
    /\ phase' = [phase EXCEPT ![w] = "created"]
    /\ listed' = OwnList(w, ids)
    /\ UNCHANGED <<states, halted, timer, stopping>>

\* A cancel that comes too late for a watcher whose timer has already expired.
CancelUnlessDue(w) ==
    IF phase[w] = "sleeping" /\ timer[w] = 0 THEN phase[w] ELSE AfterCancel(phase[w])

CancelWatcher(w) == AfterCancel(phase[w])

\* stop_deadman_switch up to the await; a caller with nothing to stop returns.
StopDeadmanSwitch ==
    /\ stopping = NoWatcher
    /\ current # NoWatcher /\ ~IsDone(phase[current])
    /\ phase' = [phase EXCEPT ![current] = CancelWatcher(current)]
    /\ stopping' = current
    /\ UNCHANGED <<states, halted, beatAge, current, timer, listed>>

ReturnAtOnce == TRUE

Awaited == IsDone(phase[stopping])

\* The awaited watcher has ended and stop_deadman_switch returns.
StopReturns ==
    /\ stopping # NoWatcher /\ Awaited
    /\ stopping' = NoWatcher
    /\ UNCHANGED <<states, halted, beatAge, current, phase, timer, listed>>
-----------------------------------------------------------------------------
(***************************************************************************)
(* _deadman_watcher, one action per stretch between suspensions.           *)
(***************************************************************************)

\* The delay the watcher sleeps for.
SleepTime == Timeout

\* A watcher that looks once and ends.
WatchOnce(w) ==
    /\ phase' = [phase EXCEPT ![w] = IF phase[w] = "created" THEN "sleeping" ELSE "done"]
    /\ timer' = [timer EXCEPT ![w] = IF phase[w] = "created" THEN SleepTime ELSE 0]

\* The head of the loop: sleep again unless the system is halted.
LoopHead(w) ==
    /\ phase' = [phase EXCEPT ![w] = IF halted THEN "done" ELSE "sleeping"]
    /\ timer' = [timer EXCEPT ![w] = IF halted THEN 0 ELSE SleepTime]

WatcherStart(w) ==
    /\ phase[w] = "created"
    /\ LoopHead(w)
    /\ UNCHANGED <<states, halted, beatAge, current, listed, stopping>>

Silent == beatAge >= Timeout

\* The sleep is over: halt on silence, otherwise back to the head of the loop.
WatcherWake(w) ==
    /\ phase[w] = "sleeping" /\ timer[w] = 0
    /\ \/ /\ Silent
          /\ TriggerPanicHalt(listed[w])
          /\ phase' = [phase EXCEPT ![w] = "done"]
          /\ timer' = timer
       \/ /\ ~Silent
          /\ LoopHead(w)
          /\ UNCHANGED <<states, halted>>
    /\ UNCHANGED <<beatAge, current, listed, stopping>>

\* CancelledError, swallowed in the body or raised before it started.
WatcherCancelled(w) ==
    /\ phase[w] \in {"cancelling", "aborted"}
    /\ phase' = [phase EXCEPT ![w] = "done"]
    /\ timer' = [timer EXCEPT ![w] = 0]
    /\ UNCHANGED <<states, halted, beatAge, current, listed, stopping>>

Ready(w) == phase[w] # "done" /\ (phase[w] = "sleeping" => timer[w] = 0)
-----------------------------------------------------------------------------
(***************************************************************************)
(* The environment: time, and the other writers of the order table.        *)
(***************************************************************************)

Tick ==
    /\ \A w \in Watchers : ~Ready(w)
    /\ beatAge' = IF beatAge < 2 * Timeout THEN beatAge + 1 ELSE beatAge
    /\ timer' = [w \in Watchers |-> IF timer[w] > 0 THEN timer[w] - 1 ELSE 0]
    /\ UNCHANGED <<states, halted, current, phase, listed, stopping>>

\* The order is registered, rejected, sent or reported on by the broker.
Trade(o) ==
    /\ \/ Fsm!RegisterOrder(o)
       \/ \E s \in Moves : Fsm!Transition(o, s)
    /\ UNCHANGED <<halted, beatAge, current, phase, timer, listed, stopping>>
-----------------------------------------------------------------------------
WatcherStep(w) == WatcherStart(w) \/ WatcherWake(w) \/ WatcherCancelled(w)

Command ==
    \/ \E ids \in SUBSET Orders : PanicHaltCommand(ids) \/ StandbyCommand(ids)
    \/ StopCommand
    \/ ReceiveHeartbeat
    \/ StopDeadmanSwitch

Next ==
    \/ \E w \in Watchers, ids \in SUBSET Orders : StartDeadmanSwitch(w, ids)
    \/ \E w \in Watchers : WatcherStep(w)
    \/ \E o \in Orders : Trade(o)
    \/ Command
    \/ StopReturns
    \/ Tick

\* The event loop runs the watchers that are ready and the clock advances; no
\* heartbeat, command or order is ever promised.
Fairness ==
    /\ \A w \in Watchers : WF_vars(WatcherStep(w))
    /\ WF_vars(Tick)

Spec == Init /\ [][Next]_vars
FairSpec == Spec /\ Fairness
-----------------------------------------------------------------------------
\* While a watcher that nobody has cancelled is alive and the system is not halted,
\* the silence stays below twice the timeout: that, and not the timeout itself, is
\* how long a dead oracle can go unnoticed.
DeadmanBound ==
    \A w \in Watchers : Live(phase[w]) /\ ~halted => beatAge < 2 * Timeout

\* A watcher that nobody cancels and an oracle that stays silent end in a halt.
SilenceHalts ==
    \A w \in Watchers :
        phase[w] = "sleeping" ~> (halted \/ beatAge = 0 \/ phase[w] = "cancelling")

\* When stop_deadman_switch returns, no watcher is left that could still halt.
StopStopsWatching ==
    [][StopReturns => \A w \in Watchers : ~Live(phase[w])]_vars
=============================================================================
