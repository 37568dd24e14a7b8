--------------------------- MODULE SwitchHistory ---------------------------
(***************************************************************************)
(* ManualCommandController with what its callers have done so far: whether *)
(* the switch has been stopped, whether it has been started on top of a    *)
(* watcher that was still there, and which orders the callers listed.      *)
(* Nothing the controller can do is ruled out; the history only lets the   *)
(* promises of stop_deadman_switch say when they hold, and those of a halt *)
(* say whose list it is about.                                             *)
(***************************************************************************)
EXTENDS ManualCommandController

VARIABLES armed,      \* the switch has been started and no stop called since
          overlapped, \* the last start found an earlier watcher still there
          given,      \* the list of the call that started each watcher
          request     \* the list of the call that halted the system

historyVars == <<vars, armed, overlapped, given, request>>

HistoryInit ==
    /\ Init
    /\ armed = FALSE
    /\ overlapped = FALSE
    /\ given = [w \in Watchers |-> {}]
    /\ request = {}

\* No watcher is left from an earlier start and no caller waits for one.
CleanSlate ==
    /\ stopping = NoWatcher
    /\ \A w \in Watchers : IsDone(phase[w])

StartRecorded(w, ids) ==
    /\ StartDeadmanSwitch(w, ids)
    /\ armed' = TRUE
    /\ overlapped' = ~CleanSlate
    /\ given' = [given EXCEPT ![w] = ids]
    /\ request' = request

StopRecorded ==
    /\ StopDeadmanSwitch
    /\ armed' = FALSE
    /\ UNCHANGED <<overlapped, given, request>>

\* A call that asks for a halt of the listed orders; only the first one is heard.
Asked(ids) == request' = IF halted THEN request ELSE ids

\* The callers of trigger_panic_halt, each with its list: override_position, the /stop
\* command, and a watcher that has woken up to a silent oracle.
HaltRecorded ==
    /\ \/ \E ids \in SUBSET Orders : PanicHaltCommand(ids) /\ Asked(ids)
       \/ StopCommand /\ Asked({})
       \/ \E w \in Watchers : WatcherWake(w) /\ Silent /\ Asked(given[w])
    /\ UNCHANGED <<armed, overlapped, given>>

Others ==
    /\ \/ \E w \in Watchers :
              WatcherStart(w) \/ (WatcherWake(w) /\ ~Silent) \/ WatcherCancelled(w)
       \/ \E ids \in SUBSET Orders : StandbyCommand(ids)
       \/ ReceiveHeartbeat
       \/ StopReturns
       \/ \E o \in Orders : Trade(o)
       \/ Tick
    /\ UNCHANGED <<armed, overlapped, given, request>>

HistoryNext ==
    \/ \E w \in Watchers, ids \in SUBSET Orders : StartRecorded(w, ids)
    \/ StopRecorded
    \/ HaltRecorded
    \/ Others

HistorySpec ==
    /\ HistoryInit
    /\ [][HistoryNext]_historyVars
    /\ Fairness

\* A halt cancels the open orders its caller listed, each of them and no other, whoever
\* called: the operator, or a watcher started long before, with other watchers and their
\* lists started since.  Closed orders are spared and the intermediate STANDBY_OVERRIDE is
\* never left behind.
HaltIsExact ==
    [][~halted /\ halted' =>
           \A o \in Orders :
               states'[o] = IF o \in request' /\ states[o] \notin Closed
                            THEN "CANCELLED" ELSE states[o]]_historyVars

\* When stop_deadman_switch returns, every watcher has ended, the one it cancelled
\* included, unless a second start had orphaned one.
StopEndsTheSwitch ==
    [][StopReturns => overlapped \/ \A w \in Watchers : IsDone(phase[w])]_historyVars

\* From the call of stop_deadman_switch on, and not just from its return, the switch
\* does not halt the system, even when the watcher's timer had already expired.
NoHaltAfterStop ==
    [][(\E w \in Watchers : WatcherWake(w)) /\ ~halted /\ halted' =>
           armed \/ overlapped]_historyVars
=============================================================================
