-------------------------- MODULE ControllerProofs --------------------------
(***************************************************************************)
(* ManualCommandController, for every set of orders and watchers and every *)
(* timeout: its type, what a halt does to the order table, how long a      *)
(* silent oracle can go unnoticed, and, with the history of its callers    *)
(* (SwitchHistory), what a stop of the switch is worth.                    *)
(***************************************************************************)
EXTENDS SwitchHistory, TLAPS

\* The two passes of a halt amount to cancelling the listed orders still open.
LEMMA HaltOrdersResult ==
    ASSUME NEW st, NEW ids
    PROVE  HaltOrders(st, ids) =
               [o \in DOMAIN st |-> IF o \in ids /\ st[o] \notin Closed
                                    THEN "CANCELLED" ELSE st[o]]
BY DEF HaltOrders, Pass, Closed

\* A trigger either changes nothing or is a halt of the orders it lists.
LEMMA TriggerTyped ==
    ASSUME TypeOK, NEW ids \in SUBSET Orders, TriggerPanicHalt(ids)
    PROVE  /\ states' \in [Orders -> Fsm!Statuses \cup {Fsm!Absent}]
           /\ halted' \in BOOLEAN
<1>1. CASE halted
  BY <1>1 DEF TriggerPanicHalt, TypeOK
<1>2. CASE ~halted
  <2>1. DOMAIN states = Orders
    BY DEF TypeOK
  <2>2. HaltOrders(states, ids) \in [Orders -> Fsm!Statuses \cup {Fsm!Absent}]
    BY <2>1, HaltOrdersResult DEF TypeOK, Fsm!Statuses
  <2> QED BY <1>2, <2>2 DEF TriggerPanicHalt
<1> QED BY <1>1, <1>2 DEF TypeOK

\* Every state of the controller is well formed.
THEOREM TypeCorrect == Spec => []TypeOK
<1> USE TimeoutAssumption, NoWatcherAssumption
<1>1. Init => TypeOK
  <2>1. 0 \in 0..2 * Timeout /\ 0 \in 0..Timeout /\ "done" \in Phases
    BY DEF Phases
  <2> QED BY <2>1 DEF Init, Fsm!Init, TypeOK
<1>2. TypeOK /\ [Next]_vars => TypeOK'
  <2> SUFFICES ASSUME TypeOK, [Next]_vars PROVE TypeOK'
    OBVIOUS
  <2>1. ASSUME NEW w \in Watchers, NEW ids \in SUBSET Orders, StartDeadmanSwitch(w, ids)
        PROVE  TypeOK'
    BY <2>1 DEF StartDeadmanSwitch, StartAge, OwnList, Phases, TypeOK
  <2>2. ASSUME NEW w \in Watchers, WatcherStart(w) PROVE TypeOK'
    BY <2>2 DEF WatcherStart, LoopHead, SleepTime, Phases, TypeOK
  <2>3. ASSUME NEW w \in Watchers, WatcherWake(w) PROVE TypeOK'
    <3>1. listed[w] \in SUBSET Orders
      BY DEF TypeOK
    <3>2. CASE Silent /\ TriggerPanicHalt(listed[w])
      BY <2>3, <3>1, <3>2, TriggerTyped
         DEF WatcherWake, LoopHead, SleepTime, Phases, TypeOK
    <3>3. CASE ~Silent
      BY <2>3, <3>3 DEF WatcherWake, LoopHead, SleepTime, Phases, TypeOK
    <3> QED BY <2>3, <3>2, <3>3 DEF WatcherWake
  <2>4. ASSUME NEW w \in Watchers, WatcherCancelled(w) PROVE TypeOK'
    BY <2>4 DEF WatcherCancelled, Phases, TypeOK
  <2>5. ASSUME NEW o \in Orders, Trade(o) PROVE TypeOK'
    BY <2>5, MovesAssumption DEF Trade, Fsm!RegisterOrder, Fsm!Transition, Fsm!Statuses, TypeOK
  <2>6. ASSUME NEW ids \in SUBSET Orders, TriggerPanicHalt(ids),
               UNCHANGED <<beatAge, current, phase, timer, listed, stopping>>
        PROVE  TypeOK'
    BY <2>6, TriggerTyped DEF TypeOK
  <2>7. ASSUME NEW ids \in SUBSET Orders, StandbyCommand(ids) PROVE TypeOK'
    BY <2>7 DEF StandbyCommand, Fsm!Statuses, TypeOK
  <2>8. CASE ReceiveHeartbeat
    BY <2>8 DEF ReceiveHeartbeat, TypeOK
  <2>9. CASE StopDeadmanSwitch
    BY <2>9 DEF StopDeadmanSwitch, CancelWatcher, AfterCancel, Phases, TypeOK
  <2>10. CASE StopReturns
    BY <2>10 DEF StopReturns, TypeOK
  <2>11. CASE Tick
    BY <2>11 DEF Tick, TypeOK
  <2>12. CASE UNCHANGED vars
    BY <2>12 DEF vars, TypeOK
  <2> QED
    BY <2>1, <2>2, <2>3, <2>4, <2>5, <2>6, <2>7, <2>8, <2>9, <2>10, <2>11, <2>12
       DEF Next, WatcherStep, Command, PanicHaltCommand, StopCommand
<1> QED BY <1>1, <1>2, PTL DEF Spec
-----------------------------------------------------------------------------
(***************************************************************************)
(* The bound on the silence is not inductive by itself.  What is: the age  *)
(* of the heartbeat plus the rest of a watcher's sleep stays below twice   *)
(* the timeout, and a watcher that has not started yet was created at the  *)
(* age zero its start produced.                                            *)
(***************************************************************************)
SleepInv ==
    \A w \in Watchers : ~halted =>
        /\ phase[w] = "sleeping" => beatAge + timer[w] < 2 * Timeout
        /\ phase[w] = "created" => beatAge = 0

\* Starting, running or stopping the switch, and the beats of the oracle.
LEMMA SwitchKeepsSleepInv ==
    ASSUME TypeOK, SleepInv, NEW w \in Watchers,
           \/ \E ids \in SUBSET Orders : StartDeadmanSwitch(w, ids)
           \/ WatcherStep(w) \/ StopDeadmanSwitch \/ StopReturns \/ ReceiveHeartbeat
    PROVE  SleepInv'
<1> USE TimeoutAssumption DEF TypeOK, SleepInv
<1>1. CASE \E ids \in SUBSET Orders : StartDeadmanSwitch(w, ids)
  BY <1>1 DEF StartDeadmanSwitch, StartAge
<1>2. CASE WatcherStart(w)
  BY <1>2 DEF WatcherStart, LoopHead, SleepTime
<1>3. CASE WatcherWake(w)
  BY <1>3 DEF WatcherWake, LoopHead, SleepTime, Silent, TriggerPanicHalt
<1>4. CASE WatcherCancelled(w)
  BY <1>4 DEF WatcherCancelled
<1>5. CASE StopDeadmanSwitch
  BY <1>5, NoWatcherAssumption DEF StopDeadmanSwitch, CancelWatcher, AfterCancel
<1>6. CASE StopReturns \/ ReceiveHeartbeat
  BY <1>6 DEF StopReturns, ReceiveHeartbeat
<1> QED BY <1>1, <1>2, <1>3, <1>4, <1>5, <1>6 DEF WatcherStep

\* A live watcher of a running system never lets the silence reach twice the
\* timeout.
THEOREM DeadmanBounded == Spec => []DeadmanBound
<1> USE TimeoutAssumption
<1>1. Init => SleepInv
  BY DEF Init, SleepInv
<1>2. TypeOK /\ SleepInv /\ [Next]_vars => SleepInv'
  <2> SUFFICES ASSUME TypeOK, SleepInv, [Next]_vars PROVE SleepInv'
    OBVIOUS
  <2>1. CASE Tick
    BY <2>1 DEF Tick, Ready, SleepInv, TypeOK
  <2>2. ASSUME UNCHANGED <<beatAge, phase, timer>>, halted => halted' PROVE SleepInv'
    BY <2>2 DEF SleepInv
  <2>3. ASSUME NEW ids \in SUBSET Orders,
               PanicHaltCommand(ids) \/ StandbyCommand(ids) \/ StopCommand
        PROVE  SleepInv'
    BY <2>2, <2>3 DEF PanicHaltCommand, StandbyCommand, StopCommand, TriggerPanicHalt
  <2>4. ASSUME NEW o \in Orders, Trade(o) PROVE SleepInv'
    BY <2>2, <2>4 DEF Trade
  <2>5. CASE UNCHANGED vars
    BY <2>2, <2>5 DEF vars
  <2>6. CASE StopDeadmanSwitch \/ StopReturns \/ ReceiveHeartbeat
    <3>1. CASE Watchers = {}
      BY <3>1 DEF SleepInv
    <3>2. CASE Watchers # {}
      BY <2>6, <3>2, SwitchKeepsSleepInv
    <3> QED BY <3>1, <3>2
  <2> QED
    BY <2>1, <2>3, <2>4, <2>5, <2>6, SwitchKeepsSleepInv DEF Next, Command
<1>3. TypeOK /\ SleepInv => DeadmanBound
  BY DEF TypeOK, SleepInv, DeadmanBound, Live
<1> QED BY <1>1, <1>2, <1>3, TypeCorrect, PTL DEF Spec

-----------------------------------------------------------------------------
(***************************************************************************)
(* The controller with the history of its callers.  A step of it is a step *)
(* of the controller, so what is proved above holds of it.                 *)
(***************************************************************************)

\* The history adds no behaviour to the controller.
THEOREM HistoryRefinesController == HistorySpec => Spec
<1>1. HistoryInit => Init
  BY DEF HistoryInit
<1>2. [HistoryNext]_historyVars => [Next]_vars
  BY DEF HistoryNext, StartRecorded, StopRecorded, HaltRecorded, Others, WatcherStep, Next,
         Command, historyVars
<1> QED BY <1>1, <1>2, PTL DEF HistorySpec, Spec

\* A switch that was never started on top of another has one watcher that may not
\* have ended, the one the controller remembers; that is the one a stop waits for,
\* and once the switch is stopped not even that one can halt the system.
SwitchInv ==
    ~overlapped =>
        /\ \A w \in Watchers : ~IsDone(phase[w]) => w = current
        /\ stopping # NoWatcher => stopping = current
        /\ ~armed => \A w \in Watchers : ~Live(phase[w])

\* A step of a watcher revives no watcher and leaves the controller's fields alone.
LEMMA WatcherStepResult ==
    ASSUME TypeOK, NEW w \in Watchers, WatcherStep(w)
    PROVE  /\ UNCHANGED <<current, stopping>>
           /\ \A u \in Watchers : Live(phase'[u]) => Live(phase[u])
           /\ \A u \in Watchers : IsDone(phase[u]) => IsDone(phase'[u])
<1>1. CASE WatcherStart(w)
  BY <1>1 DEF WatcherStart, LoopHead, Live, IsDone, TypeOK
<1>2. CASE WatcherWake(w)
  BY <1>2 DEF WatcherWake, LoopHead, Live, IsDone, TypeOK
<1>3. CASE WatcherCancelled(w)
  BY <1>3 DEF WatcherCancelled, Live, IsDone, TypeOK
<1> QED BY <1>1, <1>2, <1>3 DEF WatcherStep

\* The history's invariant.
THEOREM SwitchInvariant == HistorySpec => [](TypeOK /\ SwitchInv)
<1> USE NoWatcherAssumption
<1>1. HistoryInit => SwitchInv
  BY DEF HistoryInit, Init, SwitchInv, IsDone, Live
<1>2. TypeOK /\ SwitchInv /\ [HistoryNext]_historyVars => SwitchInv'
  <2> SUFFICES ASSUME TypeOK, SwitchInv, [HistoryNext]_historyVars PROVE SwitchInv'
    OBVIOUS
  <2>1. ASSUME NEW w \in Watchers, NEW ids \in SUBSET Orders, StartRecorded(w, ids)
        PROVE  SwitchInv'
    <3> SUFFICES ASSUME CleanSlate PROVE SwitchInv'
      BY <2>1 DEF StartRecorded, SwitchInv
    <3> QED BY <2>1 DEF StartRecorded, StartDeadmanSwitch, CleanSlate, IsDone, SwitchInv, TypeOK
  <2>2. CASE StopRecorded
    <3> SUFFICES ASSUME ~overlapped PROVE SwitchInv'
      BY <2>2 DEF StopRecorded, SwitchInv
    <3>1. /\ current \in Watchers
          /\ phase' = [phase EXCEPT ![current] = AfterCancel(phase[current])]
          /\ stopping' = current
          /\ current' = current
      BY <2>2 DEF StopRecorded, StopDeadmanSwitch, CancelWatcher, TypeOK
    <3>2. ~Live(phase'[current])
      BY <3>1 DEF AfterCancel, Live, TypeOK
    <3>3. \A w \in Watchers : w # current => IsDone(phase[w]) /\ phase'[w] = phase[w]
      BY <3>1 DEF SwitchInv, TypeOK
    <3> QED BY <3>1, <3>2, <3>3 DEF SwitchInv, IsDone, Live
  <2>3. ASSUME NEW w \in Watchers, WatcherStep(w), UNCHANGED <<armed, overlapped>>
        PROVE  SwitchInv'
    BY <2>3, WatcherStepResult DEF SwitchInv
  <2>4. CASE StopReturns /\ UNCHANGED <<armed, overlapped>>
    BY <2>4 DEF StopReturns, SwitchInv
  <2>5. CASE UNCHANGED <<current, phase, stopping, armed, overlapped>>
    BY <2>5 DEF SwitchInv
  <2>6. CASE HaltRecorded
    BY <2>3, <2>5, <2>6 DEF HaltRecorded, WatcherStep, PanicHaltCommand, StopCommand
  <2>7. CASE Others
    BY <2>3, <2>4, <2>5, <2>7
       DEF Others, WatcherStep, StandbyCommand, ReceiveHeartbeat, Trade, Tick
  <2> QED
    BY <2>1, <2>2, <2>5, <2>6, <2>7 DEF HistoryNext, historyVars, vars
<1> QED BY <1>1, <1>2, HistoryRefinesController, TypeCorrect, PTL DEF HistorySpec

\* When a stop returns, every watcher has ended, unless one had been orphaned.
THEOREM StopEnds == HistorySpec => StopEndsTheSwitch
<1>1. TypeOK /\ SwitchInv /\ StopReturns
        => overlapped \/ \A w \in Watchers : IsDone(phase[w])
  BY DEF SwitchInv, StopReturns, Awaited
<1> QED BY <1>1, SwitchInvariant, PTL DEF HistorySpec, StopEndsTheSwitch

\* From the call of a stop on, the switch does not halt the system.
THEOREM StoppedNeverHalts == HistorySpec => NoHaltAfterStop
<1>1. TypeOK /\ SwitchInv /\ (\E w \in Watchers : WatcherWake(w)) => armed \/ overlapped
  BY DEF SwitchInv, WatcherWake, Live
<1> QED BY <1>1, SwitchInvariant, PTL DEF HistorySpec, NoHaltAfterStop
-----------------------------------------------------------------------------
\* Each watcher still has the list its start was called with.
ListsInv == listed = given

\* No start, stop or step of a watcher changes the list of another.
THEOREM ListsInvariant == HistorySpec => []ListsInv
<1>1. HistoryInit => ListsInv
  BY DEF HistoryInit, Init, ListsInv
<1>2. ListsInv /\ [HistoryNext]_historyVars => ListsInv'
  <2> SUFFICES ASSUME ListsInv, [HistoryNext]_historyVars PROVE ListsInv'
    OBVIOUS
  <2>1. ASSUME NEW w \in Watchers, NEW ids \in SUBSET Orders, StartRecorded(w, ids)
        PROVE  ListsInv'
    BY <2>1 DEF StartRecorded, StartDeadmanSwitch, OwnList, ListsInv
  <2>2. CASE StopRecorded
    BY <2>2 DEF StopRecorded, StopDeadmanSwitch, ListsInv
  <2>3. CASE HaltRecorded
    BY <2>3 DEF HaltRecorded, PanicHaltCommand, StopCommand, WatcherWake, ListsInv
  <2>4. CASE Others
    BY <2>4 DEF Others, WatcherStart, WatcherWake, WatcherCancelled, StandbyCommand,
                ReceiveHeartbeat, StopReturns, Trade, Tick, ListsInv
  <2>5. CASE UNCHANGED historyVars
    BY <2>5 DEF historyVars, vars, ListsInv
  <2> QED BY <2>1, <2>2, <2>3, <2>4, <2>5 DEF HistoryNext
<1> QED BY <1>1, <1>2, PTL DEF HistorySpec

\* A halt cancels exactly the open orders on the list of the call that asked for it.
THEOREM HaltsAreExact == HistorySpec => HaltIsExact
<1>1. ASSUME TypeOK, ListsInv, [HistoryNext]_historyVars, ~halted, halted'
      PROVE  \A o \in Orders :
                 states'[o] = IF o \in request' /\ states[o] \notin Closed
                              THEN "CANCELLED" ELSE states[o]
  <2>1. HaltRecorded
    BY <1>1 DEF HistoryNext, historyVars, vars, StartRecorded, StartDeadmanSwitch,
                StopRecorded, StopDeadmanSwitch, Others, WatcherStart, WatcherWake,
                WatcherCancelled, StandbyCommand, ReceiveHeartbeat, StopReturns, Trade, Tick
  <2>2. \E ids : TriggerPanicHalt(ids) /\ request' = ids
    <3>1. ASSUME NEW w \in Watchers, WatcherWake(w), Silent, Asked(given[w])
          PROVE  TriggerPanicHalt(given[w]) /\ request' = given[w]
      BY <1>1, <3>1 DEF WatcherWake, Asked, ListsInv
    <3> QED
      BY <1>1, <2>1, <3>1 DEF HaltRecorded, PanicHaltCommand, StopCommand, Asked
  <2>3. states' = HaltOrders(states, request') /\ DOMAIN states = Orders
    BY <1>1, <2>2 DEF TriggerPanicHalt, TypeOK
  <2> QED BY <2>3, HaltOrdersResult
<1> QED
  BY <1>1, SwitchInvariant, ListsInvariant, PTL DEF HistorySpec, HaltIsExact
=============================================================================
