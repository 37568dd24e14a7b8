------------------------ MODULE ExecutionAgentProofs ------------------------
(***************************************************************************)
(* ExecutionAgent, for every set of orders and tasks and every timeout:    *)
(* its type, the liveness of the registry's entries, that no partially     *)
(* filled order is forgotten, and, for the orders whose reports came in    *)
(* order (ReportHistory), that a final report ends every watch and that no *)
(* cancellation is asked for early.                                        *)
(***************************************************************************)
EXTENDS ReportHistory, TLAPS

\* The events the handlers publish are events of the bus.
LEMMA EventsTyped ==
    ASSUME NEW o \in Orders
    PROVE  /\ \A s \in Fsm!Statuses : ReportEvent(o, s) \in Events
           /\ CancelEvent(o) \in Events
BY DEF Events

\* The result of a cancel() is a phase, and only a task that is done stays done.
LEMMA AfterCancelTyped ==
    ASSUME NEW p \in Phases
    PROVE  AfterCancel(p) \in Phases /\ ~Live(AfterCancel(p))
BY DEF AfterCancel, Live, Phases

\* Every state of the agent is well formed.
THEOREM TypeCorrect == Spec => []TypeOK
<1>1. Init => TypeOK
  BY OrdersAssumption, GcTimeoutAssumption DEF Init, TypeOK, Fsm!Init, Phases
<1>2. TypeOK /\ [Next]_vars => TypeOK'
  <2> SUFFICES ASSUME TypeOK, [Next]_vars PROVE TypeOK'
    OBVIOUS
  <2> USE GcTimeoutAssumption, NoTaskAssumption
  <2>1. ASSUME NEW o \in Orders, NEW s \in ReportStatuses, HandleExecutionReport(o, s)
        PROVE  TypeOK'
    <3>1. s \in Fsm!Statuses
      BY ReportStatusesAssumption
    <3>2. states' \in [Orders -> Fsm!Statuses \cup {Fsm!Absent}]
      BY <2>1, <3>1 DEF HandleExecutionReport, Fsm!Transition, TypeOK
    <3>3. bus' \in Seq(Events)
      BY <2>1, <3>1, EventsTyped DEF HandleExecutionReport, TypeOK
    <3>4. /\ monitor' \in [Orders -> Tasks \cup {NoTask}]
          /\ phase' \in [Tasks -> Phases]
          /\ owner' \in [Tasks -> Orders]
          /\ timer' \in [Tasks -> 0..GcTimeout]
      <4>1. CASE s = "PARTIAL" /\ WatchPartial(o)
        <5>1. ASSUME NEW t \in Tasks, StartGc(t, o)
              PROVE  /\ monitor' \in [Orders -> Tasks \cup {NoTask}]
                     /\ phase' \in [Tasks -> Phases]
                     /\ owner' \in [Tasks -> Orders]
                     /\ timer' \in [Tasks -> 0..GcTimeout]
          BY <5>1 DEF StartGc, Phases, TypeOK
        <5>2. CASE UNCHANGED <<monitor, phase, owner, timer>>
          BY <5>2 DEF TypeOK
        <5> QED BY <4>1, <5>1, <5>2 DEF WatchPartial
      <4>2. CASE s \in Final /\ StopGc(o)
        BY <4>2, AfterCancelTyped DEF StopGc, TypeOK
      <4>3. CASE UNCHANGED <<monitor, phase, owner, timer>>
        BY <4>3 DEF TypeOK
      <4> QED BY <2>1, <4>1, <4>2, <4>3 DEF HandleExecutionReport
    <3>5. cancelSent' \in [Orders -> BOOLEAN]
      BY <2>1 DEF HandleExecutionReport, TypeOK
    <3> QED BY <3>2, <3>3, <3>4, <3>5 DEF TypeOK
  <2>2. ASSUME NEW t \in Tasks, GcStart(t) PROVE TypeOK'
    BY <2>2 DEF GcStart, SleepTime, Phases, TypeOK
  <2>3. ASSUME NEW t \in Tasks, GcWake(t) PROVE TypeOK'
    <3>1. owner[t] \in Orders
      BY DEF TypeOK
    <3>2. bus' \in Seq(Events)
      <4>1. CancelEvent(owner[t]) \in Events
        BY <3>1, EventsTyped
      <4>2. bus' = bus \/ bus' = Append(bus, CancelEvent(owner[t]))
        BY <2>3 DEF GcWake
      <4>3. bus \in Seq(Events)
        BY DEF TypeOK
      <4>4. Append(bus, CancelEvent(owner[t])) \in Seq(Events)
        BY <4>1, <4>3
      <4> QED BY <4>2, <4>3, <4>4
    <3>3. cancelSent' \in [Orders -> BOOLEAN]
      BY <2>3, <3>1 DEF GcWake, TypeOK
    <3> QED BY <2>3, <3>1, <3>2, <3>3 DEF GcWake, Unregister, Phases, TypeOK
  <2>4. ASSUME NEW t \in Tasks, GcCancelled(t) PROVE TypeOK'
    BY <2>4 DEF GcCancelled, Unregister, Phases, TypeOK
  <2>5. ASSUME NEW t \in Tasks, GcAborted(t) PROVE TypeOK'
    BY <2>5 DEF GcAborted, Phases, TypeOK
  <2>6. ASSUME NEW o \in Orders, Register(o) \/ Override(o) PROVE TypeOK'
    BY <2>6 DEF Register, Override, Fsm!RegisterOrder, Fsm!Transition, Fsm!Statuses, TypeOK
  <2>7. CASE Tick
    BY <2>7 DEF Tick, TypeOK
  <2>8. CASE Consume
    BY <2>8 DEF Consume, TypeOK
  <2>9. CASE UNCHANGED vars
    BY <2>9 DEF vars, TypeOK
  <2> QED
    BY <2>1, <2>2, <2>3, <2>4, <2>5, <2>6, <2>7, <2>8, <2>9 DEF Next, GcStep
<1> QED BY <1>1, <1>2, PTL DEF Spec
-----------------------------------------------------------------------------
(***************************************************************************)
(* The two halves of the registry's contract are inductive together: the   *)
(* entries name live tasks, so a PARTIAL report that finds an entry has    *)
(* found a task that will look at the order again.                         *)
(***************************************************************************)
WatchInv == MonitorLive /\ NoForgottenPartial

\* A report keeps the entries live and leaves no PARTIAL order unwatched.
LEMMA ReportKeepsWatch ==
    ASSUME TypeOK, WatchInv, NEW o \in Orders, NEW s \in ReportStatuses,
           HandleExecutionReport(o, s)
    PROVE  WatchInv'
<1> USE NoTaskAssumption DEF WatchInv
<1>0. /\ states' = [states EXCEPT ![o] = s]
      /\ cancelSent' = IF s = "PARTIAL" THEN [cancelSent EXCEPT ![o] = FALSE]
                                        ELSE cancelSent
  BY DEF HandleExecutionReport, Fsm!Transition
<1>1. ASSUME s = "PARTIAL", NEW t \in Tasks, phase[t] = "done", StartGc(t, o)
      PROVE  WatchInv'
  <2>1. /\ monitor' = [monitor EXCEPT ![o] = t]
        /\ phase' = [phase EXCEPT ![t] = "created"]
        /\ owner' = [owner EXCEPT ![t] = o]
    BY <1>1 DEF StartGc
  <2>2. t \in LiveTasks(o)'
    BY <2>1 DEF TypeOK, LiveTasks, Live
  <2>3. \A u \in Tasks \ {t} : \A x \in Orders :
            u \in LiveTasks(x) => u \in LiveTasks(x)'
    BY <2>1 DEF TypeOK, LiveTasks
  <2>4. \A x \in Orders : t \notin LiveTasks(x)
    BY <1>1 DEF LiveTasks, Live
  <2>5. MonitorLive'
    BY <2>1, <2>2, <2>3, <2>4 DEF MonitorLive, TypeOK
  <2>6. NoForgottenPartial'
    <3> SUFFICES ASSUME NEW x \in Orders, x # o, states'[x] = "PARTIAL",
                        ~cancelSent'[x]
                 PROVE  LiveTasks(x)' # {}
      BY <2>2 DEF NoForgottenPartial
    <3>1. LiveTasks(x) # {}
      BY <1>0 DEF NoForgottenPartial, TypeOK
    <3> QED BY <3>1, <2>3, <2>4 DEF LiveTasks
  <2> QED BY <2>5, <2>6
<1>2. ASSUME s = "PARTIAL", monitor[o] # NoTask,
             UNCHANGED <<monitor, phase, owner, timer>>
      PROVE  WatchInv'
  <2>1. \A x \in Orders : LiveTasks(x)' = LiveTasks(x)
    BY <1>2 DEF LiveTasks
  <2>2. LiveTasks(o) # {}
    BY <1>2 DEF MonitorLive
  <2> QED BY <1>0, <1>2, <2>1, <2>2 DEF MonitorLive, NoForgottenPartial, TypeOK
<1>3. ASSUME s \in Final, StopGc(o)
      PROVE  WatchInv'
  <2>1. /\ monitor' = [monitor EXCEPT ![o] = NoTask]
        /\ owner' = owner
        /\ s # "PARTIAL"
    BY <1>3 DEF StopGc, Final
  <2>2. \A u \in Tasks : u # monitor[o] => phase'[u] = phase[u]
    BY <1>3 DEF StopGc, TypeOK
  <2>3. ASSUME NEW x \in Orders \ {o}, NEW u \in LiveTasks(x)
        PROVE  u \in LiveTasks(x)'
    <3>1. u \in Tasks /\ owner[u] = x /\ u # monitor[o]
      BY DEF MonitorLive, LiveTasks
    <3> QED BY <2>1, <2>2, <3>1 DEF LiveTasks
  <2>4. MonitorLive'
    BY <2>1, <2>3 DEF MonitorLive, TypeOK
  <2>5. NoForgottenPartial'
    BY <1>0, <2>1, <2>3 DEF NoForgottenPartial, TypeOK
  <2> QED BY <2>4, <2>5
<1>4. ASSUME s \notin Final \cup {"PARTIAL"},
             UNCHANGED <<monitor, phase, owner, timer>>
      PROVE  WatchInv'
  <2>1. \A x \in Orders : LiveTasks(x)' = LiveTasks(x)
    BY <1>4 DEF LiveTasks
  <2> QED BY <1>0, <1>4, <2>1 DEF MonitorLive, NoForgottenPartial, TypeOK
<1> QED BY <1>1, <1>2, <1>3, <1>4 DEF HandleExecutionReport, WatchPartial

\* A step of a watching task keeps them: a task that ends was either no longer
\* live, or has published the cancellation of an order still PARTIAL.
LEMMA TaskKeepsWatch ==
    ASSUME TypeOK, WatchInv, NEW t \in Tasks, GcStep(t)
    PROVE  WatchInv'
<1> USE NoTaskAssumption DEF WatchInv
<1>1. CASE GcStart(t)
  <2>1. \A x \in Orders : LiveTasks(x)' = LiveTasks(x)
    BY <1>1 DEF GcStart, LiveTasks, Live, TypeOK
  <2> QED BY <1>1, <2>1 DEF GcStart, MonitorLive, NoForgottenPartial
<1>2. CASE GcWake(t)
  <2>1. /\ phase' = [phase EXCEPT ![t] = "done"]
        /\ monitor' = [monitor EXCEPT ![owner[t]] = NoTask]
        /\ owner' = owner
        /\ states' = states
    BY <1>2 DEF GcWake, Unregister
  <2>2. \A x \in Orders : LiveTasks(x)' = LiveTasks(x) \ {t}
    BY <2>1 DEF LiveTasks, Live, TypeOK
  <2>3. \A x \in Orders : x # owner[t] => LiveTasks(x)' = LiveTasks(x)
    BY <2>2 DEF LiveTasks
  <2>4. MonitorLive'
    BY <2>1, <2>3 DEF MonitorLive, TypeOK
  <2>5. states[owner[t]] = "PARTIAL" => cancelSent'[owner[t]]
    BY <1>2 DEF GcWake, Fsm!GetStatus, TypeOK
  <2>6. \A x \in Orders : x # owner[t] => cancelSent'[x] = cancelSent[x]
    BY <1>2 DEF GcWake, TypeOK
  <2> QED BY <2>1, <2>3, <2>4, <2>5, <2>6 DEF NoForgottenPartial
<1>3. CASE GcCancelled(t) \/ GcAborted(t)
  <2>1. ~Live(phase[t])
    BY <1>3 DEF GcCancelled, GcAborted, Live
  <2>2. /\ phase' = [phase EXCEPT ![t] = "done"]
        /\ owner' = owner
        /\ states' = states
        /\ cancelSent' = cancelSent
        /\ monitor' = monitor \/ Unregister(owner[t])
    BY <1>3 DEF GcCancelled, GcAborted
  <2>3. \A x \in Orders : LiveTasks(x)' = LiveTasks(x)
    BY <2>1, <2>2 DEF LiveTasks, Live, TypeOK
  <2>4. MonitorLive'
    BY <2>2, <2>3 DEF MonitorLive, Unregister, TypeOK
  <2> QED BY <2>2, <2>3, <2>4 DEF NoForgottenPartial
<1> QED BY <1>1, <1>2, <1>3 DEF GcStep

\* Nothing else touches the registry, the tasks or the requests, and no other
\* writer of the order table makes an order PARTIAL.
LEMMA OthersKeepWatch ==
    ASSUME TypeOK, WatchInv,
           \/ \E o \in Orders : Register(o) \/ Override(o)
           \/ Tick \/ Consume \/ UNCHANGED vars
    PROVE  WatchInv'
<1>1. /\ UNCHANGED <<monitor, phase, owner, cancelSent>>
      /\ \A x \in Orders : states'[x] = "PARTIAL" => states[x] = "PARTIAL"
  BY DEF Register, Override, Tick, Consume, vars, Fsm!RegisterOrder, Fsm!Transition,
         TypeOK
<1>2. \A x \in Orders : LiveTasks(x)' = LiveTasks(x)
  BY <1>1 DEF LiveTasks
<1> QED BY <1>1, <1>2 DEF WatchInv, MonitorLive, NoForgottenPartial

\* An order left PARTIAL is always watched or has had its cancellation published,
\* whatever the order, the loss or the repetition of the broker's reports.
THEOREM NothingForgotten == Spec => [](MonitorLive /\ NoForgottenPartial)
<1>1. Init => WatchInv
  BY DEF Init, Fsm!Init, Fsm!Absent, WatchInv, MonitorLive, NoForgottenPartial
<1>2. TypeOK /\ WatchInv /\ [Next]_vars => WatchInv'
  BY ReportKeepsWatch, TaskKeepsWatch, OthersKeepWatch DEF Next
<1>3. WatchInv => MonitorLive /\ NoForgottenPartial
  BY DEF WatchInv
<1> QED BY <1>1, <1>2, <1>3, TypeCorrect, PTL DEF Spec
-----------------------------------------------------------------------------
(***************************************************************************)
(* The agent implements the abstract watch: Watched, the orders with a     *)
(* live task, is what the tasks, timers and registry amount to.            *)
(***************************************************************************)

\* A report is a PartialFill or a Move of the abstract watch.
LEMMA ReportImplements ==
    ASSUME TypeOK, MonitorLive, NEW o \in Orders, NEW s \in ReportStatuses,
           HandleExecutionReport(o, s)
    PROVE  Watch!PartialFill(o) \/ Watch!Move(o)
<1> USE NoTaskAssumption
<1>0. /\ s \in Fsm!Statuses
      /\ states' = [states EXCEPT ![o] = s]
      /\ s = "PARTIAL" => cancelSent' = [cancelSent EXCEPT ![o] = FALSE]
      /\ s # "PARTIAL" => cancelSent' = cancelSent
  BY ReportStatusesAssumption DEF HandleExecutionReport, Fsm!Transition
<1>1. ASSUME s = "PARTIAL", NEW t \in Tasks, phase[t] = "done", StartGc(t, o)
      PROVE  Watched' = Watched \cup {o}
  <2>1. \A x \in Orders : LiveTasks(x)' = IF x = o THEN LiveTasks(x) \cup {t}
                                                   ELSE LiveTasks(x)
    BY <1>1 DEF StartGc, LiveTasks, Live, TypeOK
  <2> QED BY <2>1 DEF Watched
<1>2. ASSUME UNCHANGED <<monitor, phase, owner, timer>>
      PROVE  Watched' = Watched
  BY <1>2 DEF Watched, LiveTasks
<1>3. ASSUME s = "PARTIAL", monitor[o] # NoTask
      PROVE  o \in Watched
  BY <1>3 DEF MonitorLive, Watched
<1>4. ASSUME s \in Final, StopGc(o)
      PROVE  Watched' = Watched \/ Watched' = Watched \ {o}
  <2>1. CASE monitor[o] = NoTask
    BY <1>4, <2>1 DEF StopGc, Watched, LiveTasks
  <2>2. CASE monitor[o] # NoTask
    <3>1. monitor[o] \in Tasks /\ owner[monitor[o]] = o
      BY <2>2 DEF MonitorLive, LiveTasks
    <3>2. \A x \in Orders : x # o => LiveTasks(x)' = LiveTasks(x)
      BY <1>4, <3>1 DEF StopGc, LiveTasks, TypeOK
    <3>3. o \in Watched
      BY <2>2 DEF MonitorLive, Watched
    <3>4. CASE LiveTasks(o)' = {}
      BY <3>2, <3>4 DEF Watched
    <3>5. CASE LiveTasks(o)' # {}
      BY <3>2, <3>3, <3>5 DEF Watched
    <3> QED BY <3>4, <3>5
  <2> QED BY <2>1, <2>2
<1>5. CASE s = "PARTIAL"
  <2>1. Watched' = Watched \cup {o}
    BY <1>5, <1>1, <1>2, <1>3 DEF HandleExecutionReport, WatchPartial, Final
  <2> QED BY <1>0, <1>5, <2>1 DEF Watch!PartialFill
<1>6. CASE s # "PARTIAL"
  <2>1. \/ Watched' = Watched
        \/ s \in Final /\ Watched' = Watched \ {o}
    BY <1>6, <1>2, <1>4 DEF HandleExecutionReport
  <2> QED BY <1>0, <1>6, <2>1 DEF Watch!Move
<1> QED BY <1>5, <1>6

\* A step of a task is an Ask, a Dismiss or nothing to the abstract watch.
LEMMA TaskImplements ==
    ASSUME TypeOK, NEW t \in Tasks, GcStep(t)
    PROVE  \/ Watch!Ask(owner[t]) \/ Watch!Dismiss(owner[t])
           \/ UNCHANGED Watch!vars
<1>1. CASE GcStart(t)
  <2>1. \A x \in Orders : LiveTasks(x)' = LiveTasks(x)
    BY <1>1 DEF GcStart, LiveTasks, Live, TypeOK
  <2> QED BY <1>1, <2>1 DEF GcStart, Watched, Watch!vars
<1>2. CASE GcWake(t)
  <2>1. /\ owner[t] \in Orders
        /\ owner[t] \in Watched
    BY <1>2 DEF GcWake, Watched, LiveTasks, Live, TypeOK
  <2>2. \A x \in Orders : LiveTasks(x)' = LiveTasks(x) \ {t}
    BY <1>2 DEF GcWake, LiveTasks, Live, TypeOK
  <2>3. Watched' = Watched \/ Watched' = Watched \ {owner[t]}
    BY <2>2 DEF Watched, LiveTasks
  <2>4. CASE states[owner[t]] = "PARTIAL"
    BY <1>2, <2>1, <2>3, <2>4 DEF GcWake, Fsm!GetStatus, Watch!Ask
  <2>5. CASE states[owner[t]] # "PARTIAL"
    BY <1>2, <2>3, <2>5 DEF GcWake, Fsm!GetStatus, Watch!Dismiss, Watch!vars
  <2> QED BY <2>4, <2>5
<1>3. CASE GcCancelled(t) \/ GcAborted(t)
  <2>1. \A x \in Orders : LiveTasks(x)' = LiveTasks(x)
    BY <1>3 DEF GcCancelled, GcAborted, LiveTasks, Live, TypeOK
  <2> QED BY <1>3, <2>1 DEF GcCancelled, GcAborted, Watched, Watch!vars
<1> QED BY <1>1, <1>2, <1>3 DEF GcStep

\* The other agents move orders; the clock and the bus are invisible.
LEMMA OthersImplement ==
    ASSUME TypeOK,
           \/ \E o \in Orders : Register(o) \/ Override(o)
           \/ Tick \/ Consume \/ UNCHANGED vars
    PROVE  (\E o \in Orders : Watch!Move(o)) \/ UNCHANGED Watch!vars
<1>1. Watched' = Watched /\ cancelSent' = cancelSent
  BY DEF Register, Override, Tick, Consume, vars, Watched, LiveTasks
<1>2. ASSUME NEW o \in Orders, Register(o) \/ Override(o)
      PROVE  Watch!Move(o) \/ UNCHANGED Watch!vars
  BY <1>1, <1>2 DEF Register, Override, Fsm!RegisterOrder, Fsm!Transition,
                    Fsm!Statuses, Watch!Move, Watch!vars
<1>3. CASE Tick \/ Consume \/ UNCHANGED vars
  BY <1>1, <1>3 DEF Tick, Consume, vars, Watch!vars
<1> QED BY <1>2, <1>3

\* Every behaviour of the agent is one of the abstract watch.
THEOREM ImplementsWatchSafety == Spec => Watch!Safety
<1>1. Init => Watch!Init
  BY DEF Init, Fsm!Init, Fsm!Absent, Watch!Init, Watched, LiveTasks, Live
<1>2. TypeOK /\ MonitorLive /\ [Next]_vars => [Watch!Next]_(Watch!vars)
  <2> SUFFICES ASSUME TypeOK, MonitorLive, [Next]_vars
               PROVE  Watch!Next \/ UNCHANGED Watch!vars
    OBVIOUS
  <2>1. ASSUME NEW o \in Orders, NEW s \in ReportStatuses, HandleExecutionReport(o, s)
        PROVE  Watch!Next
    BY <2>1, ReportImplements DEF Watch!Next
  <2>2. ASSUME NEW t \in Tasks, GcStep(t)
        PROVE  Watch!Next \/ UNCHANGED Watch!vars
    <3>1. owner[t] \in Orders
      BY DEF TypeOK
    <3> QED BY <2>2, <3>1, TaskImplements DEF Watch!Next
  <2>3. CASE \/ \E o \in Orders : Register(o) \/ Override(o)
             \/ Tick \/ Consume \/ UNCHANGED vars
    BY <2>3, OthersImplement DEF Watch!Next
  <2> QED BY <2>1, <2>2, <2>3 DEF Next
<1> QED BY <1>1, <1>2, TypeCorrect, NothingForgotten, PTL DEF Spec, Watch!Safety
-----------------------------------------------------------------------------
(***************************************************************************)
(* The agent with the history of its reports.  A step of it is a step of   *)
(* the agent, so what is proved above holds of it.                         *)
(***************************************************************************)

\* The history adds no behaviour to the agent.
THEOREM HistoryRefinesAgent == HistorySpec => Spec
<1>1. HistoryInit => Init
  BY DEF HistoryInit
<1>2. [HistoryNext]_historyVars => [Next]_vars
  BY DEF HistoryNext, ReportRecorded, Time, Others, Next, historyVars
<1> QED BY <1>1, <1>2, PTL DEF HistorySpec, Spec

\* The history has the shape its updates rely on.
HistoryTypeOK ==
    /\ spell \in [Orders -> 0..NoSpell]
    /\ closed \in SUBSET Orders
    /\ disordered \in SUBSET closed

\* Until an order has its final report, the only task that has not ended is the
\* one in its entry; afterwards no task watches it.
OneWatch ==
    \A o \in Orders \ disordered :
        /\ o \in closed => LiveTasks(o) = {}
        /\ o \notin closed =>
              \A t \in Tasks : owner[t] = o /\ phase[t] # "done" => t = monitor[o]

\* A task that sleeps for an order has no more to sleep than its spell lacks.
SleepMatchesSpell ==
    \A o \in Orders \ disordered : \A t \in LiveTasks(o) :
        /\ spell[o] <= GcTimeout
        /\ phase[t] = "sleeping" => timer[t] + spell[o] >= GcTimeout

HistoryInv == HistoryTypeOK /\ OneWatch /\ SleepMatchesSpell

\* A report recorded in the history keeps its invariant.
LEMMA ReportKeepsHistory ==
    ASSUME TypeOK, MonitorLive, HistoryInv, NEW o \in Orders,
           NEW s \in ReportStatuses, ReportRecorded(o, s)
    PROVE  HistoryInv'
<1> USE NoTaskAssumption, GcTimeoutAssumption DEF HistoryInv
<1>1. HandleExecutionReport(o, s)
  BY DEF ReportRecorded
<1>2. /\ closed' = IF s \in Final THEN closed \cup {o} ELSE closed
      /\ disordered' = disordered \cup ({o} \cap closed)
  BY DEF ReportRecorded
<1>3. /\ spell' \in [Orders -> 0..NoSpell]
      /\ \A x \in Orders : x # o => spell'[x] = spell[x]
      /\ s = "PARTIAL" /\ o \notin closed => spell'[o] <= GcTimeout
      /\ s # "PARTIAL" /\ s \notin Final /\ o \notin closed => spell'[o] = spell[o]
      /\ s = "PARTIAL" /\ o \notin closed /\ spell[o] <= GcTimeout
            => spell'[o] = spell[o]
  <2>1. spell \in [Orders -> 0..NoSpell] /\ NoSpell \in Nat /\ NoSpell = GcTimeout + 1
    BY DEF HistoryTypeOK, NoSpell
  <2>2. spell' = [spell EXCEPT ![o] =
                      IF s \in Final \/ o \in closed THEN NoSpell
                      ELSE IF s = "PARTIAL" /\ spell[o] = NoSpell THEN 0 ELSE spell[o]]
    BY DEF ReportRecorded
  <2> QED BY <2>1, <2>2 DEF Final
<1>4. HistoryTypeOK'
  BY <1>2, <1>3 DEF HistoryTypeOK
<1>5. ASSUME s = "PARTIAL", NEW t \in Tasks, phase[t] = "done", StartGc(t, o),
             monitor[o] = NoTask
      PROVE  OneWatch' /\ SleepMatchesSpell'
  <2>1. /\ monitor' = [monitor EXCEPT ![o] = t]
        /\ phase' = [phase EXCEPT ![t] = "created"]
        /\ owner' = [owner EXCEPT ![t] = o]
        /\ timer' = timer
        /\ closed' = closed
    BY <1>2, <1>5 DEF StartGc, Final
  <2>2. \A x \in Orders \ {o} : LiveTasks(x)' = LiveTasks(x)
    BY <1>5, <2>1 DEF LiveTasks, Live, TypeOK
  <2>3. OneWatch'
    BY <1>2, <1>5, <2>1, <2>2 DEF OneWatch, TypeOK
  <2>4. SleepMatchesSpell'
    <3> SUFFICES ASSUME NEW x \in Orders, x \notin disordered', NEW u \in LiveTasks(x)'
                 PROVE  /\ spell'[x] <= GcTimeout
                        /\ phase'[u] = "sleeping" => timer'[u] + spell'[x] >= GcTimeout
      BY DEF SleepMatchesSpell
    <3>1. CASE x = o
      <4>1. o \notin closed
        BY <1>2, <3>1
      <4>2. u = t
        <5>1. u = monitor'[o]
          BY <2>1, <2>3, <3>1, <4>1 DEF OneWatch, LiveTasks, Live
        <5> QED BY <5>1, <2>1 DEF TypeOK
      <4>3. phase'[u] = "created"
        BY <2>1, <4>2 DEF TypeOK
      <4> QED BY <1>3, <1>5, <3>1, <4>1, <4>3
    <3>2. CASE x # o
      <4>1. u \in LiveTasks(x) /\ x \notin disordered /\ spell'[x] = spell[x]
        BY <1>2, <1>3, <2>2, <3>2
      <4>2. u # t /\ phase'[u] = phase[u] /\ timer'[u] = timer[u]
        BY <1>5, <2>1, <4>1 DEF LiveTasks, Live, TypeOK
      <4> QED BY <4>1, <4>2 DEF SleepMatchesSpell
    <3> QED BY <3>1, <3>2
  <2> QED BY <2>3, <2>4
<1>6. ASSUME s \notin Final, UNCHANGED <<monitor, phase, owner, timer>>
      PROVE  OneWatch' /\ SleepMatchesSpell'
  <2>1. \A x \in Orders : LiveTasks(x)' = LiveTasks(x)
    BY <1>6 DEF LiveTasks
  <2>2. OneWatch'
    BY <1>2, <1>6, <2>1 DEF OneWatch
  <2>3. \A x \in Orders \ disordered' : \A t \in LiveTasks(x) : spell'[x] = spell[x]
    BY <1>2, <1>3, <1>6 DEF SleepMatchesSpell
  <2> QED BY <1>2, <1>6, <2>1, <2>2, <2>3 DEF SleepMatchesSpell
<1>7. ASSUME s \in Final, StopGc(o)
      PROVE  OneWatch' /\ SleepMatchesSpell'
  <2>1. /\ monitor' = [monitor EXCEPT ![o] = NoTask]
        /\ owner' = owner
        /\ closed' = closed \cup {o}
    BY <1>2, <1>7 DEF StopGc
  <2>2. \A u \in Tasks : u # monitor[o] => phase'[u] = phase[u] /\ timer'[u] = timer[u]
    BY <1>7 DEF StopGc, TypeOK
  <2>3. monitor[o] # NoTask => owner[monitor[o]] = o /\ ~Live(phase'[monitor[o]])
    BY <1>7, AfterCancelTyped DEF StopGc, MonitorLive, LiveTasks, TypeOK
  <2>4. \A x \in Orders \ {o} : LiveTasks(x)' = LiveTasks(x)
    <3> SUFFICES ASSUME NEW x \in Orders \ {o}, NEW u \in Tasks, owner[u] = x
                 PROVE  Live(phase'[u]) <=> Live(phase[u])
      BY <2>1 DEF LiveTasks
    <3>1. u # monitor[o]
      BY <2>3
    <3> QED BY <2>2, <3>1
  <2>5. o \notin disordered' => LiveTasks(o)' = {}
    BY <1>2, <2>1, <2>2, <2>3 DEF OneWatch, LiveTasks, Live, TypeOK
  <2>6. OneWatch'
    <3> SUFFICES ASSUME NEW x \in Orders, x # o, x \notin disordered', x \notin closed',
                        NEW u \in Tasks, owner'[u] = x, phase'[u] # "done"
                 PROVE  u = monitor'[x]
      BY <1>2, <2>1, <2>4, <2>5 DEF OneWatch
    <3>1. u # monitor[o]
      BY <2>1, <2>3, NoTaskAssumption
    <3> QED BY <1>2, <2>1, <2>2, <3>1 DEF OneWatch, TypeOK
  <2>7. SleepMatchesSpell'
    <3> SUFFICES ASSUME NEW x \in Orders, x # o, x \notin disordered',
                        NEW u \in LiveTasks(x)
                 PROVE  /\ spell'[x] <= GcTimeout
                        /\ phase'[u] = "sleeping" => timer'[u] + spell'[x] >= GcTimeout
      BY <2>4, <2>5 DEF SleepMatchesSpell
    <3>1. u \in Tasks /\ u # monitor[o]
      BY <2>3, NoTaskAssumption DEF LiveTasks
    <3> QED BY <1>2, <1>3, <2>2, <3>1 DEF SleepMatchesSpell
  <2> QED BY <2>6, <2>7
<1> QED BY <1>1, <1>4, <1>5, <1>6, <1>7 DEF HandleExecutionReport, WatchPartial, Final

\* So does a step of a task: it ends a task or starts a whole timeout.
LEMMA TaskKeepsHistory ==
    ASSUME TypeOK, HistoryInv, NEW t \in Tasks, GcStep(t),
           UNCHANGED <<spell, closed, disordered>>
    PROVE  HistoryInv'
<1> USE NoTaskAssumption, GcTimeoutAssumption DEF HistoryInv
<1>1. HistoryTypeOK'
  BY DEF HistoryTypeOK
<1>2. CASE GcStart(t)
  <2>1. /\ phase' = [phase EXCEPT ![t] = "sleeping"]
        /\ timer' = [timer EXCEPT ![t] = GcTimeout]
        /\ phase[t] = "created"
        /\ UNCHANGED <<monitor, owner>>
    BY <1>2 DEF GcStart, SleepTime
  <2>2. \A x \in Orders : LiveTasks(x)' = LiveTasks(x)
    BY <2>1 DEF LiveTasks, Live, TypeOK
  <2>3. OneWatch'
    BY <2>1, <2>2 DEF OneWatch, TypeOK
  <2>4. SleepMatchesSpell'
    BY <2>1, <2>2 DEF SleepMatchesSpell, LiveTasks, HistoryTypeOK, TypeOK
  <2> QED BY <1>1, <2>3, <2>4
<1>3. CASE GcWake(t) \/ GcCancelled(t) \/ GcAborted(t)
  <2>1. /\ phase' = [phase EXCEPT ![t] = "done"]
        /\ monitor' = [monitor EXCEPT ![owner[t]] = NoTask] \/ monitor' = monitor
        /\ UNCHANGED <<owner, timer>>
        /\ phase[t] # "done"
    BY <1>3 DEF GcWake, GcCancelled, GcAborted, Unregister
  <2>2. \A x \in Orders : LiveTasks(x)' = LiveTasks(x) \ {t}
    BY <2>1 DEF LiveTasks, Live, TypeOK
  <2>3. OneWatch'
    BY <2>1, <2>2 DEF OneWatch, TypeOK
  <2>4. SleepMatchesSpell'
    BY <2>1, <2>2 DEF SleepMatchesSpell, LiveTasks, TypeOK
  <2> QED BY <1>1, <2>3, <2>4
<1> QED BY <1>2, <1>3 DEF GcStep

\* The clock takes from a sleep what it adds to the spell.
LEMMA TimeKeepsHistory ==
    ASSUME TypeOK, HistoryInv, Time
    PROVE  HistoryInv'
<1> USE GcTimeoutAssumption DEF HistoryInv
<1>1. /\ spell' = [o \in Orders |-> IF spell[o] < GcTimeout
                                    THEN spell[o] + 1 ELSE spell[o]]
      /\ timer' = [t \in Tasks |-> IF phase[t] = "sleeping" /\ timer[t] > 0
                                   THEN timer[t] - 1 ELSE timer[t]]
      /\ UNCHANGED <<monitor, phase, owner, closed, disordered>>
  BY DEF Time, Tick
<1>2. \A x \in Orders : LiveTasks(x)' = LiveTasks(x)
  BY <1>1 DEF LiveTasks
<1>3. HistoryTypeOK'
  BY <1>1 DEF HistoryTypeOK, NoSpell
<1>4. OneWatch'
  BY <1>1, <1>2 DEF OneWatch
<1>5. SleepMatchesSpell'
  BY <1>1, <1>2 DEF SleepMatchesSpell, LiveTasks, HistoryTypeOK, NoSpell, TypeOK
<1> QED BY <1>3, <1>4, <1>5

\* The invariant of the agent and of its history.
THEOREM HistoryInvariant == HistorySpec => [](TypeOK /\ MonitorLive /\ HistoryInv)
<1>1. HistoryInit => HistoryInv
  BY GcTimeoutAssumption
  DEF HistoryInit, Init, HistoryInv, HistoryTypeOK, OneWatch, SleepMatchesSpell, NoSpell,
      LiveTasks, Live
<1>2. TypeOK /\ MonitorLive /\ HistoryInv /\ [HistoryNext]_historyVars => HistoryInv'
  <2> SUFFICES ASSUME TypeOK, MonitorLive, HistoryInv, [HistoryNext]_historyVars
               PROVE  HistoryInv'
    OBVIOUS
  <2>1. ASSUME NEW t \in Tasks, GcStep(t), UNCHANGED <<spell, closed, disordered>>
        PROVE  HistoryInv'
    BY <2>1, TaskKeepsHistory
  <2>2. CASE UNCHANGED <<monitor, phase, owner, timer, spell, closed, disordered>>
    BY <2>2 DEF HistoryInv, HistoryTypeOK, OneWatch, SleepMatchesSpell, LiveTasks
  <2> QED
    BY <2>1, <2>2, ReportKeepsHistory, TimeKeepsHistory
    DEF HistoryNext, Others, Register, Override, Consume, historyVars, vars
<1> QED
  BY <1>1, <1>2, HistoryRefinesAgent, TypeCorrect, NothingForgotten, PTL DEF HistorySpec

\* A step that publishes a report is the handler of that report, and one that
\* publishes a cancellation is the wake-up of a task of that order.
LEMMA PublisherKnown ==
    ASSUME TypeOK, [HistoryNext]_historyVars, NEW o \in Orders
    PROVE  /\ \A s \in Final : Published(ReportEvent(o, s)) => ReportRecorded(o, s)
           /\ Published(CancelEvent(o)) =>
                  /\ UNCHANGED <<spell, closed, disordered>>
                  /\ \E t \in Tasks : GcWake(t) /\ owner[t] = o
<1>1. bus \in Seq(Events)
  BY DEF TypeOK
<1>2. \A e, f : Append(bus, e) = Append(bus, f) => e = f
  BY <1>1
<1>3. \A e : Append(bus, e) # bus /\ (bus # <<>> => Append(bus, e) # Tail(bus))
  BY <1>1
<1>4. \A x, y, s : ReportEvent(x, s) # CancelEvent(y)
  <2>1. \A x, s : ReportEvent(x, s).type = "EXECUTION_REPORT"
    BY DEF ReportEvent
  <2>2. \A y : CancelEvent(y).type = "CANCEL_ORDER"
    BY DEF CancelEvent
  <2> QED BY <2>1, <2>2
<1>5. ASSUME NEW x \in Orders, NEW s \in ReportStatuses, ReportRecorded(x, s)
      PROVE  /\ \A r \in Final : Published(ReportEvent(o, r)) => x = o /\ r = s
             /\ ~Published(CancelEvent(o))
  <2>1. bus' = Append(bus, ReportEvent(x, s))
    BY <1>5 DEF ReportRecorded, HandleExecutionReport
  <2>2. ~Published(CancelEvent(o))
    BY <1>2, <1>4, <2>1 DEF Published
  <2>3. ASSUME NEW r \in Final, Published(ReportEvent(o, r)) PROVE x = o /\ r = s
    <3>1. ReportEvent(o, r) = ReportEvent(x, s)
      BY <1>2, <2>1, <2>3 DEF Published
    <3> QED BY <3>1 DEF ReportEvent
  <2> QED BY <2>2, <2>3
<1>6. ASSUME NEW t \in Tasks, GcStep(t), UNCHANGED <<spell, closed, disordered>>
      PROVE  /\ \A r \in Final : ~Published(ReportEvent(o, r))
             /\ Published(CancelEvent(o)) => GcWake(t) /\ owner[t] = o
  <2>1. bus' = bus \/ (GcWake(t) /\ bus' = Append(bus, CancelEvent(owner[t])))
    BY <1>6 DEF GcStep, GcStart, GcWake, GcCancelled, GcAborted
  <2>2. owner[t] \in Orders
    BY DEF TypeOK
  <2>3. \A r \in Final : ~Published(ReportEvent(o, r))
    <3> SUFFICES ASSUME NEW r \in Final, Published(ReportEvent(o, r)) PROVE FALSE
      OBVIOUS
    <3>1. bus' = Append(bus, ReportEvent(o, r))
      BY DEF Published
    <3>2. bus' = Append(bus, CancelEvent(owner[t]))
      BY <1>3, <2>1, <3>1
    <3> QED BY <1>2, <1>4, <3>1, <3>2
  <2>4. ASSUME Published(CancelEvent(o)) PROVE GcWake(t) /\ owner[t] = o
    <3>1. GcWake(t) /\ CancelEvent(o) = CancelEvent(owner[t])
      BY <1>2, <1>3, <2>1, <2>4 DEF Published
    <3> QED BY <3>1 DEF CancelEvent
  <2> QED BY <2>3, <2>4
<1>7. ASSUME bus' = bus \/ (bus # <<>> /\ bus' = Tail(bus))
      PROVE  \A e : ~Published(e)
  BY <1>3, <1>7 DEF Published
<1>8. \/ \E x \in Orders, s \in ReportStatuses : ReportRecorded(x, s)
      \/ \E t \in Tasks : GcStep(t) /\ UNCHANGED <<spell, closed, disordered>>
      \/ bus' = bus \/ (bus # <<>> /\ bus' = Tail(bus))
  BY DEF HistoryNext, Time, Tick, Others, Register, Override, Consume, historyVars, vars
<1> QED BY <1>5, <1>6, <1>7, <1>8

\* A final report stops every task that watches its order, unless the reports of
\* the order had already come out of order.
THEOREM FinalReportStops == HistorySpec => FinalReportStopsWatches
<1> DEFINE Step == \A o \in Orders \ disordered : \A s \in Final :
               Published(ReportEvent(o, s)) => o \in disordered' \/ LiveTasks(o)' = {}
<1>1. TypeOK /\ MonitorLive /\ HistoryInv /\ [HistoryNext]_historyVars /\ HistoryInv'
        => Step
  <2> SUFFICES ASSUME TypeOK, HistoryInv, HistoryInv', [HistoryNext]_historyVars,
                      NEW o \in Orders \ disordered, NEW s \in Final,
                      Published(ReportEvent(o, s))
               PROVE  o \in disordered' \/ LiveTasks(o)' = {}
    OBVIOUS
  <2>1. ReportRecorded(o, s)
    BY PublisherKnown
  <2>2. o \in closed'
    BY <2>1 DEF ReportRecorded
  <2> QED BY <2>2 DEF HistoryInv, OneWatch
<1>2. [](TypeOK /\ MonitorLive /\ HistoryInv) /\ [][HistoryNext]_historyVars
        => [][Step]_historyVars
  BY <1>1, PTL
<1> QED BY <1>2, HistoryInvariant, PTL DEF HistorySpec, FinalReportStopsWatches

\* The agent asks for a cancellation only after a whole timeout of partial fill,
\* unless the reports of the order had come out of order.
THEOREM NoEarlyCancel == HistorySpec => CancelNotEarly
<1> DEFINE Step == \A o \in Orders \ disordered :
               Published(CancelEvent(o)) => spell[o] = GcTimeout
<1>1. TypeOK /\ MonitorLive /\ HistoryInv /\ [HistoryNext]_historyVars => Step
  <2> SUFFICES ASSUME TypeOK, HistoryInv, [HistoryNext]_historyVars,
                      NEW o \in Orders \ disordered, Published(CancelEvent(o))
               PROVE  spell[o] = GcTimeout
    OBVIOUS
  <2>1. PICK t \in Tasks : GcWake(t) /\ owner[t] = o
    BY PublisherKnown
  <2>2. phase[t] = "sleeping" /\ timer[t] = 0 /\ t \in LiveTasks(o)
    BY <2>1 DEF GcWake, LiveTasks, Live
  <2> QED
    BY <2>2, GcTimeoutAssumption
    DEF HistoryInv, SleepMatchesSpell, HistoryTypeOK, NoSpell
<1>2. [](TypeOK /\ MonitorLive /\ HistoryInv) /\ [][HistoryNext]_historyVars
        => [][Step]_historyVars
  BY <1>1, PTL
<1> QED BY <1>2, HistoryInvariant, PTL DEF HistorySpec, CancelNotEarly
=============================================================================
