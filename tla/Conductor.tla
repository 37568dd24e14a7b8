----------------------------- MODULE Conductor -----------------------------
(***************************************************************************)
(* TradingSystem and main (main.py): boot, the main loop, the signal       *)
(* handlers and the shutdown they start.  shutdown() cancels every other   *)
(* task, the shutdowns in progress included, and waits for all of them; a  *)
(* shutdown cancelled while it waits goes on waiting, then raises.         *)
(***************************************************************************)
EXTENDS EventLoop, Naturals, FiniteSets

VARIABLES mPc,        \* main(): "boot", "running", "final", "closed" or "crashed"
          mHandlers,  \* add_signal_handler is supported
          mEvent,     \* _shutdown_event: "none", "clear" or "set"
          mWaits,     \* the tasks each shutdown waits for
          mGcOff,     \* gc.disable() is in force
          mSignals    \* history: signals received

mVars == <<mPc, mHandlers, mEvent, mWaits, mGcOff, mSignals>>

Shutdowns == Signals \cup {"final"}

ConductorInit ==
    /\ mPc = "boot" /\ mHandlers \in BOOLEAN /\ mEvent = "none"
    /\ mWaits = [s \in Shutdowns |-> {}]
    /\ mGcOff = FALSE /\ mSignals = {}

\* initialize(), which has no suspension point: boot goes on to run_loop, or sys.exit
\* takes main() to its finally clause.
Initialize ==
    /\ mPc = "boot"
    /\ \/ mPc' = "running" /\ mGcOff' = TRUE /\ Go("loop", "created")
       \/ mPc' = "final" /\ mGcOff' = mGcOff /\ Go("final", "created")
    /\ UNCHANGED <<mHandlers, mEvent, mWaits, mSignals>>

\* The handler creates a task; asyncio runs its tasks in the order they were created, so
\* a signal that finds the last shutdown not yet started comes after it.
Signal(s) ==
    /\ mHandlers
    /\ mPc \in {"boot", "running", "final"}
    /\ phase["final"] # "created"
    /\ s \notin mSignals
    /\ Create(s)
    /\ mSignals' = mSignals \cup {s}
    /\ UNCHANGED <<mPc, mHandlers, mEvent, mWaits, mGcOff>>

\* Without handlers the first signal is a KeyboardInterrupt in main().
Interrupt ==
    /\ ~mHandlers
    /\ mPc \in {"boot", "running"}
    /\ mPc' = "final"
    /\ Go("final", "created")
    /\ UNCHANGED <<mHandlers, mEvent, mWaits, mGcOff, mSignals>>
-----------------------------------------------------------------------------
(***************************************************************************)
(* run_loop.                                                               *)
(***************************************************************************)

LoopStarts ==
    /\ phase["loop"] = "created" /\ mPc = "running"
    /\ mEvent' = "clear"
    /\ Go("loop", "sleeping")
    /\ UNCHANGED <<mPc, mHandlers, mWaits, mGcOff, mSignals>>

\* Whoever sets the event cancels the loop in the same step, and the cancellation wins.
LoopEnds == Ends("loop") /\ UNCHANGED mVars

\* run_until_complete(run_loop()) is over: the finally clause of main().
EnterFinal ==
    /\ mPc = "running" /\ IsDone(phase["loop"])
    /\ mPc' = "final"
    /\ Go("final", "created")
    /\ UNCHANGED <<mHandlers, mEvent, mWaits, mGcOff, mSignals>>
-----------------------------------------------------------------------------
(***************************************************************************)
(* shutdown.                                                               *)
(***************************************************************************)

\* A shutdown that forgets to leave itself out.
OthersAndSelf(s) == AllTasks

Others(s) == AllTasks \ {s}

\* A shutdown that gives the tasks no time to end.
WaitsForNobody(s) == {}

WaitsFor(s) == Others(s)

\* A signal that arrives before run_loop has made its event releases nobody.
SetEvent == mEvent' = IF mEvent = "none" THEN "none" ELSE "set"

ShutdownBegins(s) ==
    /\ phase[s] = "created" /\ Others(s) # {}
    /\ SetEvent
    /\ phase' = [t \in Tasks |-> IF t = s THEN "sleeping"
                                 ELSE IF t \in Others(s) THEN AfterCancel(phase[t])
                                 ELSE phase[t]]
    /\ mWaits' = [mWaits EXCEPT ![s] = WaitsFor(s)]
    /\ UNCHANGED <<mPc, mHandlers, mGcOff, mSignals>>

Waited(s) == \A t \in mWaits[s] : IsDone(phase[t])

\* main() goes on when its own shutdown has ended, and only then closes the loop.
MainAfter(s, outcome) == mPc' = IF s = "final" THEN outcome ELSE mPc

\* A shutdown with nobody to wait for does not suspend.
ShutdownEnds(s) ==
    /\ \/ phase[s] = "sleeping" /\ Waited(s) /\ mEvent' = mEvent
       \/ phase[s] = "created" /\ Others(s) = {} /\ SetEvent
    /\ mGcOff' = FALSE
    /\ MainAfter(s, "closed")
    /\ Go(s, "done")
    /\ mWaits' = [mWaits EXCEPT ![s] = {}]
    /\ UNCHANGED <<mHandlers, mSignals>>

\* Another shutdown has cancelled this one: the collector stays as it is, and if it was
\* the last one main() raises before loop.close().
ShutdownAborted(s) ==
    /\ Waited(s)
    /\ Ends(s)
    /\ MainAfter(s, "crashed")
    /\ mWaits' = [mWaits EXCEPT ![s] = {}]
    /\ UNCHANGED <<mHandlers, mEvent, mGcOff, mSignals>>

ShutdownStep(s) == ShutdownBegins(s) \/ ShutdownEnds(s) \/ ShutdownAborted(s)

MainStep == Initialize \/ LoopStarts \/ LoopEnds \/ EnterFinal
ConductorNext ==
    \/ MainStep \/ Interrupt
    \/ \E s \in Signals : Signal(s)
    \/ \E s \in Shutdowns : ShutdownStep(s)
-----------------------------------------------------------------------------
\* A program whose main loop ran and that was told once to end closes its loop, and
\* whenever the loop is closed the collector is on again and nobody is left in the loop
\* but the handlers of later signals.
CleanExit ==
    /\ (mPc = "crashed" /\ mEvent # "none") => Cardinality(mSignals) > 1
    /\ mPc = "closed" => ~mGcOff /\ AllTasks \subseteq Signals

\* The program does not go on for ever once its event is set or a signal has found the main
\* loop waiting, however many signals and shutdowns overtake one another.
SignalEnds ==
    []<>((\/ mEvent = "set"
          \/ phase["loop"] = "sleeping" /\ \E s \in Signals : phase[s] = "created")
             => mPc \in {"closed", "crashed"})
=============================================================================
