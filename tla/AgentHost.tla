----------------------------- MODULE AgentHost -----------------------------
(***************************************************************************)
(* One event loop with the conductor and one agent in it: the program of   *)
(* main.py with the API throttle, the recorder, the report agent or the    *)
(* Telegram bot deployed.  main.py only simulates the wiring; an agent is  *)
(* started, stopped and started again while the main loop waits, and meets *)
(* the shutdown wherever it is.  Agents do not talk to one another, so one *)
(* at a time is enough; and a shutdown is to them one cancellation, so the *)
(* signals that overtake one another are received by the deployment whose  *)
(* agent has no work.                                                      *)
(***************************************************************************)
EXTENDS Conductor, Recorder, ReportAgent, TelegramBot, TokenBucket

CONSTANT Deployments  \* what the program may be deployed with

\* In "main" the recorder has nothing to record; "network" has the throttle.
ASSUME DeploymentsAssumption ==
    Deployments \subseteq {"recorder", "report", "telegram", "network", "main"}

VARIABLE deployed

agentVars == <<rVars, sVars, tVars, vars>>
hostVars == <<phase, mVars, agentVars, deployed>>

HostInit ==
    /\ LoopInit /\ ConductorInit
    /\ RecorderInit /\ ReportInit /\ TelegramInit /\ Init
    /\ deployed \in Deployments
    /\ mHandlers => deployed = "main"

\* A call of an agent comes from some task, so there is none before the main loop waits
\* nor after a shutdown has cancelled them all.
Calls(A) == phase["loop"] = "sleeping" /\ mEvent = "clear" /\ A

\* A program that has closed its loop, or crashed out of it, runs nothing any more.
OnLoop(A) == mPc \notin {"closed", "crashed"} /\ A

Recording(A) ==
    /\ deployed \in {"recorder", "main"} /\ OnLoop(A)
    /\ UNCHANGED <<mVars, sVars, tVars, vars, deployed>>
Reporting(A) ==
    deployed = "report" /\ OnLoop(A) /\ UNCHANGED <<mVars, rVars, tVars, vars, deployed>>
Polling(A) ==
    deployed = "telegram" /\ OnLoop(A) /\ UNCHANGED <<mVars, rVars, sVars, vars, deployed>>
Sending(A) ==
    /\ deployed = "network" /\ OnLoop(A)
    /\ UNCHANGED <<phase, mVars, rVars, sVars, tVars, deployed>>
Conducting(A) == OnLoop(A) /\ UNCHANGED <<agentVars, deployed>>

HostNext ==
    \/ Recording(Calls(RecorderStart \/ RecorderStop))
    \/ \E t \in RecorderTasks : Recording(RecorderStep(t))
    \/ deployed = "recorder" /\ Recording(Calls(OnEvent))
    \/ Reporting(Calls(ReportCalls))
    \/ \E t \in ReportTasks : Reporting(ReportStep(t))
    \/ Polling(Calls(TelegramCalls))
    \/ \E t \in TelegramTasks : Polling(TelegramStep(t) \/ FetchFails(t))
    \/ Sending(Calls(Next))
    \/ Conducting(ConductorNext)

\* As long as a task of an agent is ready the loop goes on to run one, every poller gets its
\* turn, and the clock of the day advances.
Fairness ==
    /\ WF_<<phase, mVars>>(OnLoop(MainStep \/ \E s \in Shutdowns : ShutdownStep(s)))
    /\ WF_<<phase, rVars>>(deployed \in {"recorder", "main"}
                             /\ OnLoop(\E t \in RecorderTasks : RecorderStep(t)))
    /\ WF_<<phase, sVars>>(deployed = "report"
                             /\ OnLoop(Calls(ReportTick) \/ \E t \in ReportTasks : ReportStep(t)))
    /\ \A t \in TelegramTasks :
           WF_<<phase, tVars>>(deployed = "telegram" /\ OnLoop(TelegramStep(t)))

HostSteps == HostInit /\ [][HostNext]_hostVars
HostSpec == HostSteps /\ Fairness
-----------------------------------------------------------------------------
\* An agent that reports good health keeps its promise: a report agent does not run for ever
\* without its summary, unless its records are out of order or the program is shutting down.
HealthyReports == []<>(~sRunning \/ ~Sorted(sHistory) \/ mEvent = "set")
=============================================================================
