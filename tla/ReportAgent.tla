---------------------------- MODULE ReportAgent ----------------------------
(***************************************************************************)
(* ReportAgent (sensor/report_agent.py): collects the trades of the day    *)
(* and summarises them once, when a scheduler task wakes up at the         *)
(* close.  The timer runs on the monotonic clock, the decisions are taken  *)
(* on the wall clock, which an operator or NTP may set back.  Money is in  *)
(* hundredths, the unit the code scales it to; the mean slippage, taken    *)
(* over the same records, is represented by their number.                  *)
(***************************************************************************)
EXTENDS EventLoop, Integers, Sequences, FiniteSets, FiniteSetsExt

CONSTANTS Close,       \* self.market_close
          EndOfDay,    \* bound: the clock
          Amounts      \* the profit or loss of each trade of the day

ASSUME ReportAssumption == Close \in Nat /\ EndOfDay \in Nat /\ Amounts \in Seq(Int)

VARIABLES sRunning,    \* self._is_running, the answer of health_check
          sTask,       \* self._scheduler_task; before the first start a task that is done
          sClock,      \* datetime.now()
          sTimer,      \* for each scheduler: ticks until its sleep ends
          sHistory,    \* self._pending_history
          sReport,     \* the last summary in the log, as a sequence: empty before
          sWrittenAt,  \* history: the time it was written
          sSetBack     \* history: the wall clock has been set back

summary == <<sReport, sWrittenAt>>
sVars == <<sRunning, sTask, sClock, sTimer, sHistory, summary, sSetBack>>

\* A record without a timestamp: earlier than any, and left out of the order check.
NoStamp == -1

ReportInit ==
    /\ sRunning = FALSE /\ sTask = "report"
    /\ sClock = 0 /\ sTimer = [t \in ReportTasks |-> 0] /\ sSetBack = FALSE
    /\ sHistory = <<>> /\ sReport = <<>> /\ sWrittenAt = 0

\* The day with the minute of the close in it.
ByDayAndAtClose == sClock <= Close

ByDay == sClock < Close

\* By day the record is kept (after the close nothing happens), whatever time it carries:
\* records may reach the agent late, and the clock of their sender may be ahead.
ProcessMessage ==
    /\ Len(sHistory) < Len(Amounts)
    /\ ByDay
    /\ \E ts \in NoStamp..(EndOfDay + 1) :
           sHistory' = Append(sHistory, [timestamp |-> ts, pnl |-> Amounts[Len(sHistory) + 1]])
    /\ UNCHANGED <<phase, sRunning, sTask, sClock, sTimer, summary, sSetBack>>
-----------------------------------------------------------------------------
(***************************************************************************)
(* generate_summary, a function of the records and the time of day.        *)
(***************************************************************************)

Stamps(h) == SelectSeq(h, LAMBDA r : r.timestamp # NoStamp)
Sorted(h) ==
    \A i \in 1..(Len(Stamps(h)) - 1) : Stamps(h)[i].timestamp <= Stamps(h)[i + 1].timestamp

\* The records of h at the positions in S, in their order.
At(h, S) ==
    LET kept[i \in 0..Len(h)] ==
            IF i = 0 THEN <<>>
            ELSE IF i \in S THEN Append(kept[i - 1], h[i]) ELSE kept[i - 1]
    IN  kept[Len(h)]

\* The records not dated after now.
Valid(h, now) == At(h, {i \in 1..Len(h) : h[i].timestamp <= now})

\* Cumulative profit after each record.
Cumulative(h) == LET c[i \in 0..Len(h)] == IF i = 0 THEN 0 ELSE c[i - 1] + h[i].pnl IN c

\* The highest cumulative profit so far, the zero of the morning not counted.
RunningMax(c, n) == [i \in 1..n |-> Max({c[k] : k \in 1..i})]

\* The records dated after now are left out; none left, and every figure is zero.
GenerateSummary(h, now) ==
    LET valid == Valid(h, now)
        n     == Len(valid)
        c     == Cumulative(valid)
        peak  == RunningMax(c, n)
    IN  [total_pnl |-> c[n], mdd |-> Max({peak[i] - c[i] : i \in 1..n} \cup {0}), trades |-> n]
-----------------------------------------------------------------------------
ReportStart ==
    /\ \E t \in ReportTasks : Create(t) /\ sTask' = t
    /\ sRunning' = TRUE
    /\ UNCHANGED <<sClock, sTimer, sHistory, summary, sSetBack>>

\* The last scheduler is cancelled where it sleeps.
ReportStop ==
    /\ sRunning' = FALSE
    /\ Go(sTask, AfterCancel(phase[sTask]))
    /\ UNCHANGED <<sTask, sClock, sTimer, sHistory, summary, sSetBack>>

\* The summary, or the failed assertion on the order of the records, which ends the
\* task with is_running still set.
CloseOfDay ==
    \/ /\ Sorted(sHistory)
       /\ sReport' = <<GenerateSummary(sHistory, sClock)>>
       /\ sWrittenAt' = sClock
       /\ sRunning' = FALSE
    \/ /\ ~Sorted(sHistory)
       /\ UNCHANGED <<summary, sRunning>>

\* A scheduler that looks for the minute of the close after its sleep.
DueOnTheMinute(t) == sTimer[t] = 0 /\ sClock = Close

\* The sleep is over; the clock is not looked at again.
Due(t) == sTimer[t] = 0

\* A scheduler goes to sleep until the close, or is past it; one that finds the agent
\* stopped, or the summary written by another, ends.
ScheduleCloseTrigger(t) ==
    /\ \/ /\ phase[t] = "created" /\ sRunning /\ sClock < Close
          /\ sTimer' = [sTimer EXCEPT ![t] = Close - sClock]
          /\ Go(t, "sleeping")
          /\ UNCHANGED <<sRunning, summary>>
       \/ /\ \/ phase[t] = "created" /\ (sRunning => sClock >= Close)
             \/ phase[t] = "sleeping" /\ Due(t)
          /\ IF sRunning THEN CloseOfDay ELSE UNCHANGED <<sRunning, summary>>
          /\ Go(t, "done")
          /\ sTimer' = sTimer
    /\ UNCHANGED <<sTask, sClock, sHistory, sSetBack>>

ReportEnds(t) ==
    /\ Ends(t)
    /\ sTimer' = [sTimer EXCEPT ![t] = 0]
    /\ UNCHANGED <<sRunning, sTask, sClock, sHistory, summary, sSetBack>>

\* Time passes on both clocks; a task may wake up later than its timer.
ReportTick ==
    /\ sClock < EndOfDay
    /\ sClock' = sClock + 1
    /\ sTimer' = [t \in ReportTasks |-> IF sTimer[t] > 0 THEN sTimer[t] - 1 ELSE 0]
    /\ UNCHANGED <<phase, sRunning, sTask, sHistory, summary, sSetBack>>

SetClockBack ==
    /\ ~sSetBack /\ sClock > 0
    /\ sClock' = sClock - 1
    /\ sSetBack' = TRUE
    /\ UNCHANGED <<phase, sRunning, sTask, sTimer, sHistory, summary>>

ReportStep(t) == ScheduleCloseTrigger(t) \/ ReportEnds(t)
ReportCalls == ReportStart \/ ReportStop \/ ProcessMessage \/ ReportTick \/ SetClockBack
-----------------------------------------------------------------------------
\* The largest loss from any record of h to a later one.
WorstFall(h) ==
    LET c == Cumulative(h)
    IN  Max({c[p[1]] - c[p[2]] : p \in {q \in (1..Len(h)) \X (1..Len(h)) : q[1] <= q[2]}}
                \cup {0})

\* The last summary was written at the close or later, it covers every record kept, none
\* added since, that is not dated later than the summary itself, and its drawdown is the
\* largest fall between two of them: unless the clock was set back while a scheduler
\* slept.  A record dated even a little after the summary, by a clock that is ahead, is
\* left out for good.
ReportIsWhole ==
    (sReport # <<>> /\ ~sSetBack) =>
        LET report == sReport[1]
            valid == Valid(sHistory, sWrittenAt)
        IN  /\ sWrittenAt >= Close
            /\ report.trades = Len(valid)
            /\ report.total_pnl = Cumulative(valid)[Len(valid)]
            /\ report.mdd = WorstFall(valid)
=============================================================================
