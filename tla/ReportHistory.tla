--------------------------- MODULE ReportHistory ---------------------------
(***************************************************************************)
(* ExecutionAgent with what the broker has reported so far: how long an    *)
(* order has been partially filled, which orders have had their final      *)
(* report, and which had a report after it.  Nothing the broker's socket   *)
(* can do is ruled out; the history lets the promises about final reports  *)
(* and about the timeout say for which orders they hold.                   *)
(***************************************************************************)
EXTENDS ExecutionAgent

VARIABLES spell,      \* ticks since the order's first PARTIAL report
          closed,     \* orders whose final report has arrived
          disordered  \* orders with a report after their final one

historyVars == <<vars, spell, closed, disordered>>

NoSpell == GcTimeout + 1   \* not partially filled; a spell is counted up to GcTimeout

HistoryInit ==
    /\ Init
    /\ spell = [o \in Orders |-> NoSpell]
    /\ closed = {}
    /\ disordered = {}

ReportRecorded(o, s) ==
    /\ HandleExecutionReport(o, s)
    /\ spell' = [spell EXCEPT ![o] =
                    IF s \in Final \/ o \in closed THEN NoSpell
                    ELSE IF s = "PARTIAL" /\ @ = NoSpell THEN 0 ELSE @]
    /\ closed' = IF s \in Final THEN closed \cup {o} ELSE closed
    /\ disordered' = disordered \cup ({o} \cap closed)

Time ==
    /\ Tick
    /\ spell' = [o \in Orders |-> IF spell[o] < GcTimeout
                                  THEN spell[o] + 1 ELSE spell[o]]
    /\ UNCHANGED <<closed, disordered>>

Others ==
    /\ \/ \E t \in Tasks : GcStep(t)
       \/ \E o \in Orders : Register(o) \/ Override(o)
       \/ Consume
    /\ UNCHANGED <<spell, closed, disordered>>

HistoryNext ==
    \/ \E o \in Orders, s \in ReportStatuses : ReportRecorded(o, s)
    \/ Time
    \/ Others

HistorySpec ==
    /\ HistoryInit
    /\ [][HistoryNext]_historyVars
    /\ Fairness

\* A final report stops every task that watches its order, as long as no report of
\* the order has come after a final one: a task that wakes up has then not seen its
\* order filled, cancelled or rejected.
FinalReportStopsWatches ==
    [][\A o \in Orders \ disordered : \A s \in Final :
           Published(ReportEvent(o, s)) => o \in disordered' \/ LiveTasks(o)' = {}]_historyVars

\* The agent asks for a cancellation only after the order has been partially filled
\* for the whole timeout, unless its reports came out of order.
CancelNotEarly ==
    [][\A o \in Orders \ disordered :
           Published(CancelEvent(o)) => spell[o] = GcTimeout]_historyVars
=============================================================================
