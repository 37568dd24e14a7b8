-------------------------- MODULE MCExecutionAgent --------------------------
(***************************************************************************)
(* Small instances of the execution agent and its history for TLC.         *)
(***************************************************************************)
EXTENDS ReportHistory

CONSTANTS o1, o2, t1, t2, t3

OneOrder == {o1}
TwoOrders == {o1, o2}
TwoTasks == {t1, t2}
ThreeTasks == {t1, t2, t3}

\* One status of each kind the handler tells apart.
StatusKinds == {"SENT", "PARTIAL", "FILLED"}

\* Every status the broker can report, the three final ones included.
AllStatuses == Fsm!Statuses
=============================================================================
