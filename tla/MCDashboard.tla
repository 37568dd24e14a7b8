---------------------------- MODULE MCDashboard ----------------------------
(***************************************************************************)
(* Small instances of the dashboard for TLC.                               *)
(***************************************************************************)
EXTENDS Dashboard

CONSTANTS s1, s2, t1, t2

TwoSockets == {s1, s2}
TwoTimers == {t1, t2}
=============================================================================
