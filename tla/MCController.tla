---------------------------- MODULE MCController ----------------------------
(***************************************************************************)
(* Small instances of the controller and its history for TLC.              *)
(***************************************************************************)
EXTENDS SwitchHistory

CONSTANTS o1, o2, w1, w2

OneOrder == {o1}
TwoOrders == {o1, o2}
TwoWatchers == {w1, w2}
=============================================================================
