--------------------------- MODULE MCOrderDispatch ---------------------------
(***************************************************************************)
(* Small instances of OrderDispatch for TLC.                               *)
(***************************************************************************)
EXTENDS OrderDispatch

CONSTANTS o1, o2

OneOrder == {o1}
TwoOrders == {o1, o2}
=============================================================================
