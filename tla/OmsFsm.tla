------------------------------- MODULE OmsFsm -------------------------------
(***************************************************************************)
(* The order table of fsm/oms_fsm.py: one status per order, written by     *)
(* register_order and transition, read by everybody else.                  *)
(*                                                                         *)
(* Both writers hold a lock per order, but neither has a suspension point  *)
(* inside the lock, so on one event loop the lock is always free when it   *)
(* is asked for, the acquisition does not suspend, and each call is one    *)
(* atomic step.  The second check of the double-checked locking then reads *)
(* what the first one read.                                                *)
(***************************************************************************)
CONSTANT Orders

VARIABLE states

Statuses ==
    {"NEW", "VALIDATED", "SENT", "ACCEPTED", "PENDING", "PARTIAL",
     "FILLED", "REJECTED", "CANCELLED", "STANDBY_OVERRIDE"}

\* dict.get() of an order the table has never seen.
Absent == "ABSENT"

Init == states = [o \in Orders |-> Absent]

GetStatus(o) == states[o]

\* The statuses register_order refuses to overwrite.
Dispatched == {"SENT", "REJECTED", "FILLED"}

RegisterOrder(o) ==
    IF states[o] \in Dispatched
    THEN UNCHANGED states
    ELSE states' = [states EXCEPT ![o] = "NEW"]

Transition(o, s) == states' = [states EXCEPT ![o] = s]
=============================================================================
