------------------------------ MODULE PanicHalt ------------------------------
(***************************************************************************)
(* What trigger_panic_halt (interface/controllers.py) does to the order    *)
(* table: two passes over the listed orders, each reading the status it is *)
(* about to overwrite.  No call of the two loops suspends, so nothing runs *)
(* between them.                                                           *)
(***************************************************************************)

Closed == {"CANCELLED", "FILLED", "REJECTED"}

\* A pass that overwrites whatever it finds.
PassUnchecked(st, ids, s) == [o \in DOMAIN st |-> IF o \in ids THEN s ELSE st[o]]

\* One pass: the listed orders that are not closed move to s.
Pass(st, ids, s) ==
    [o \in DOMAIN st |-> IF o \in ids /\ st[o] \notin Closed THEN s ELSE st[o]]

\* First aside, then cancelled.
HaltOrders(st, ids) == Pass(Pass(st, ids, "STANDBY_OVERRIDE"), ids, "CANCELLED")
==============================================================================
