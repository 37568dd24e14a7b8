-------------------------- MODULE PartialFillWatch --------------------------
(***************************************************************************)
(* What ExecutionAgent promises about partially filled orders, without     *)
(* tasks, timers or a registry: a PARTIAL report puts the order under      *)
(* watch, the watch ends only with the cancellation published or with the  *)
(* order no longer PARTIAL, and an order that stays PARTIAL gets its       *)
(* cancellation.                                                           *)
(***************************************************************************)
CONSTANTS Orders,    \* client order ids
          Statuses,  \* what the order table may hold
          Final      \* the reports that close an order

VARIABLES states,      \* status of each order
          watched,     \* orders somebody will look at again
          cancelSent   \* CANCEL_ORDER published since the last PARTIAL report

vars == <<states, watched, cancelSent>>

Init ==
    /\ states \in [Orders -> Statuses]
    /\ \A o \in Orders : states[o] # "PARTIAL"
    /\ watched = {}
    /\ cancelSent = [o \in Orders |-> FALSE]

\* A PARTIAL report always ends with the order under watch.
PartialFill(o) ==
    /\ states' = [states EXCEPT ![o] = "PARTIAL"]
    /\ watched' = watched \cup {o}
    /\ cancelSent' = [cancelSent EXCEPT ![o] = FALSE]

\* Any other report, or another agent, moves the order elsewhere.  A final report
\* may end the watch.
Move(o) ==
    /\ \E s \in Statuses \ {"PARTIAL"} :
        /\ states' = [states EXCEPT ![o] = s]
        /\ \/ watched' = watched
           \/ s \in Final /\ watched' = watched \ {o}
    /\ cancelSent' = cancelSent

\* The watch runs out on a partially filled order.
Ask(o) ==
    /\ o \in watched
    /\ states[o] = "PARTIAL"
    /\ cancelSent' = [cancelSent EXCEPT ![o] = TRUE]
    /\ watched' \in {watched, watched \ {o}}
    /\ states' = states

\* The watch runs out on an order that is no longer partially filled.
Dismiss(o) ==
    /\ states[o] # "PARTIAL"
    /\ watched' = watched \ {o}
    /\ UNCHANGED <<states, cancelSent>>

Next == \E o \in Orders : PartialFill(o) \/ Move(o) \/ Ask(o) \/ Dismiss(o)

Safety == Init /\ [][Next]_vars

Spec == Safety /\ \A o \in Orders : WF_vars(~cancelSent[o] /\ Ask(o))
=============================================================================
