---------------------------- MODULE PriorityFifo ----------------------------
(***************************************************************************)
(* What the event bus promises about order: one first-in first-out queue   *)
(* per type.  The queue served is one of the most urgent priority that     *)
(* has anything waiting; among those, the one whose first event was put    *)
(* there earliest by the clock; among equals, the one whose name comes     *)
(* first.                                                                  *)
(***************************************************************************)
EXTENDS Naturals, Sequences

CONSTANTS Types,       \* one queue each
          PriorityOf,  \* a number for each type, 0 the most urgent
          NameRank,    \* the order of the types' names
          Events       \* what is queued: the numbers of the puts

VARIABLES waiting,  \* the queue of each type
          clock,    \* a clock that never goes back
          time,     \* its reading at each put
          last      \* the event taken last

vars == <<waiting, clock, time, last>>

Init ==
    /\ waiting = [ty \in Types |-> <<>>]
    /\ clock \in Nat
    /\ time = <<>>
    /\ last \notin Events

ClockGoesOn == clock' \in Nat /\ clock <= clock'

Put(ty) ==
    /\ Len(time) + 1 \in Events
    /\ ClockGoesOn
    /\ time' = Append(time, clock)
    /\ waiting' = [waiting EXCEPT ![ty] = Append(@, Len(time) + 1)]
    /\ last' = last

\* The first event of ty goes before the first event of uy.
Precedes(ty, uy) ==
    \/ PriorityOf[ty] < PriorityOf[uy]
    \/ /\ PriorityOf[ty] = PriorityOf[uy]
       /\ LET t == time[Head(waiting[ty])]
              u == time[Head(waiting[uy])]
          IN  t < u \/ (t = u /\ NameRank[ty] < NameRank[uy])

Get(ty) ==
    /\ waiting[ty] # <<>>
    /\ \A uy \in Types \ {ty} : waiting[uy] # <<>> => Precedes(ty, uy)
    /\ last' = Head(waiting[ty])
    /\ waiting' = [waiting EXCEPT ![ty] = Tail(@)]
    /\ UNCHANGED <<clock, time>>

Next ==
    \/ \E ty \in Types : Put(ty) \/ Get(ty)
    \/ ClockGoesOn /\ UNCHANGED <<waiting, time, last>>

Spec == Init /\ [][Next]_vars
=============================================================================
