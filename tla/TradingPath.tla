---------------------------- MODULE TradingPath ----------------------------
(***************************************************************************)
(* An order's way through the system: a strategy makes it, the caller      *)
(* reads the position and asks RiskManager, an approved order is           *)
(* registered and sent, the exchange fills or cancels it, its reports come *)
(* back over a socket that repeats and reorders them, ExecutionAgent       *)
(* writes the order table and publishes, and Track3Arbitrage strikes the   *)
(* second leg of a pair when it hears that the first is filled.            *)
(*                                                                         *)
(* The handlers are the code's; what joins them (who reads the position,   *)
(* who sends) is the use their signatures and docstrings describe, since   *)
(* main.py only simulates the wiring.                                      *)
(***************************************************************************)
EXTENDS RiskManager, FiniteSets

CONSTANTS Singles,    \* orders of their own
          FirstLegs,  \* thin legs of pairs, sent first
          SecondOf,   \* first leg -> the order that completes the pair
          Request,    \* order -> its side, qty and whether it carries a timestamp
          Limit,      \* order -> its limit price, for a second leg the quoted one
          Markets     \* the markets validate_order may meet

Orders == Singles \cup FirstLegs \cup {SecondOf[f] : f \in FirstLegs}

\* A second leg is an order of its own, and every order is for something.
ASSUME PathAssumption ==
    /\ MaxQty \in Nat
    /\ \A f \in FirstLegs : SecondOf[f] \notin Singles \cup FirstLegs
    /\ Request \in [Orders -> [side : {"BUY", "SELL"}, qty : Nat \ {0}, stamped : BOOLEAN]]

VARIABLES states,    \* OmsFsm.states
          made,      \* orders handed to the caller of the risk check
          read,      \* the position read for each, Unread before
          pending,   \* keys of Track3Arbitrage.pending_legs
          position,  \* what the exchange has filled, purchases less sales
          working,   \* orders open at the exchange
          filled,    \* quantity filled of each order
          wire,      \* reports on the socket: any of them may come, and come again
          events,    \* EXECUTION_REPORT events on the bus
          struck,    \* history: second legs built for each first leg
          missed,    \* history: first legs whose FILLED event was dropped or struck nothing
          raced      \* history: an order was approved on a position about to change

vars == <<states, made, read, pending, position, working, filled, wire, events,
          struck, missed, raced>>

Fsm == INSTANCE OmsFsm
Unread == MaxQty + 1000
Reports == Orders \X {"PARTIAL", "FILLED", "CANCELLED"}

\* Every variable has the shape its handlers rely on.
TypeOK ==
    /\ states \in [Orders -> Fsm!Statuses \cup {Fsm!Absent}]
    /\ made \subseteq Orders /\ working \subseteq Orders
    /\ read \in [Orders -> Int] /\ position \in Int
    /\ pending \subseteq FirstLegs /\ missed \subseteq FirstLegs
    /\ filled \in [Orders -> Nat]
    /\ wire \subseteq Reports /\ events \subseteq Reports
    /\ struck \in [FirstLegs -> Nat]
    /\ raced \in BOOLEAN

Init ==
    /\ Fsm!Init
    /\ made = {} /\ read = [o \in Orders |-> Unread]
    /\ pending = {} /\ position = 0 /\ working = {}
    /\ filled = [o \in Orders |-> 0]
    /\ wire = {} /\ events = {}
    /\ struck = [f \in FirstLegs |-> 0] /\ missed = {} /\ raced = FALSE
-----------------------------------------------------------------------------
(***************************************************************************)
(* Strategy, caller and risk check.                                        *)
(***************************************************************************)

\* A strategy makes an order; _execute_asymmetric_legging also notes the pair.
Make(o) ==
    /\ o \in (Singles \cup FirstLegs) \ made
    /\ made' = made \cup {o}
    /\ pending' = pending \cup ({o} \cap FirstLegs)
    /\ UNCHANGED <<states, read, position, working, filled, wire, events, struck,
                   missed, raced>>

ReadPosition(o) ==
    /\ o \in made /\ states[o] = Fsm!Absent
    /\ read' = [read EXCEPT ![o] = position]
    /\ UNCHANGED <<states, made, pending, position, working, filled, wire, events,
                   struck, missed, raced>>

\* The second leg goes two ticks through the quoted price, never below one tick.
Aggressive(o) ==
    IF Request[o].side = "BUY" THEN Limit[o] + 2
    ELSE IF Limit[o] > 3 THEN Limit[o] - 2 ELSE 1

Order(o) ==
    [qty |-> Request[o].qty, stamped |-> Request[o].stamped,
     price |-> IF o \in Singles \cup FirstLegs THEN Limit[o] ELSE Aggressive(o)]

\* validate_order, and the registration and dispatch of what it approved.
Validate(o, m) ==
    /\ o \in made /\ states[o] = Fsm!Absent /\ read[o] # Unread
    /\ \/ /\ Approves(Order(o), m, read[o])
          /\ Fsm!RegisterOrder(o)
          /\ working' = working \cup {o}
          /\ raced' = (raced \/ working # {} \/ read[o] # position)
       \/ /\ ~Approves(Order(o), m, read[o])
          /\ Fsm!Transition(o, "REJECTED")
          /\ UNCHANGED <<working, raced>>
    /\ UNCHANGED <<made, read, pending, position, filled, wire, events, struck, missed>>
-----------------------------------------------------------------------------
(***************************************************************************)
(* The exchange.                                                           *)
(***************************************************************************)

Fill(o) ==
    /\ o \in working
    /\ \E n \in 1..(Request[o].qty - filled[o]) :
        /\ filled' = [filled EXCEPT ![o] = @ + n]
        /\ position' = IF Request[o].side = "BUY" THEN position + n ELSE position - n
    /\ \/ /\ filled'[o] = Request[o].qty
          /\ working' = working \ {o}
          /\ wire' = wire \cup {<<o, "FILLED">>}
       \/ /\ filled'[o] # Request[o].qty
          /\ working' = working
          /\ wire' = wire \cup {<<o, "PARTIAL">>}
    /\ UNCHANGED <<states, made, read, pending, events, struck, missed, raced>>

Cancel(o) ==
    /\ o \in working
    /\ working' = working \ {o}
    /\ wire' = wire \cup {<<o, "CANCELLED">>}
    /\ UNCHANGED <<states, made, read, pending, position, filled, events, struck,
                   missed, raced>>
-----------------------------------------------------------------------------
(***************************************************************************)
(* The way back.                                                           *)
(***************************************************************************)

\* handle_execution_report: the table moves and the bus gets the report.
Deliver(r) ==
    /\ r \in wire
    /\ Fsm!Transition(r[1], r[2])
    /\ events' = events \cup {r}
    /\ UNCHANGED <<made, read, pending, position, working, filled, wire, struck,
                   missed, raced>>

\* As Strike, for any fill of the first leg.
StrikesOnAnyFill(r) == r[1] \in pending /\ r[2] \in {"PARTIAL", "FILLED"}

\* on_leg_filled acts on the FILLED report of a leg it knows.
Strikes(r) == r[1] \in pending /\ r[2] = "FILLED"

\* The table after a handler that takes the pair out before it looks at the status.
PoppedFirst(r) == pending \ {r[1]}

\* The pairs the strategy still waits for after a report.
StillPending(r) == IF Strikes(r) THEN pending \ {r[1]} ELSE pending

\* on_leg_filled: the pair leaves the table first, so an order that cannot be built from
\* the noted spec costs the second leg for good.
OnLegFilled(r) ==
    /\ r \in events
    /\ events' = events \ {r}
    /\ pending' = StillPending(r)
    /\ \/ /\ Strikes(r)
          /\ \/ /\ made' = made \cup {SecondOf[r[1]]}
                /\ struck' = [struck EXCEPT ![r[1]] = @ + 1]
                /\ missed' = missed
             \/ /\ missed' = missed \cup {r[1]}
                /\ UNCHANGED <<made, struck>>
       \/ /\ ~Strikes(r)
          /\ UNCHANGED <<made, struck, missed>>
    /\ UNCHANGED <<states, read, position, working, filled, wire, raced>>

\* The bus discards an event older than 200 ms.
GoesStale(r) ==
    /\ r \in events
    /\ events' = events \ {r}
    /\ missed' = missed \cup ({r[1]} \cap {f \in FirstLegs : r[2] = "FILLED"})
    /\ UNCHANGED <<states, made, read, pending, position, working, filled, wire, struck,
                   raced>>

Next ==
    \/ \E o \in Orders : Make(o) \/ ReadPosition(o) \/ Fill(o) \/ Cancel(o)
    \/ \E o \in Orders, m \in Markets : Validate(o, m)
    \/ \E r \in Reports : Deliver(r) \/ OnLegFilled(r) \/ GoesStale(r)

\* A FILLED report reaches the agent in the end, and the bus its subscriber.
Fairness ==
    \A f \in FirstLegs :
        /\ WF_vars(Deliver(<<f, "FILLED">>))
        /\ WF_vars(OnLegFilled(<<f, "FILLED">>) \/ GoesStale(<<f, "FILLED">>))

Spec == Init /\ [][Next]_vars
FairSpec == Spec /\ Fairness
-----------------------------------------------------------------------------
\* The limit holds for orders validated one at a time: the position passes it only if some
\* order was approved while another could still be filled or on a position read earlier.
LimitUnlessRaced == raced \/ position <= MaxQty

\* However often its reports are repeated and whatever their order, a pair gets at most one
\* second leg, and only when the first is wholly filled.
SecondLegOnce ==
    \A f \in FirstLegs :
        struck[f] > 0 => struck[f] = 1 /\ filled[f] = Request[f].qty

\* A wholly filled first leg does not stay alone, unless the event that tells of it is
\* dropped or the spec of the second leg cannot be used.
SecondLegFollows ==
    \A f \in FirstLegs :
        (filled[f] = Request[f].qty) ~> (struck[f] = 1 \/ f \in missed)
=============================================================================
