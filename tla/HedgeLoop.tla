------------------------------ MODULE HedgeLoop ------------------------------
(***************************************************************************)
(* The delta of the portfolio, the two engines that hedge it and the risk  *)
(* manager between them and the exchange.  Each engine sees a tick, the    *)
(* delta of that moment and nothing of the hedges under way; a hedge that  *)
(* passes the risk check lands later, in any order.  validate_order is     *)
(* called with the defaults of its signature.                              *)
(***************************************************************************)
EXTENDS Track4Gamma, RiskManager

CONSTANTS Deltas, Gammas, Equities, Prices,  \* where the market may take them
          Threshold,    \* equity from which Track4 is active
          MaxMoves      \* bound: moves of the market, and ticks that overtake a hedge

ASSUME HedgeAssumption == Deltas \subseteq Int

VARIABLES delta, gamma, equity, price,
          paying,    \* gamma profits exceed the decay
          shutdown,  \* Track1Defense.is_shutdown
          history,   \* Track4Gamma._close_history
          inflight,  \* hedges approved and not yet filled, with the delta they were for
          engines,   \* which engines are deployed
          moves

hedgeVars == <<delta, gamma, equity, price, paying, shutdown, history, inflight, engines,
               moves>>
market == <<delta, gamma, equity, price, paying>>

InitialEquity == 100

HedgeInit ==
    /\ delta = 0 /\ gamma = 0 /\ equity = InitialEquity /\ price = FixedPrice
    /\ paying = TRUE /\ shutdown = FALSE /\ history = <<>> /\ inflight = <<>>
    /\ engines \in {{"Track1"}, {"Track4"}, {"Track1", "Track4"}}
    /\ moves = 0

Move ==
    /\ moves < MaxMoves
    /\ moves' = moves + 1
    /\ \/ delta' \in Deltas /\ UNCHANGED <<gamma, equity, price, paying>>
       \/ gamma' \in Gammas /\ UNCHANGED <<delta, equity, price, paying>>
       \/ equity' \in Equities /\ UNCHANGED <<delta, gamma, price, paying>>
       \/ price' \in Prices /\ UNCHANGED <<delta, gamma, equity, paying>>
       \/ paying' = ~paying /\ UNCHANGED <<delta, gamma, equity, price>>
    /\ UNCHANGED <<shutdown, history, inflight, engines>>

Defaults == [late |-> FALSE, toxic |-> FALSE, margin |-> 999999999, best |-> price]

\* An order for nothing is not sent, one the risk manager refuses is not heard of again.
Send(engine, h) ==
    LET order == [qty |-> Size(h.qty), price |-> h.price, stamped |-> FALSE]
    IN  IF h.qty # 0 /\ Approves(order, Defaults, 0)
        THEN inflight' = Append(inflight, [engine |-> engine, qty |-> h.qty, basis |-> delta])
        ELSE inflight' = inflight

\* A tick reaches the engines one after the other; it may overtake the hedges under way.
Ticks(engine) ==
    /\ engine \in engines
    /\ \/ inflight = <<>> /\ moves' = moves
       \/ inflight # <<>> /\ moves < MaxMoves /\ moves' = moves + 1

MddLatch == shutdown' = (shutdown \/ MddReached(InitialEquity, equity))

\* Track1Defense.on_tick: after the shutdown it sends nothing, and above the limits the
\* kill switch instead of the hedge; its orders are in other instruments.
Track1Tick ==
    /\ Ticks("Track1")
    /\ MddLatch
    /\ IF shutdown' \/ KillSwitch(delta, gamma)
       THEN inflight' = inflight
       ELSE Send("Track1", Track1Hedge(delta))
    /\ UNCHANGED <<market, history, engines>>

\* Track4Gamma.on_tick: below the threshold not even the price is noted.
Track4Tick ==
    /\ Ticks("Track4")
    /\ equity >= Threshold
    /\ history' = Appended(history, price)
    /\ IF paying THEN Send("Track4", Track4Hedge(delta, history')) ELSE inflight' = inflight
    /\ UNCHANGED <<market, shutdown, engines>>

\* A hedge fills: one future moves the delta by one.
Lands(i) == delta' = delta + 10 * inflight[i].qty

Land ==
    /\ \E i \in 1..Len(inflight) : Lands(i) /\ inflight' = RemoveAt(inflight, i)
    /\ UNCHANGED <<gamma, equity, price, paying, shutdown, history, engines, moves>>

HedgeNext == Move \/ Track1Tick \/ Track4Tick \/ Land

\* Ticks keep coming and orders are filled; the market need not move.
HedgeSpec ==
    HedgeInit /\ [][HedgeNext]_hedgeVars /\ WF_hedgeVars(Track1Tick) /\ WF_hedgeVars(Land)
-----------------------------------------------------------------------------
\* A hedge that lands on the delta it was computed from never takes it further from zero,
\* and one of Track1's leaves it inside the dead band, so that no second one answers it.
FreshHedgeHelps ==
    [][\A i \in 1..Len(inflight) :
           (Lands(i) /\ inflight' = RemoveAt(inflight, i) /\ inflight[i].basis = delta)
               => /\ Size(delta') <= Size(delta)
                  /\ inflight[i].engine = "Track1" => Size(delta') <= Deadband]_hedgeVars

\* The delta is inside Track1's dead band, or Track1 has a reason to leave it outside: it
\* has shut down, the kill switch is on, or its fixed price is too far from the market for
\* the risk manager.
HedgedOrHeld ==
    \/ Size(delta) <= Deadband
    \/ shutdown
    \/ KillSwitch(delta, gamma)
    \/ PriceAllowed(FixedPrice, price) = FALSE

\* Once the market rests and hedges are filled between the ticks, Track1 alone settles the
\* delta.
HedgingSettles ==
    (engines = {"Track1"}) => <>[]HedgedOrHeld
=============================================================================
