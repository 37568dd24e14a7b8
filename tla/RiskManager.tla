---------------------------- MODULE RiskManager ----------------------------
(***************************************************************************)
(* RiskManager.validate_order (risk/risk_manager.py) as a decision about   *)
(* an order, the market and the position its caller passes in.  The code   *)
(* stops at the first check that fails; every failure has the same effect  *)
(* on the order, so the order of the checks does not show.  Prices and     *)
(* money are in ticks of 0.01, where the rounding of the cost is exact.    *)
(***************************************************************************)
EXTENDS Integers

CONSTANTS MaxQty,       \* self.max_qty
          MaxDeviation  \* self.max_deviation_pct, in percent

\* A check of the limit that leaves the order itself out.
PositionAlone(order, position) == position <= MaxQty

\* The quantity counts whichever side it is on, a sale as much as a purchase.
WithinLimit(order, position) == position + order.qty <= MaxQty

\* The fat-finger bounds around the best price.
PriceAllowed(price, best) ==
    /\ 100 * (price - best) <= best * MaxDeviation
    /\ 100 * (best - price) <= best * MaxDeviation

\* m.late and m.toxic: the order is older than 10 ms, VPIN is above 0.8.  An order
\* without a timestamp is never late.
Approves(order, m, position) ==
    /\ ~(order.stamped /\ m.late)
    /\ ~m.toxic
    /\ WithinLimit(order, position)
    /\ order.price * order.qty <= m.margin
    /\ PriceAllowed(order.price, m.best)
=============================================================================
