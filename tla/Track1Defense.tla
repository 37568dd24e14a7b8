--------------------------- MODULE Track1Defense ---------------------------
(***************************************************************************)
(* Track1Defense (strategy/plugins/track1_defense.py): what one tick makes *)
(* the defence engine send.  Deltas, gammas and prices are in tenths.      *)
(***************************************************************************)
EXTENDS Integers

Size(x) == IF x < 0 THEN -x ELSE x

\* to_integral_value with ROUND_HALF_UP, of tenths: a half goes away from zero.
Rounded(x) == IF x < 0 THEN -((5 - x) \div 10) ELSE (x + 5) \div 10

\* Down by 15% or more of what the day began with.
MddReached(initial, current) == initial > 0 /\ 100 * (current - initial) <= -15 * initial

\* _trigger_kill_switch: the short position is covered and a long one bought, on every
\* tick that finds the limits exceeded.
KillSwitch(delta, gamma) == Size(delta) > 100 \/ Size(gamma) > 20

Deadband == 5

\* As HedgeQty, leaving out the rounding up of the half.
HedgeQtyTruncated(delta) == IF Size(delta) <= Deadband THEN 0 ELSE -delta \div 10

\* _calculate_futures_hedge_qty.
HedgeQty(delta) == IF Size(delta) <= Deadband THEN 0 ELSE Rounded(-delta)

\* The hedge on_tick returns, at a price that does not look at the market.  New entries
\* come after it in the code, and there are none.
FixedPrice == 3500
Track1Hedge(delta) == [qty |-> HedgeQty(delta), price |-> FixedPrice]
=============================================================================
