--------------------------- MODULE MCTradingPath ---------------------------
(***************************************************************************)
(* A small instance of the trading path for TLC: one pair, one order of    *)
(* its own, and a market of each kind the risk checks tell apart.          *)
(***************************************************************************)
EXTENDS TradingPath

CONSTANTS thin, liquid, single

JustSingle == {single}
JustThin == {thin}
ThenLiquid == [f \in {thin} |-> liquid]
Requests == [o \in {thin, liquid, single} |->
                [side |-> IF o = liquid THEN "SELL" ELSE "BUY",
                 qty |-> IF o = single THEN 3 ELSE 2, stamped |-> o = single]]
Limits == [o \in {thin, liquid, single} |-> IF o = liquid THEN 52 ELSE 50]

Calm == [late |-> FALSE, toxic |-> FALSE, margin |-> 150, best |-> 50]
AllMarkets ==
    {Calm, [Calm EXCEPT !.late = TRUE], [Calm EXCEPT !.toxic = TRUE],
     [Calm EXCEPT !.margin = 149], [Calm EXCEPT !.best = 40]}
=============================================================================
