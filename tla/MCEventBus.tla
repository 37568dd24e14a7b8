----------------------------- MODULE MCEventBus -----------------------------
(***************************************************************************)
(* Small instances of EventBus for TLC: the types the repository publishes *)
(* with the priorities it gives them.                                      *)
(***************************************************************************)
EXTENDS EventBus

CONSTANTS c1, c2

\* What the execution agent publishes, both most urgent, and what the market data agent
\* does, which is the least.
BusTypes == {"CANCEL_ORDER", "EXECUTION_REPORT", "MARKET_HALT"}

BusPriorities == [ty \in Types |-> IF ty = "MARKET_HALT" THEN 3 ELSE 0]

BusNames ==
    [ty \in Types |-> CASE ty = "CANCEL_ORDER" -> 1
                         [] ty = "EXECUTION_REPORT" -> 2
                         [] ty = "MARKET_HALT" -> 3]

TwoCallbacks == {c1, c2}

\* One type with two subscribers, one with one of them, one with none.
BusSubscriptions ==
    {<<"EXECUTION_REPORT", c1>>, <<"EXECUTION_REPORT", c2>>, <<"CANCEL_ORDER", c1>>}
=============================================================================
