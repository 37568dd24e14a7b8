---------------------------- MODULE MCAgentHost ----------------------------
(***************************************************************************)
(* A small instance of the event loop and its agents for TLC.              *)
(***************************************************************************)
EXTENDS AgentHost

CONSTANTS sig1, sig2

TwoSignals == {sig1, sig2}
OneMalformed == {2}
GainAndLoss == <<1, -2>>

\* The drawdown of the summary is the worst fall, for every short day of small trades.
Days == UNION {[1..n -> -2..2] : n \in 0..4}
ASSUME SummaryIsWorstFall ==
    \A pnl \in Days :
        LET h == [i \in 1..Len(pnl) |-> [timestamp |-> i, pnl |-> pnl[i]]]
        IN  GenerateSummary(h, 4).mdd = WorstFall(h)

EachAgent == {"recorder", "report", "telegram", "network", "main"}

AllKinds == {"stop", "command", "foreign", "other", "broken"}
=============================================================================
