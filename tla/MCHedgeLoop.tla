----------------------------- MODULE MCHedgeLoop -----------------------------
(***************************************************************************)
(* A small market for TLC: values on both sides of every limit.            *)
(***************************************************************************)
EXTENDS HedgeLoop

SomeDeltas == {-14, 5, 6, 16, 1206}
SomeGammas == {20, 21}
SomeEquities == {85, 86, 120}
SomePrices == {3700, 4000}
=============================================================================
