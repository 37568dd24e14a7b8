----------------------------- MODULE Track4Gamma -----------------------------
(***************************************************************************)
(* Track4Gamma (strategy/plugins/track4_gamma.py): a second hedger of the  *)
(* same delta, behind a dead band that follows the average true range.     *)
(* Highs, lows and closes are all the last price, so a true range is the   *)
(* distance between two prices.  Comparisons with the band are made        *)
(* without dividing; its rounding to six places is left out.               *)
(***************************************************************************)
EXTENDS Track1Defense, Sequences, SequencesExt

CONSTANT HistoryLength  \* maxlen of the price buffers

Appended(h, p) ==
    IF Len(h) < HistoryLength THEN Append(h, p) ELSE Append(Tail(h), p)

\* The sum of the true ranges, and the last price times their number.
Ranges(h) == [i \in 1..(Len(h) - 1) |-> Size(h[i + 1] - h[i])]
TrueRange(h) == FoldLeft(LAMBDA s, r : s + r, 0, Ranges(h))
Scale(h) == h[Len(h)] * (Len(h) - 1)

\* |delta| > band, where the band is five times the relative range, clamped to 0.2..0.6;
\* a single price has no range.
OutOfBand(delta, h) ==
    \/ Size(delta) > 6
    \/ Size(delta) > 2 /\ (Len(h) = 1 \/ Size(delta) * Scale(h) > 50 * TrueRange(h))

Clamped(q) == IF q > 100 THEN 100 ELSE IF q < -100 THEN -100 ELSE q

\* on_tick past its gates: nothing, or a hedge two ticks through the last price, whose
\* floor of 0.01 is a tenth here.
Track4Qty(delta, h) == IF OutOfBand(delta, h) THEN Clamped(Rounded(-delta)) ELSE 0

Track4Hedge(delta, h) ==
    LET qty == Track4Qty(delta, h)
        limit == h[Len(h)] + (IF qty > 0 THEN 1 ELSE -1)
    IN  [qty |-> qty, price |-> IF limit > 1 THEN limit ELSE 1]
=============================================================================
