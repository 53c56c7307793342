------------------------- MODULE MCWindowProcessor -------------------------
(* Instances of WindowProcessor for TLC.                                   *)
EXTENDS WindowProcessor, TLC

CONSTANTS trades, ticker, btc, eth, m1, m5

\* No symbol is distinguished.
MCSymmetry == Permutations({btc, eth})

\* Widths 1 and 2 keep the 1:n nesting of "1m" and "5m" windows.
MCWidthOne == [l \in {m1} |-> 2]
MCWidthShort == [l \in {m1, m5} |-> IF l = m1 THEN 1 ELSE 2]
=============================================================================
