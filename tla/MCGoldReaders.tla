--------------------------- MODULE MCGoldReaders ---------------------------
(* An instance of GoldReaders for TLC.                                     *)
EXTENDS GoldReaders

Event(i, k, w) == [id |-> i, kind |-> k, win |-> w]

\* One fixture that makes gold and one of which silver keeps nothing.
MCFixtures == {<<Event(1, "trade", 0), Event(2, "trade", 1)>>,
               <<Event(3, "unusable", 0)>>}
=============================================================================
