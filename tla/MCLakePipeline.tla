--------------------------- MODULE MCLakePipeline ---------------------------
(* Instances of LakePipeline for TLC. *)
EXTENDS LakePipeline

Event(id, kind, win) == [id |-> id, kind |-> kind, win |-> win]

\* A clean fixture over two five-minute windows, one with a reject, and one of
\* which silver keeps nothing.
MCFixtures ==
  {<<Event(1, "trade", 0), Event(2, "ticker", 1), Event(3, "trade", 2)>>,
   <<Event(4, "trade", 0), Event(5, "reject", 0)>>,
   <<Event(6, "unusable", 1)>>}

\* Fixtures that leave a topic empty.
MCSmallFixtures ==
  {<<Event(1, "trade", 0), Event(2, "trade", 2)>>, <<Event(3, "reject", 0)>>}
=============================================================================
