------------------------------- MODULE MCMarts -------------------------------
(* Instances of Marts for TLC. *)
EXTENDS Marts

MCWidth == [m1 |-> 2, m5 |-> 4]
MCLabels == {"m1", "m5"}

Trade(sym, id, price, size, ts) ==
  [sym |-> sym, type |-> "trade", id |-> id, price |-> price, size |-> size,
   bid |-> Null, ask |-> Null, ts |-> ts, ingest |-> ts]
Ticker(sym, bid, ask, ts) ==
  [sym |-> sym, type |-> "ticker", id |-> Null, price |-> Null, size |-> Null,
   bid |-> bid, ask |-> ask, ts |-> ts, ingest |-> ts]

\* Two symbols with equal trade ids, and one that is not configured; a trade
\* without an id, one without a size, one of size zero; tickers with and without
\* quotes; a crossed book and a price of zero; two or three windows of each size,
\* of which trades close the first and the second one, so that a third may be late.
MCRows ==
  {Trade("BTC", 1, 2, 1, 0), Trade("BTC", 2, 3, 2, 1), Trade("BTC", 3, 5, 0, 3),
   Trade("ETH", 1, 1, 1, 2), Trade("BTC", Null, 4, 1, 5), Trade("ETH", 4, 2, Null, 4),
   Ticker("BTC", 1, 2, 0), Ticker("BTC", 2, 2, 5), Ticker("ETH", Null, 2, 1),
   Ticker("BTC", 2, 1, 3), Trade("BTC", 5, 0, 1, 3), Trade("BTC", 6, 4, 1, 5),
   Ticker("DOGE", 1, 2, 0)}
=============================================================================
