------------------------------- MODULE Marts -------------------------------
(***************************************************************************)
(* The batch side of the lakehouse: the silver and gold dbt models         *)
(* (dbt/models), the dbt tests, the SLA baseline of quality/sla.py, the    *)
(* data contract of quality/contract.py, compute_windows of                *)
(* processing/metrics.py, the oracle the tests compare gold with, and the  *)
(* trade windows of processing/app.py over the same records.               *)
(*                                                                         *)
(* The state is the bronze table, a sequence of rows to which rows are     *)
(* added in any order; what is built from it are operators.                *)
(* A quotient is the pair of its numerator and denominator; `mid' sums     *)
(* are left undivided by 2.                                                *)
(***************************************************************************)
EXTENDS Integers, Sequences, SequencesExt, FiniteSets, FiniteSetsExt, Functions

CONSTANTS
  Rows,      \* the records MarketEvent is asked to accept
  Null,
  Labels,    \* window labels
  Width,     \* WINDOW_SIZES: label -> length
  Grace,     \* grace_seconds of the stream's windows
  Symbols,   \* source.symbols when the contract is applied
  MaxRows    \* bound: rows in bronze

\* The fields of MarketEvent that the marts read.
Events ==
  [sym : {r.sym : r \in Rows}, type : {"trade", "ticker"}, id : {r.id : r \in Rows},
   price : Int \cup {Null}, size : Int \cup {Null},
   bid : Int \cup {Null}, ask : Int \cup {Null}, ts : Nat, ingest : Nat]

ASSUME ConstantsAssumption ==
  /\ IsFiniteSet(Labels) /\ Width \in [Labels -> Nat \ {0}] /\ MaxRows \in Nat
  /\ Grace \in Nat
  /\ Rows \subseteq Events

\* A null is no number and no quotient.
ASSUME NullAssumption == Null \notin Int /\ Null \notin Int \X Int

VARIABLE bronze

-----------------------------------------------------------------------------
(* MarketEvent, the row schema.                                            *)

Given(x) == x # Null

\* The validator of MarketEvent: a bronze row has passed it.
BasicContract(r) ==
  /\ Given(r.price) => r.price > 0
  /\ Given(r.size) => r.size >= 0
  /\ Given(r.bid) => r.bid >= 0
  /\ Given(r.ask) => r.ask >= 0
  /\ Given(r.bid) /\ Given(r.ask) => r.ask >= r.bid

Init == bronze = <<>>

Land ==
  /\ Len(bronze) < MaxRows
  /\ \E r \in Rows : BasicContract(r) /\ bronze' = Append(bronze, r)

Next == Land

Spec == Init /\ [][Next]_bronze

-----------------------------------------------------------------------------
(* Silver.  A silver table is a set of row numbers of bronze.              *)

IsTrade(r) == /\ r.type = "trade" /\ Given(r.id)
              /\ Given(r.price) /\ r.price > 0
              /\ Given(r.size) /\ r.size >= 0

IsTicker(r) == /\ r.type = "ticker" /\ Given(r.bid) /\ Given(r.ask)
               /\ r.ask >= r.bid

\* The order of the dedup: ts_event, ts_ingest, price, size.
Precedes(r, s) ==
  \/ r.ts < s.ts
  \/ r.ts = s.ts /\ r.ingest < s.ingest
  \/ r.ts = s.ts /\ r.ingest = s.ingest /\ r.price < s.price
  \/ r.ts = s.ts /\ r.ingest = s.ingest /\ r.price = s.price /\ r.size < s.size

SameTrade(r, s) == r.id = s.id /\ r.sym = s.sym

\* Mutant: no dedup.
SilverTradesMutant(b) == {i \in DOMAIN b : IsTrade(b[i])}

\* row_number() = 1; rows that tie are equal in every column gold reads.
SilverTrades(b) ==
  {i \in DOMAIN b : IsTrade(b[i]) /\
     \A j \in DOMAIN b \ {i} :
        IsTrade(b[j]) /\ SameTrade(b[i], b[j])
          => Precedes(b[i], b[j]) \/ (~Precedes(b[j], b[i]) /\ i < j)}

\* A trade id names one trade: what is delivered again under it happened at the
\* same time, and so belongs to the same windows.
ASSUME TradeIdsAssumption ==
  \A r, s \in {r \in Rows : BasicContract(r) /\ IsTrade(r)} :
    r.id = s.id /\ r.sym = s.sym => r.ts = s.ts

SilverTicker(b) == {i \in DOMAIN b : IsTicker(b[i])}

-----------------------------------------------------------------------------
(* Gold.                                                                   *)

WindowStart(ts, label) == (ts \div Width[label]) * Width[label]

Bucket(r, label) == [sym |-> r.sym, label |-> label, start |-> WindowStart(r.ts, label)]

Buckets(b, is) == {Bucket(b[i], l) : i \in is, l \in Labels}

Members(b, is, k) == {i \in is : Bucket(b[i], k.label) = k}

\* The two aggregations of a bucket.
TradeWindow(b, k) ==
  LET is  == Members(b, SilverTrades(b), k)
      vol == SumFunction([i \in is |-> b[i].size])
  IN [key |-> k,
      vwap |-> IF vol = 0 THEN Null    \* nullif(sum(size), 0)
               ELSE <<SumFunction([i \in is |-> b[i].price * b[i].size]), vol>>,
      volume |-> vol, count |-> Cardinality(is)]

TickerWindow(b, k) ==
  LET is == Members(b, SilverTicker(b), k)
  IN [key |-> k,
      spread |-> <<SumFunction([i \in is |-> b[i].ask - b[i].bid]), Cardinality(is)>>,
      mid |-> <<SumFunction([i \in is |-> b[i].ask + b[i].bid]), Cardinality(is)>>,
      count |-> Cardinality(is)]

\* A bucket exists when a row falls into it.
TradeWindows(b) == {TradeWindow(b, k) : k \in Buckets(b, SilverTrades(b))}
TickerWindows(b) == {TickerWindow(b, k) : k \in Buckets(b, SilverTicker(b))}

\* What the outer join and coalesce() give for a side that is missing.
NoTrades == [vwap |-> Null, volume |-> 0, count |-> 0]
NoTickers == [spread |-> Null, mid |-> Null, count |-> 0]

\* Mutant: avg_mid is taken from the wrong column.
RowMutant(k, t, q) ==
  [key |-> k, vwap |-> t.vwap, volume |-> t.volume, trades |-> t.count,
   spread |-> q.spread, mid |-> q.spread, tickers |-> q.count]

\* event_count is the sum of the two counts and needs no field.
Row(k, t, q) ==
  [key |-> k, vwap |-> t.vwap, volume |-> t.volume, trades |-> t.count,
   spread |-> q.spread, mid |-> q.mid, tickers |-> q.count]

Joins(t, q) == t.key = q.key

\* The full outer join.
Gold(b) ==
  LET ts == TradeWindows(b)
      qs == TickerWindows(b)
      pairs == {p \in ts \X qs : Joins(p[1], p[2])}
  IN {Row(p[1].key, p[1], p[2]) : p \in pairs}
       \cup {Row(t.key, t, NoTickers) : t \in {t \in ts : \A q \in qs : ~Joins(t, q)}}
       \cup {Row(q.key, NoTrades, q) : q \in {q \in qs : \A t \in ts : ~Joins(t, q)}}

-----------------------------------------------------------------------------
(* compute_windows of processing/metrics.py: one pass over the events.     *)

NoAcc == [pv |-> 0, vol |-> 0, trades |-> 0, spread |-> 0, mid |-> 0, tickers |-> 0]

Accumulate(a, e) ==
  CASE e.type = "trade" /\ Given(e.price) /\ Given(e.size) ->
         [a EXCEPT !.pv = @ + e.price * e.size, !.vol = @ + e.size, !.trades = @ + 1]
    [] e.type = "ticker" /\ Given(e.bid) /\ Given(e.ask) ->
         [a EXCEPT !.spread = @ + (e.ask - e.bid), !.mid = @ + (e.ask + e.bid),
                   !.tickers = @ + 1]
    [] OTHER -> a

\* An event joins the accumulator of its window.
Absorb(f, e, label) == [f EXCEPT ![Bucket(e, label)] = Accumulate(@, e)]

ComputeWindows(events, label) ==
  LET ks  == {Bucket(events[i], label) : i \in DOMAIN events}
      acc == FoldLeft(LAMBDA f, e : Absorb(f, e, label), [k \in ks |-> NoAcc], events)
  IN {[key |-> k,
       vwap |-> IF acc[k].vol > 0 THEN <<acc[k].pv, acc[k].vol>> ELSE Null,
       volume |-> acc[k].vol, trades |-> acc[k].trades,
       spread |-> IF acc[k].tickers > 0 THEN <<acc[k].spread, acc[k].tickers>> ELSE Null,
       mid |-> IF acc[k].tickers > 0 THEN <<acc[k].mid, acc[k].tickers>> ELSE Null,
       tickers |-> acc[k].tickers] : k \in ks}

Oracle(events) == UNION {ComputeWindows(events, l) : l \in Labels}

-----------------------------------------------------------------------------
(* The trade windows of processing/app.py.  Bronze holds the trades of a   *)
(* symbol in the order of their partition, the one the stream reads.       *)

Trades(b) == {i \in DOMAIN b : b[i].type = "trade"}

\* closing_strategy="key": a trade of the symbol among these is past the grace.
ClosedBy(b, is, k) ==
  \E m \in is : b[m].sym = k.sym /\ b[m].ts >= k.start + Width[k.label] + Grace

\* The trades of a window that arrive before it is closed; on_late drops the others.
OnTime(b, k) ==
  {n \in Members(b, Trades(b), k) : ~ClosedBy(b, {m \in Trades(b) : m < n}, k)}

\* Mutant: the guard of the VWAP is the number of trades.
StreamWindowMutant(b, k) ==
  LET is  == OnTime(b, k)
      vol == SumFunction([i \in is |-> b[i].size])
  IN [key |-> k,
      vwap |-> IF is # {} THEN <<SumFunction([i \in is |-> b[i].price * b[i].size]), vol>>
               ELSE Null,
      volume |-> vol, count |-> Cardinality(is)]

\* _finalize_trade_window.
StreamWindow(b, k) ==
  LET is  == OnTime(b, k)
      vol == SumFunction([i \in is |-> b[i].size])
  IN [key |-> k,
      vwap |-> IF vol > 0 THEN <<SumFunction([i \in is |-> b[i].price * b[i].size]), vol>>
               ELSE Null,
      volume |-> vol, count |-> Cardinality(is)]

\* The windows the stream has published once it has read every trade of b.
StreamWindows(b) ==
  {StreamWindow(b, k) : k \in {k \in Buckets(b, Trades(b)) :
                                 OnTime(b, k) # {} /\ ClosedBy(b, Trades(b), k)}}

-----------------------------------------------------------------------------
(* quality/sla.py and quality/contract.py.                                 *)

\* Mutant: the baseline forgets that silver drops trades without an id.
SilverValidMutant(r) ==
  \/ r.type = "trade" /\ Given(r.price) /\ r.price > 0 /\ Given(r.size) /\ r.size >= 0
  \/ IsTicker(r)

\* _silver_valid, written apart from the SQL.
SilverValid(r) ==
  \/ /\ r.type = "trade" /\ Given(r.id)
     /\ Given(r.price) /\ r.price > 0 /\ Given(r.size) /\ r.size >= 0
  \/ r.type = "ticker" /\ Given(r.bid) /\ Given(r.ask) /\ r.ask >= r.bid

ExpectedWindows(b, sym) ==
  Cardinality({k \in Buckets(b, {i \in DOMAIN b : SilverValid(b[i])}) : k.sym = sym})

ProducedWindows(gold, sym) == Cardinality({g \in gold : g.key.sym = sym})

\* The rows _gold_violations counts; a wrong event_count cannot occur.
GoldViolations(gold) ==
  {g \in gold : \/ g.tickers > 0 /\ g.spread[1] < 0
                \/ g.trades > 0 /\ (g.vwap = Null \/ g.vwap[1] <= 0)}

\* Mutant: the price column is not nullable.
ContractOKMutant(r) ==
  /\ r.sym \in Symbols
  /\ BasicContract(r)
  /\ Given(r.price)
  /\ r.type = "trade" => Given(r.size)

\* build_contract, for one row.  What it asks of the two quote sizes the validator
\* of MarketEvent asks as well, and no mart reads them.
ContractOK(r) ==
  /\ r.sym \in Symbols
  /\ BasicContract(r)
  /\ r.type = "trade" => Given(r.price) /\ Given(r.size)

-----------------------------------------------------------------------------
\* The rows of b with these numbers, as a sequence.
Enumerated(b, is) ==
  LET s == SetToSeq(is)
  IN [n \in DOMAIN s |-> b[s[n]]]

\* Gold is the oracle's windows of the silver rows, values and all, with no
\* window missing and none spurious (tests/test_marts.py:36-79).
GoldMatchesOracle ==
  Gold(bronze) = Oracle(Enumerated(bronze, SilverTrades(bronze) \cup SilverTicker(bronze)))

\* Landing a trade a second time changes nothing in gold, wherever the copy lands:
\* behind every row, as bronze_writer appends it, or before any of them.
RedeliveryIdempotent ==
  LET again(i, n) == InsertAt(bronze, n, [bronze[i] EXCEPT !.ingest = @ + 1])
  IN \A i \in DOMAIN bronze : bronze[i].type = "trade" /\ Given(bronze[i].id) =>
       \A n \in 1..(Len(bronze) + 1) : Gold(again(i, n)) = Gold(bronze)

\* The SLA's completeness is 100 % for every symbol whenever gold was built
\* from the bronze it is measured against: the baseline, which is written
\* apart from the SQL, counts the same windows.  So no run of this system can
\* fail it by losing events before bronze.
CompletenessIsFull ==
  \A sym \in {r.sym : r \in ToSet(bronze)} :
    ProducedWindows(Gold(bronze), sym) = ExpectedWindows(bronze, sym)

\* What silver keeps breaks the batch contract in one way only, by its symbol:
\* silver has no filter for symbols that source.yaml does not, or no longer, list.
\* Everything else the contract rejects is a trade silver has dropped, and the only
\* violation the SLA can still find in gold is a window whose trades all have size
\* zero (contract.py:58-83, silver_trades.sql, silver_ticker.sql, sla.py:93-100).
ContractGuardsGold ==
  /\ \A i \in SilverTrades(bronze) \cup SilverTicker(bronze) :
       ContractOK(bronze[i]) <=> bronze[i].sym \in Symbols
  /\ \A i \in DOMAIN bronze : ~ContractOK(bronze[i]) =>
       bronze[i].sym \notin Symbols \/ (bronze[i].type = "trade" /\ ~SilverValid(bronze[i]))
  /\ \A g \in GoldViolations(Gold(bronze)) : g.volume = 0 /\ g.trades > 0

\* How far gold_window_metrics.sql:4-5 goes, "this batch SQL mart and the Quix
\* Streams windows agree window-for-window", for trades that have an id, a price and
\* a size and come once.  Every window the stream publishes is a row of gold, which
\* also has the trades the stream dropped as late: its count and its volume are
\* those of the stream and of the late trades together, and its VWAP is the
\* stream's, null or not, where no trade of the window was late (app.py:48-90).
GoldAgreesWithStream ==
  LET trades == Trades(bronze)
      comparable ==
        /\ \A i \in trades :
             Given(bronze[i].id) /\ Given(bronze[i].price) /\ Given(bronze[i].size)
        /\ \A i, j \in trades : i # j => ~SameTrade(bronze[i], bronze[j])
  IN comparable => \A w \in StreamWindows(bronze) : \E g \in Gold(bronze) :
       LET late == Members(bronze, trades, w.key) \ OnTime(bronze, w.key)
       IN /\ g.key = w.key
          /\ g.trades = w.count + Cardinality(late)
          /\ g.volume = w.volume + SumFunction([i \in late |-> bronze[i].size])
          /\ late = {} => g.vwap = w.vwap
=============================================================================
