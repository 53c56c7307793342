----------------------------- MODULE MartsProofs -----------------------------
(***************************************************************************)
(* Proofs of the properties of Marts, for every bronze.                    *)
(*                                                                         *)
(* The state is one sequence and its only invariant is BronzeOK, that every*)
(* row has passed the schema; all else is a theorem about the operators    *)
(* built from such a sequence.  The module proves in turn                  *)
(*   - that silver keeps exactly one row of each trade (OneIsKept), and    *)
(*     that gold has one row per bucket (GoldRows);                        *)
(*   - that a bronze that embeds into another, silver into silver, has the *)
(*     same gold (EmbeddedGold), which covers a trade landed twice;        *)
(*   - that the pass of compute_windows accumulates the sums (PassIs), and *)
(*     so that its windows are the rows of gold.                           *)
(***************************************************************************)
EXTENDS Marts, SumTheorems, SequenceTheorems, FiniteSetTheorems, WellFoundedInduction, TLAPS

-----------------------------------------------------------------------------
(* Bronze.                                                                 *)

\* The rows write_bronze lands.
LandedRows == {r \in Rows : BasicContract(r)}

BronzeOK == bronze \in Seq(LandedRows)

\* Bronze only ever holds rows that the schema accepts (bronze.py:53-108).
THEOREM MartsLandOnlyEvents == Spec => []BronzeOK
<1>1. Init => BronzeOK
  BY DEF Init, BronzeOK
<1>2. BronzeOK /\ [Next]_bronze => BronzeOK'
  <2> SUFFICES ASSUME BronzeOK, [Next]_bronze PROVE BronzeOK'
    OBVIOUS
  <2>1. CASE Next
    <3>1. PICK r \in Rows : BasicContract(r) /\ bronze' = Append(bronze, r)
      BY <2>1 DEF Next, Land
    <3>2. r \in LandedRows
      BY <3>1 DEF LandedRows
    <3>. QED
      BY <3>1, <3>2, AppendProperties DEF BronzeOK
  <2>2. CASE UNCHANGED bronze
    BY <2>2 DEF BronzeOK
  <2>. QED
    BY <2>1, <2>2
<1>. QED
  BY <1>1, <1>2, PTL DEF Spec

LEMMA RowTypes ==
  ASSUME NEW b \in Seq(Events)
  PROVE  /\ DOMAIN b = 1..Len(b) /\ Len(b) \in Nat /\ IsFiniteSet(DOMAIN b)
         /\ \A i \in DOMAIN b :
              /\ b[i] \in Events /\ i \in Nat
              /\ IsTrade(b[i]) => b[i].price \in Nat /\ b[i].size \in Nat /\ b[i].price > 0
              /\ IsTicker(b[i]) => b[i].bid \in Int /\ b[i].ask \in Int /\ b[i].ask >= b[i].bid
<1>1. DOMAIN b = 1..Len(b) /\ Len(b) \in Nat
  BY LenProperties
<1>2. IsFiniteSet(DOMAIN b)
  BY <1>1, FS_Interval
<1>3. ASSUME NEW i \in DOMAIN b
      PROVE  /\ b[i] \in Events /\ i \in Nat
             /\ IsTrade(b[i]) => b[i].price \in Nat /\ b[i].size \in Nat /\ b[i].price > 0
             /\ IsTicker(b[i]) => b[i].bid \in Int /\ b[i].ask \in Int /\ b[i].ask >= b[i].bid
  <2>1. b[i] \in Events /\ i \in Nat
    BY <1>1, <1>3, ElementOfSeq
  <2>2. /\ b[i].price \in Int \cup {Null} /\ b[i].size \in Int \cup {Null}
        /\ b[i].bid \in Int \cup {Null} /\ b[i].ask \in Int \cup {Null}
    BY <2>1 DEF Events
  <2>. QED
    BY <2>1, <2>2 DEF IsTrade, IsTicker, Given
<1>. QED
  BY <1>1, <1>2, <1>3

LEMMA LandedIsEvents ==
  ASSUME NEW b \in Seq(LandedRows)
  PROVE  /\ b \in Seq(Events)
         /\ \A i \in DOMAIN b : b[i] \in Rows /\ BasicContract(b[i])
<1>1. LandedRows \subseteq Events
  BY ConstantsAssumption DEF LandedRows
<1>2. b \in Seq(Events)
  BY <1>1, SeqMonotonic
<1>3. \A i \in DOMAIN b : b[i] \in LandedRows
  BY ElementOfSeq, LenProperties
<1>. QED
  BY <1>2, <1>3 DEF LandedRows

-----------------------------------------------------------------------------
(* Silver.                                                                 *)

LEMMA Least ==
  ASSUME NEW C, C # {}, NEW f \in [C -> Nat]
  PROVE  \E i \in C : \A j \in C : f[i] <= f[j]
<1> DEFINE T == {f[i] : i \in C}
<1>1. T \subseteq Nat /\ T # {}
  OBVIOUS
<1>2. PICK n \in T : \A m \in T : <<m, n>> \notin OpToRel(<, Nat)
  <2> HIDE DEF T
  <2>. QED
    BY <1>1, NatLessThanWellFounded, WFMin
<1>3. PICK i \in C : f[i] = n
  OBVIOUS
<1>4. ASSUME NEW j \in C PROVE f[i] <= f[j]
  <2>1. <<f[j], f[i]>> \notin OpToRel(<, Nat)
    BY <1>2, <1>3
  <2>. QED
    BY <2>1 DEF OpToRel
<1>. QED
  BY <1>4

\* Of the rows of a trade, silver keeps one.
LEMMA OneIsKept ==
  ASSUME NEW b \in Seq(Events), NEW i \in DOMAIN b, IsTrade(b[i])
  PROVE  \E r \in SilverTrades(b) : SameTrade(b[r], b[i])
<1> DEFINE C == {j \in DOMAIN b : IsTrade(b[j]) /\ SameTrade(b[i], b[j])}
<1>1. \A j \in C : /\ b[j].ts \in Nat /\ b[j].ingest \in Nat /\ b[j].price \in Nat
                   /\ b[j].size \in Nat /\ j \in Nat
  BY RowTypes DEF Events
<1>2. i \in C
  BY DEF SameTrade
<1>3. PICK p \in C : \A j \in C : b[p].ts <= b[j].ts
  <2> DEFINE f == [j \in C |-> b[j].ts]
  <2>1. f \in [C -> Nat]
    BY <1>1
  <2>2. \E j \in C : \A k \in C : f[j] <= f[k]
    <3> HIDE DEF f, C
    <3>. QED
      BY <1>2, <2>1, Least
  <2>. QED
    BY <2>2
<1> DEFINE C2 == {j \in C : b[j].ts = b[p].ts}
<1>4. PICK q \in C2 : \A j \in C2 : b[q].ingest <= b[j].ingest
  <2> DEFINE f == [j \in C2 |-> b[j].ingest]
  <2>1. f \in [C2 -> Nat] /\ C2 # {}
    BY <1>1
  <2>2. \E j \in C2 : \A k \in C2 : f[j] <= f[k]
    <3> HIDE DEF f, C2
    <3>. QED
      BY <2>1, Least
  <2>. QED
    BY <2>2
<1> DEFINE C3 == {j \in C2 : b[j].ingest = b[q].ingest}
<1>5. PICK u \in C3 : \A j \in C3 : b[u].price <= b[j].price
  <2> DEFINE f == [j \in C3 |-> b[j].price]
  <2>1. f \in [C3 -> Nat] /\ C3 # {}
    BY <1>1
  <2>2. \E j \in C3 : \A k \in C3 : f[j] <= f[k]
    <3> HIDE DEF f, C3
    <3>. QED
      BY <2>1, Least
  <2>. QED
    BY <2>2
<1> DEFINE C4 == {j \in C3 : b[j].price = b[u].price}
<1>6. PICK v \in C4 : \A j \in C4 : b[v].size <= b[j].size
  <2> DEFINE f == [j \in C4 |-> b[j].size]
  <2>1. f \in [C4 -> Nat] /\ C4 # {}
    BY <1>1
  <2>2. \E j \in C4 : \A k \in C4 : f[j] <= f[k]
    <3> HIDE DEF f, C4
    <3>. QED
      BY <2>1, Least
  <2>. QED
    BY <2>2
<1> DEFINE C5 == {j \in C4 : b[j].size = b[v].size}
<1>7. PICK r \in C5 : \A j \in C5 : r <= j
  <2> DEFINE f == [j \in C5 |-> j]
  <2>1. f \in [C5 -> Nat] /\ C5 # {}
    BY <1>1
  <2>2. \E j \in C5 : \A k \in C5 : f[j] <= f[k]
    <3> HIDE DEF f, C5
    <3>. QED
      BY <2>1, Least
  <2>. QED
    BY <2>2
<1>8. /\ r \in C
      /\ \A j \in C : /\ b[r].ts <= b[j].ts
                      /\ b[j].ts = b[r].ts => b[r].ingest <= b[j].ingest
                      /\ b[j].ts = b[r].ts /\ b[j].ingest = b[r].ingest
                           => b[r].price <= b[j].price
                      /\ b[j].ts = b[r].ts /\ b[j].ingest = b[r].ingest
                           /\ b[j].price = b[r].price => b[r].size <= b[j].size
                      /\ b[j].ts = b[r].ts /\ b[j].ingest = b[r].ingest
                           /\ b[j].price = b[r].price /\ b[j].size = b[r].size => r <= j
  BY <1>3, <1>4, <1>5, <1>6, <1>7
<1>9. r \in SilverTrades(b)
  <2> SUFFICES ASSUME NEW j \in DOMAIN b \ {r}, IsTrade(b[j]), SameTrade(b[r], b[j])
               PROVE  Precedes(b[r], b[j]) \/ (~Precedes(b[j], b[r]) /\ r < j)
    BY <1>8 DEF SilverTrades
  <2>1. j \in C
    BY <1>8 DEF SameTrade
  <2>2. /\ b[r].ts \in Nat /\ b[r].ingest \in Nat /\ b[r].price \in Nat
        /\ b[r].size \in Nat /\ r \in Nat
        /\ b[j].ts \in Nat /\ b[j].ingest \in Nat /\ b[j].price \in Nat
        /\ b[j].size \in Nat /\ j \in Nat
    BY <1>1, <1>8, <2>1
  <2>3. /\ b[r].ts <= b[j].ts
        /\ b[j].ts = b[r].ts => b[r].ingest <= b[j].ingest
        /\ b[j].ts = b[r].ts /\ b[j].ingest = b[r].ingest => b[r].price <= b[j].price
        /\ b[j].ts = b[r].ts /\ b[j].ingest = b[r].ingest
             /\ b[j].price = b[r].price => b[r].size <= b[j].size
        /\ b[j].ts = b[r].ts /\ b[j].ingest = b[r].ingest
             /\ b[j].price = b[r].price /\ b[j].size = b[r].size => r <= j
    BY <1>8, <2>1
  <2>4. r # j
    OBVIOUS
  <2> HIDE DEF C, C2, C3, C4, C5
  <2>5. CASE b[r].ts # b[j].ts
    <3>1. b[r].ts < b[j].ts
      BY <2>2, <2>3, <2>5
    <3>. QED
      BY <3>1 DEF Precedes
  <2>6. CASE b[r].ts = b[j].ts /\ b[r].ingest # b[j].ingest
    <3>1. b[r].ingest < b[j].ingest
      BY <2>2, <2>3, <2>6
    <3>. QED
      BY <2>6, <3>1 DEF Precedes
  <2>7. CASE /\ b[r].ts = b[j].ts /\ b[r].ingest = b[j].ingest
             /\ b[r].price # b[j].price
    <3>1. b[r].price < b[j].price
      BY <2>2, <2>3, <2>7
    <3>. QED
      BY <2>7, <3>1 DEF Precedes
  <2>8. CASE /\ b[r].ts = b[j].ts /\ b[r].ingest = b[j].ingest
             /\ b[r].price = b[j].price /\ b[r].size # b[j].size
    <3>1. b[r].size < b[j].size
      BY <2>2, <2>3, <2>8
    <3>. QED
      BY <2>8, <3>1 DEF Precedes
  <2>9. CASE /\ b[r].ts = b[j].ts /\ b[r].ingest = b[j].ingest
             /\ b[r].price = b[j].price /\ b[r].size = b[j].size
    <3>1. r < j
      BY <2>2, <2>3, <2>4, <2>9
    <3>2. ~Precedes(b[j], b[r])
      BY <2>2, <2>9 DEF Precedes
    <3>. QED
      BY <3>1, <3>2
  <2>. QED
    BY <2>5, <2>6, <2>7, <2>8, <2>9
<1>. QED
  BY <1>8, <1>9 DEF SameTrade

-----------------------------------------------------------------------------
(* Gold, row by row.                                                       *)

TradeKeys(b) == Buckets(b, SilverTrades(b))
TickerKeys(b) == Buckets(b, SilverTicker(b))

GoldRow(b, k) ==
  Row(k, IF k \in TradeKeys(b) THEN TradeWindow(b, k) ELSE NoTrades,
         IF k \in TickerKeys(b) THEN TickerWindow(b, k) ELSE NoTickers)

\* The outer join has one row per bucket.
LEMMA GoldRows ==
  ASSUME NEW b
  PROVE  Gold(b) = {GoldRow(b, k) : k \in TradeKeys(b) \cup TickerKeys(b)}
<1>1. \A k : TradeWindow(b, k).key = k /\ TickerWindow(b, k).key = k
  BY DEF TradeWindow, TickerWindow
<1>2. /\ TradeWindows(b) = {TradeWindow(b, k) : k \in TradeKeys(b)}
      /\ TickerWindows(b) = {TickerWindow(b, k) : k \in TickerKeys(b)}
  BY DEF TradeWindows, TickerWindows, TradeKeys, TickerKeys
<1>3. ASSUME NEW k \in TradeKeys(b) \cup TickerKeys(b) PROVE GoldRow(b, k) \in Gold(b)
  <2>1. CASE k \in TradeKeys(b) /\ k \in TickerKeys(b)
    <3>1. GoldRow(b, k) = Row(k, TradeWindow(b, k), TickerWindow(b, k))
      BY <2>1 DEF GoldRow
    <3> DEFINE p == <<TradeWindow(b, k), TickerWindow(b, k)>>
    <3>2. p \in {x \in TradeWindows(b) \X TickerWindows(b) : Joins(x[1], x[2])}
      BY <1>1, <1>2, <2>1 DEF Joins
    <3>3. GoldRow(b, k) = Row(p[1].key, p[1], p[2])
      BY <1>1, <3>1
    <3> HIDE DEF p
    <3>. QED
      BY <3>2, <3>3 DEF Gold
  <2>2. CASE k \in TradeKeys(b) /\ k \notin TickerKeys(b)
    <3>1. GoldRow(b, k) = Row(TradeWindow(b, k).key, TradeWindow(b, k), NoTickers)
      BY <1>1, <2>2 DEF GoldRow
    <3>2. /\ TradeWindow(b, k) \in TradeWindows(b)
          /\ \A q \in TickerWindows(b) : ~Joins(TradeWindow(b, k), q)
      BY <1>1, <1>2, <2>2 DEF Joins
    <3>. QED
      BY <3>1, <3>2 DEF Gold
  <2>3. CASE k \notin TradeKeys(b) /\ k \in TickerKeys(b)
    <3>1. GoldRow(b, k) = Row(TickerWindow(b, k).key, NoTrades, TickerWindow(b, k))
      BY <1>1, <2>3 DEF GoldRow
    <3>2. /\ TickerWindow(b, k) \in TickerWindows(b)
          /\ \A t \in TradeWindows(b) : ~Joins(t, TickerWindow(b, k))
      BY <1>1, <1>2, <2>3 DEF Joins
    <3>. QED
      BY <3>1, <3>2 DEF Gold
  <2>. QED
    BY <2>1, <2>2, <2>3
<1>4. ASSUME NEW g \in Gold(b)
      PROVE  \E k \in TradeKeys(b) \cup TickerKeys(b) : g = GoldRow(b, k)
  <2>1. CASE \E p \in TradeWindows(b) \X TickerWindows(b) :
               Joins(p[1], p[2]) /\ g = Row(p[1].key, p[1], p[2])
    <3>1. PICK t \in TradeWindows(b), q \in TickerWindows(b) :
                 Joins(t, q) /\ g = Row(t.key, t, q)
      BY <2>1
    <3>2. PICK k \in TradeKeys(b) : t = TradeWindow(b, k)
      BY <1>2
    <3>3. PICK l \in TickerKeys(b) : q = TickerWindow(b, l)
      BY <1>2
    <3>4. k = l
      BY <1>1, <3>1, <3>2, <3>3 DEF Joins
    <3>. QED
      BY <1>1, <3>1, <3>2, <3>3, <3>4 DEF GoldRow
  <2>2. CASE \E t \in TradeWindows(b) : /\ \A q \in TickerWindows(b) : ~Joins(t, q)
                                        /\ g = Row(t.key, t, NoTickers)
    <3>1. PICK k \in TradeKeys(b) :
                 /\ \A q \in TickerWindows(b) : ~Joins(TradeWindow(b, k), q)
                 /\ g = Row(k, TradeWindow(b, k), NoTickers)
      BY <1>1, <1>2, <2>2
    <3>2. k \notin TickerKeys(b)
      BY <1>1, <1>2, <3>1 DEF Joins
    <3>. QED
      BY <3>1, <3>2 DEF GoldRow
  <2>3. CASE \E q \in TickerWindows(b) : /\ \A t \in TradeWindows(b) : ~Joins(t, q)
                                         /\ g = Row(q.key, NoTrades, q)
    <3>1. PICK k \in TickerKeys(b) :
                 /\ \A t \in TradeWindows(b) : ~Joins(t, TickerWindow(b, k))
                 /\ g = Row(k, NoTrades, TickerWindow(b, k))
      BY <1>1, <1>2, <2>3
    <3>2. k \notin TradeKeys(b)
      BY <1>1, <1>2, <3>1 DEF Joins
    <3>. QED
      BY <3>1, <3>2 DEF GoldRow
  <2>. QED
    BY <2>1, <2>2, <2>3 DEF Gold
<1>. QED
  BY <1>3, <1>4

-----------------------------------------------------------------------------
(* Completeness.                                                           *)

\* The baseline of the SLA and the SQL agree on which buckets there are.
LEMMA SameKeys ==
  ASSUME NEW b \in Seq(LandedRows)
  PROVE  TradeKeys(b) \cup TickerKeys(b)
           = Buckets(b, {i \in DOMAIN b : SilverValid(b[i])})
<1> DEFINE V == {i \in DOMAIN b : SilverValid(b[i])}
<1>1. /\ b \in Seq(Events)
      /\ \A i \in DOMAIN b : b[i] \in Rows /\ BasicContract(b[i]) /\ b[i] \in Events
  BY LandedIsEvents, RowTypes
<1>2. \A i \in DOMAIN b : SilverValid(b[i]) <=> IsTrade(b[i]) \/ IsTicker(b[i])
  BY DEF SilverValid, IsTrade, IsTicker
<1>3. SilverTrades(b) \subseteq V /\ SilverTicker(b) \subseteq V
  BY <1>2 DEF SilverTrades, SilverTicker
<1>4. ASSUME NEW k \in TradeKeys(b) \cup TickerKeys(b) PROVE k \in Buckets(b, V)
  <2> HIDE DEF V
  <2>. QED
    BY <1>3 DEF TradeKeys, TickerKeys, Buckets
<1>5. ASSUME NEW k \in Buckets(b, V) PROVE k \in TradeKeys(b) \cup TickerKeys(b)
  <2>1. PICK i \in V, l \in Labels : k = Bucket(b[i], l)
    BY DEF Buckets
  <2>2. CASE IsTicker(b[i])
    <3>1. i \in SilverTicker(b)
      BY <2>2 DEF SilverTicker
    <3>. QED
      BY <2>1, <3>1 DEF TickerKeys, Buckets
  <2>3. CASE IsTrade(b[i])
    <3>1. PICK r \in SilverTrades(b) : SameTrade(b[r], b[i])
      BY <1>1, <2>3, OneIsKept
    <3>2. r \in DOMAIN b /\ IsTrade(b[r])
      BY DEF SilverTrades
    <3>3. b[r].ts = b[i].ts
      BY <1>1, <2>3, <3>1, <3>2, TradeIdsAssumption DEF SameTrade
    <3>4. k = Bucket(b[r], l)
      BY <2>1, <3>1, <3>3 DEF Bucket, SameTrade
    <3>. QED
      BY <3>4 DEF TradeKeys, Buckets
  <2>. QED
    BY <1>2, <2>2, <2>3
<1>. QED
  BY <1>4, <1>5

LEMMA KeysFinite ==
  ASSUME NEW b \in Seq(Events), NEW is \in SUBSET DOMAIN b
  PROVE  IsFiniteSet(Buckets(b, is))
<1> DEFINE f == [p \in is \X Labels |-> Bucket(b[p[1]], p[2])]
<1>1. IsFiniteSet(is)
  BY RowTypes, FS_Subset
<1>2. IsFiniteSet(is \X Labels)
  BY <1>1, ConstantsAssumption, FS_Product
<1>3. f \in Surjection(is \X Labels, Buckets(b, is))
  <2>1. f \in [is \X Labels -> Buckets(b, is)]
    BY DEF Buckets
  <2>2. ASSUME NEW k \in Buckets(b, is) PROVE \E p \in is \X Labels : f[p] = k
    <3>1. PICK i \in is, l \in Labels : k = Bucket(b[i], l)
      BY DEF Buckets
    <3>2. <<i, l>> \in is \X Labels /\ f[<<i, l>>] = k
      BY <3>1
    <3>. QED
      BY <3>2
  <2> HIDE DEF f
  <2>. QED
    BY <2>1, <2>2 DEF Surjection
<1>. QED
  BY <1>2, <1>3, FS_Surjection

\* Gold has as many windows of a symbol as the baseline expects, for every bronze
\* table: the duplicates that silver drops cost no window (sla.py:72-120).
THEOREM SlaCompleteness == Spec => []CompletenessIsFull
<1>1. BronzeOK => CompletenessIsFull
  <2> SUFFICES ASSUME bronze \in Seq(LandedRows), NEW sym
               PROVE  ProducedWindows(Gold(bronze), sym) = ExpectedWindows(bronze, sym)
    BY DEF BronzeOK, CompletenessIsFull
  <2> DEFINE V == {i \in DOMAIN bronze : SilverValid(bronze[i])}
             K == {k \in Buckets(bronze, V) : k.sym = sym}
             G == {g \in Gold(bronze) : g.key.sym = sym}
             f == [k \in K |-> GoldRow(bronze, k)]
  <2>1. bronze \in Seq(Events)
    BY LandedIsEvents
  <2>2. IsFiniteSet(K)
    <3>1. IsFiniteSet(Buckets(bronze, V)) /\ K \in SUBSET Buckets(bronze, V)
      BY <2>1, KeysFinite
    <3>. QED
      BY <3>1, FS_Subset
  <2>3. \A k : GoldRow(bronze, k).key = k
    BY DEF GoldRow, Row
  <2>4. Gold(bronze) = {GoldRow(bronze, k) : k \in Buckets(bronze, V)}
    BY GoldRows, SameKeys
  <2>5. f \in Bijection(K, G)
    <3>1. f \in [K -> G]
      <4> HIDE DEF V
      <4>. QED
        BY <2>3, <2>4
    <3>2. \A k, l \in K : f[k] = f[l] => k = l
      <4>1. \A k \in K : f[k].key = k
        BY <2>3
      <4> HIDE DEF f
      <4>. QED
        BY <4>1
    <3>3. \A g \in G : \E k \in K : f[k] = g
      <4> SUFFICES ASSUME NEW g \in G PROVE \E k \in K : f[k] = g
        OBVIOUS
      <4>1. PICK k \in Buckets(bronze, V) : g = GoldRow(bronze, k)
        BY <2>4
      <4>2. k \in K /\ f[k] = g
        BY <2>3, <4>1
      <4>. QED
        BY <4>2
    <3> HIDE DEF f
    <3>. QED
      BY <3>1, <3>2, <3>3 DEF Bijection, Injection, Surjection, IsInjective
  <2>6. ExistsBijection(K, G)
    BY <2>5 DEF ExistsBijection
  <2>7. Cardinality(G) = Cardinality(K)
    BY <2>2, <2>6, FS_Bijection
  <2>. QED
    BY <2>7 DEF ProducedWindows, ExpectedWindows
<1>. QED
  BY <1>1, MartsLandOnlyEvents, PTL

-----------------------------------------------------------------------------
(* The contract.                                                           *)

LEMMA SilverRows ==
  ASSUME NEW b
  PROVE  /\ SilverTrades(b) \in SUBSET {i \in DOMAIN b : IsTrade(b[i])}
         /\ SilverTicker(b) = {i \in DOMAIN b : IsTicker(b[i])}
         /\ \A k : /\ Members(b, SilverTrades(b), k) \in SUBSET SilverTrades(b)
                   /\ Members(b, SilverTicker(b), k) \in SUBSET SilverTicker(b)
BY DEF SilverTrades, SilverTicker, Members

LEMMA SilverFinite ==
  ASSUME NEW b \in Seq(Events), NEW k
  PROVE  /\ IsFiniteSet(Members(b, SilverTrades(b), k))
         /\ IsFiniteSet(Members(b, SilverTicker(b), k))
<1>1. IsFiniteSet(DOMAIN b)
  BY RowTypes
<1>2. /\ Members(b, SilverTrades(b), k) \in SUBSET DOMAIN b
      /\ Members(b, SilverTicker(b), k) \in SUBSET DOMAIN b
  BY SilverRows
<1>. QED
  BY <1>1, <1>2, FS_Subset

\* The sums of a window of trades.
LEMMA TradeSums ==
  ASSUME NEW b \in Seq(Events), NEW k
  PROVE  LET is == Members(b, SilverTrades(b), k)
             vol == SumFunction([i \in is |-> b[i].size])
             pv  == SumFunction([i \in is |-> b[i].price * b[i].size])
         IN /\ IsFiniteSet(is) /\ vol \in Nat /\ pv \in Int /\ vol <= pv
            /\ [i \in is |-> b[i].size] \in [is -> Int]
            /\ [i \in is |-> b[i].price * b[i].size] \in [is -> Int]
<1> DEFINE is == Members(b, SilverTrades(b), k)
           f == [i \in is |-> b[i].size]
           h == [i \in is |-> b[i].price * b[i].size]
<1>1. IsFiniteSet(is)
  BY SilverFinite
<1>2. \A i \in is : b[i].price \in Nat /\ b[i].price > 0 /\ b[i].size \in Nat
  BY SilverRows, RowTypes
<1> HIDE DEF is
<1>3. \A p, s \in Nat : p > 0 => p * s \in Nat /\ s <= p * s
  OBVIOUS
<1>4. \A i \in is : b[i].price * b[i].size \in Nat /\ b[i].size <= b[i].price * b[i].size
  BY <1>2, <1>3
<1>5. f \in [is -> Nat] /\ f \in [is -> Int] /\ h \in [is -> Int]
      /\ \A i \in is : f[i] <= h[i]
  BY <1>2, <1>4
<1> HIDE DEF f, h
<1>6. SumFunction(f) \in Nat
  BY <1>1, <1>5, SumNat
<1>7. SumFunction(h) \in Int
  BY <1>1, <1>5, SumType
<1>8. SumFunction(f) <= SumFunction(h)
  BY <1>1, <1>5, SumMonotone
<1>. QED
  BY <1>1, <1>5, <1>6, <1>7, <1>8 DEF is, f, h

LEMMA TickerSums ==
  ASSUME NEW b \in Seq(Events), NEW k
  PROVE  LET is == Members(b, SilverTicker(b), k)
         IN /\ IsFiniteSet(is)
            /\ [i \in is |-> b[i].ask - b[i].bid] \in [is -> Int]
            /\ [i \in is |-> b[i].ask + b[i].bid] \in [is -> Int]
            /\ SumFunction([i \in is |-> b[i].ask - b[i].bid]) \in Nat
<1> DEFINE is == Members(b, SilverTicker(b), k)
           f == [i \in is |-> b[i].ask - b[i].bid]
<1>1. IsFiniteSet(is)
  BY SilverFinite
<1>2. \A i \in is : b[i].ask \in Int /\ b[i].bid \in Int /\ b[i].ask >= b[i].bid
  BY SilverRows, RowTypes
<1> HIDE DEF is
<1>3. f \in [is -> Nat] /\ f \in [is -> Int] /\ [i \in is |-> b[i].ask + b[i].bid] \in [is -> Int]
  BY <1>2
<1> HIDE DEF f
<1>4. SumFunction(f) \in Nat
  BY <1>1, <1>3, SumNat
<1>. QED
  BY <1>1, <1>3, <1>4 DEF is, f

LEMMA ViolationsAreEmptyVolume ==
  ASSUME NEW b \in Seq(Events), NEW g \in GoldViolations(Gold(b))
  PROVE  g.volume = 0 /\ g.trades > 0
<1>1. PICK k \in TradeKeys(b) \cup TickerKeys(b) : g = GoldRow(b, k)
  BY GoldRows DEF GoldViolations
<1> DEFINE t == IF k \in TradeKeys(b) THEN TradeWindow(b, k) ELSE NoTrades
           q == IF k \in TickerKeys(b) THEN TickerWindow(b, k) ELSE NoTickers
<1>2. /\ g.vwap = t.vwap /\ g.volume = t.volume /\ g.trades = t.count
      /\ g.spread = q.spread /\ g.tickers = q.count
  BY <1>1 DEF GoldRow, Row
<1>3. \/ g.tickers > 0 /\ g.spread[1] < 0
      \/ g.trades > 0 /\ (g.vwap = Null \/ g.vwap[1] <= 0)
  BY DEF GoldViolations
<1>4. ~(q.count > 0 /\ q.spread[1] < 0)
  <2>1. CASE k \in TickerKeys(b)
    <3> DEFINE is == Members(b, SilverTicker(b), k)
               s == SumFunction([i \in is |-> b[i].ask - b[i].bid])
    <3>1. q.spread = <<s, Cardinality(is)>>
      BY <2>1 DEF TickerWindow
    <3>2. s \in Nat
      BY TickerSums
    <3> HIDE DEF s, is, q
    <3>. QED
      BY <3>1, <3>2
  <2>2. CASE k \notin TickerKeys(b)
    BY <2>2 DEF NoTickers
  <2>. QED
    BY <2>1, <2>2
<1>5. t.count > 0 /\ (t.vwap = Null \/ t.vwap[1] <= 0) => t.volume = 0
  <2>1. CASE k \in TradeKeys(b)
    <3> DEFINE is == Members(b, SilverTrades(b), k)
               vol == SumFunction([i \in is |-> b[i].size])
               pv  == SumFunction([i \in is |-> b[i].price * b[i].size])
    <3>1. t.volume = vol /\ t.vwap = IF vol = 0 THEN Null ELSE <<pv, vol>>
      BY <2>1 DEF TradeWindow
    <3>2. vol \in Nat /\ pv \in Int /\ vol <= pv
      BY TradeSums
    <3> HIDE DEF vol, pv, is, t
    <3>3. <<pv, vol>> # Null
      BY <3>2, NullAssumption
    <3>. QED
      BY <3>1, <3>2, <3>3
  <2>2. CASE k \notin TradeKeys(b)
    BY <2>2 DEF NoTrades
  <2>. QED
    BY <2>1, <2>2
<1> HIDE DEF t, q
<1>. QED
  BY <1>2, <1>3, <1>4, <1>5

\* A row of silver breaks the contract only by a symbol source.yaml does not list; all
\* else the contract rejects silver drops, and gold's one violation is a window of
\* trades without volume (contract.py:58-83, sla.py:93-100, gold_window_metrics.sql).
THEOREM ContractProtectsGold == Spec => []ContractGuardsGold
<1>1. BronzeOK => ContractGuardsGold
  <2> SUFFICES ASSUME bronze \in Seq(LandedRows) PROVE ContractGuardsGold
    BY DEF BronzeOK
  <2>1. bronze \in Seq(Events) /\ \A i \in DOMAIN bronze : BasicContract(bronze[i])
    BY LandedIsEvents
  <2>2. \A i \in SilverTrades(bronze) \cup SilverTicker(bronze) :
          ContractOK(bronze[i]) <=> bronze[i].sym \in Symbols
    BY <2>1, SilverRows DEF ContractOK, IsTrade, IsTicker
  <2>3. \A i \in DOMAIN bronze :
          ~ContractOK(bronze[i]) =>
            \/ bronze[i].sym \notin Symbols
            \/ bronze[i].type = "trade" /\ ~SilverValid(bronze[i])
    BY <2>1 DEF ContractOK, SilverValid
  <2>4. \A g \in GoldViolations(Gold(bronze)) : g.volume = 0 /\ g.trades > 0
    BY <2>1, ViolationsAreEmptyVolume
  <2>. QED
    BY <2>2, <2>3, <2>4 DEF ContractGuardsGold
<1>. QED
  BY <1>1, MartsLandOnlyEvents, PTL

-----------------------------------------------------------------------------
(* Redelivery.                                                             *)

\* s places every row of b in c, and silver of c is silver of b in those places.
Embeds(s, b, c) ==
  /\ s \in [DOMAIN b -> DOMAIN c]
  /\ \A i, j \in DOMAIN b : s[i] = s[j] => i = j
  /\ \A i \in DOMAIN b : c[s[i]] = b[i]
  /\ SilverTrades(c) = {s[i] : i \in SilverTrades(b)}
  /\ SilverTicker(c) = {s[i] : i \in SilverTicker(b)}

LEMMA EmbeddedMembers ==
  ASSUME NEW b, NEW c, NEW s, Embeds(s, b, c), NEW k
  PROVE  /\ Members(c, SilverTrades(c), k) = {s[i] : i \in Members(b, SilverTrades(b), k)}
         /\ Members(c, SilverTicker(c), k) = {s[i] : i \in Members(b, SilverTicker(b), k)}
<1>1. \A i \in DOMAIN b : c[s[i]] = b[i]
  BY DEF Embeds
<1>2. SilverTrades(b) \subseteq DOMAIN b /\ SilverTicker(b) \subseteq DOMAIN b
  BY SilverRows
<1>3. ASSUME NEW A, NEW B, A \subseteq DOMAIN b, B = {s[i] : i \in A}
      PROVE  Members(c, B, k) = {s[i] : i \in Members(b, A, k)}
  BY <1>1, <1>3 DEF Members
<1>. QED
  BY <1>2, <1>3 DEF Embeds

LEMMA EmbeddedKeys ==
  ASSUME NEW b, NEW c, NEW s, Embeds(s, b, c)
  PROVE  TradeKeys(c) = TradeKeys(b) /\ TickerKeys(c) = TickerKeys(b)
<1>1. \A i \in DOMAIN b : c[s[i]] = b[i]
  BY DEF Embeds
<1>2. SilverTrades(b) \subseteq DOMAIN b /\ SilverTicker(b) \subseteq DOMAIN b
  BY SilverRows
<1>3. ASSUME NEW A, NEW B, A \subseteq DOMAIN b, B = {s[i] : i \in A}
      PROVE  Buckets(c, B) = Buckets(b, A)
  BY <1>1, <1>3 DEF Buckets
<1>. QED
  BY <1>2, <1>3 DEF Embeds, TradeKeys, TickerKeys

\* Sums and counts of the same rows in other places are the same.
Moves(s, A, C) == C = {s[i] : i \in A} /\ \A i, j \in A : s[i] = s[j] => i = j

Follows(h, f, s, A) == \A i \in A : h[s[i]] = f[i]

LEMMA EmbeddedSum ==
  ASSUME NEW A, IsFiniteSet(A), NEW C, NEW s, Moves(s, A, C),
         NEW f \in [A -> Int], NEW h \in [C -> Int], Follows(h, f, s, A)
  PROVE  SumFunction(h) = SumFunction(f)
<1> DEFINE m == [i \in A |-> s[i]]
<1>1. /\ m \in [A -> C] /\ \A i \in A : h[m[i]] = f[i]
      /\ \A i, j \in A : m[i] = m[j] => i = j
      /\ \A k \in C : \E i \in A : m[i] = k
  BY DEF Moves, Follows
<1> HIDE DEF m
<1>2. m \in Surjection(A, C)
  BY <1>1 DEF Surjection
<1>3. IsFiniteSet(C)
  BY <1>2, FS_Surjection
<1>. QED
  BY <1>1, <1>3, SumBijection

LEMMA EmbeddedCount ==
  ASSUME NEW A, IsFiniteSet(A), NEW s, \A i, j \in A : s[i] = s[j] => i = j
  PROVE  Cardinality({s[i] : i \in A}) = Cardinality(A)
<1> DEFINE R == {s[i] : i \in A}
           m == [i \in A |-> s[i]]
<1>1. /\ m \in [A -> R] /\ \A i, j \in A : m[i] = m[j] => i = j
      /\ \A k \in R : \E i \in A : m[i] = k
  OBVIOUS
<1> HIDE DEF m, R
<1>2. m \in Bijection(A, R)
  BY <1>1 DEF Bijection, Injection, Surjection, IsInjective
<1>3. ExistsBijection(A, R)
  BY <1>2 DEF ExistsBijection
<1>4. Cardinality(R) = Cardinality(A)
  BY <1>3, FS_Bijection
<1>. QED
  BY <1>4 DEF R

LEMMA EmbeddedTrades ==
  ASSUME NEW b \in Seq(Events), NEW c \in Seq(Events), NEW s, Embeds(s, b, c), NEW k
  PROVE  TradeWindow(c, k) = TradeWindow(b, k)
<1> DEFINE A == Members(b, SilverTrades(b), k)
           C == Members(c, SilverTrades(c), k)
           fs == [i \in A |-> b[i].size]
           hs == [i \in C |-> c[i].size]
           fp == [i \in A |-> b[i].price * b[i].size]
           hp == [i \in C |-> c[i].price * c[i].size]
<1>1. C = {s[i] : i \in A}
  BY EmbeddedMembers
<1>2. IsFiniteSet(A)
  BY SilverFinite
<1>3. A \subseteq DOMAIN b
  BY SilverRows
<1>4. (\A i, j \in A : s[i] = s[j] => i = j) /\ (\A i \in A : c[s[i]] = b[i])
  BY <1>3 DEF Embeds
<1>5. fs \in [A -> Int] /\ fp \in [A -> Int]
  BY TradeSums
<1>6. hs \in [C -> Int] /\ hp \in [C -> Int]
  BY TradeSums
<1> HIDE DEF A, C
<1>7. \A i \in A : hs[s[i]] = fs[i] /\ hp[s[i]] = fp[i]
  BY <1>1, <1>4
<1> HIDE DEF fs, hs, fp, hp
<1>8. SumFunction(hs) = SumFunction(fs)
  <2>1. hs \in [C -> Int] /\ fs \in [A -> Int]
    BY <1>5, <1>6
  <2>2. Moves(s, A, C) /\ Follows(hs, fs, s, A)
    BY <1>1, <1>4, <1>7 DEF Moves, Follows
  <2>. QED
    BY <1>2, <2>1, <2>2, EmbeddedSum
<1>9. SumFunction(hp) = SumFunction(fp)
  <2>1. hp \in [C -> Int] /\ fp \in [A -> Int]
    BY <1>5, <1>6
  <2>2. Moves(s, A, C) /\ Follows(hp, fp, s, A)
    BY <1>1, <1>4, <1>7 DEF Moves, Follows
  <2>. QED
    BY <1>2, <2>1, <2>2, EmbeddedSum
<1>10. Cardinality(C) = Cardinality(A)
  BY <1>1, <1>2, <1>4, EmbeddedCount
<1>. QED
  BY <1>8, <1>9, <1>10 DEF TradeWindow, A, C, fs, hs, fp, hp

LEMMA EmbeddedTickers ==
  ASSUME NEW b \in Seq(Events), NEW c \in Seq(Events), NEW s, Embeds(s, b, c), NEW k
  PROVE  TickerWindow(c, k) = TickerWindow(b, k)
<1> DEFINE A == Members(b, SilverTicker(b), k)
           C == Members(c, SilverTicker(c), k)
           fs == [i \in A |-> b[i].ask - b[i].bid]
           hs == [i \in C |-> c[i].ask - c[i].bid]
           fm == [i \in A |-> b[i].ask + b[i].bid]
           hm == [i \in C |-> c[i].ask + c[i].bid]
<1>1. C = {s[i] : i \in A}
  BY EmbeddedMembers
<1>2. IsFiniteSet(A)
  BY SilverFinite
<1>3. A \subseteq DOMAIN b
  BY SilverRows
<1>4. (\A i, j \in A : s[i] = s[j] => i = j) /\ (\A i \in A : c[s[i]] = b[i])
  BY <1>3 DEF Embeds
<1>5. fs \in [A -> Int] /\ fm \in [A -> Int]
  BY TickerSums
<1>6. hs \in [C -> Int] /\ hm \in [C -> Int]
  BY TickerSums
<1> HIDE DEF A, C
<1>7. \A i \in A : hs[s[i]] = fs[i] /\ hm[s[i]] = fm[i]
  BY <1>1, <1>4
<1> HIDE DEF fs, hs, fm, hm
<1>8. SumFunction(hs) = SumFunction(fs)
  <2>1. hs \in [C -> Int] /\ fs \in [A -> Int]
    BY <1>5, <1>6
  <2>2. Moves(s, A, C) /\ Follows(hs, fs, s, A)
    BY <1>1, <1>4, <1>7 DEF Moves, Follows
  <2>. QED
    BY <1>2, <2>1, <2>2, EmbeddedSum
<1>9. SumFunction(hm) = SumFunction(fm)
  <2>1. hm \in [C -> Int] /\ fm \in [A -> Int]
    BY <1>5, <1>6
  <2>2. Moves(s, A, C) /\ Follows(hm, fm, s, A)
    BY <1>1, <1>4, <1>7 DEF Moves, Follows
  <2>. QED
    BY <1>2, <2>1, <2>2, EmbeddedSum
<1>10. Cardinality(C) = Cardinality(A)
  BY <1>1, <1>2, <1>4, EmbeddedCount
<1>. QED
  BY <1>8, <1>9, <1>10 DEF TickerWindow, A, C, fs, hs, fm, hm

LEMMA EmbeddedGold ==
  ASSUME NEW b \in Seq(Events), NEW c \in Seq(Events), NEW s, Embeds(s, b, c)
  PROVE  Gold(c) = Gold(b)
<1>1. TradeKeys(c) = TradeKeys(b) /\ TickerKeys(c) = TickerKeys(b)
  BY EmbeddedKeys
<1>2. \A k : TradeWindow(c, k) = TradeWindow(b, k) /\ TickerWindow(c, k) = TickerWindow(b, k)
  BY EmbeddedTrades, EmbeddedTickers
<1>3. \A k : GoldRow(c, k) = GoldRow(b, k)
  BY <1>1, <1>2 DEF GoldRow
<1>. QED
  BY <1>1, <1>3, GoldRows

\* The places of a table that has one more row.
Places(b) == 1..(Len(b) + 1)

\* Where the rows of a table are once one has been inserted at n.
Shift(b, n) == [j \in DOMAIN b |-> IF j < n THEN j ELSE j + 1]

LEMMA Inserted ==
  ASSUME NEW b \in Seq(Events), NEW n \in Places(b), NEW e \in Events
  PROVE  LET c == InsertAt(b, n, e)
         IN /\ c \in Seq(Events) /\ DOMAIN c = Places(b) /\ c[n] = e
            /\ \A j \in DOMAIN b : c[Shift(b, n)[j]] = b[j]
<1> DEFINE p == SubSeq(b, 1, n - 1)
           q == SubSeq(b, n, Len(b))
           pe == p \o <<e>>
           c == pe \o q
<1>1. Len(b) \in Nat /\ n \in 1..(Len(b) + 1) /\ \A i \in 1..Len(b) : b[i] \in Events
  BY LenProperties, ElementOfSeq DEF Places
<1>2. /\ p \in Seq(Events) /\ Len(p) = n - 1
      /\ \A i \in 1..(n - 1) : p[i] = b[i]
  <2>1. n - 1 \in Int /\ \A i \in 1..(n - 1) : b[i] \in Events
    BY <1>1
  <2>2. /\ p \in Seq(Events)
        /\ Len(p) = IF 1 <= n - 1 THEN (n - 1) - 1 + 1 ELSE 0
        /\ \A i \in 1..((n - 1) - 1 + 1) : p[i] = b[1 + i - 1]
    <3> HIDE DEF p
    <3>. QED
      BY <1>1, <2>1, SubSeqProperties DEF p
  <2>3. Len(p) = n - 1
    BY <1>1, <2>2
  <2>4. \A i \in 1..(n - 1) : p[i] = b[i]
    BY <1>1, <2>2
  <2>. QED
    BY <2>2, <2>3, <2>4
<1>3. /\ q \in Seq(Events) /\ Len(q) = Len(b) - n + 1
      /\ \A i \in 1..(Len(b) - n + 1) : q[i] = b[n + i - 1]
  <2>1. n \in Int /\ Len(b) \in Int /\ \A i \in n..Len(b) : b[i] \in Events
    BY <1>1
  <2>2. /\ q \in Seq(Events)
        /\ Len(q) = IF n <= Len(b) THEN Len(b) - n + 1 ELSE 0
        /\ \A i \in 1..(Len(b) - n + 1) : q[i] = b[n + i - 1]
    BY <2>1, SubSeqProperties
  <2>. QED
    BY <1>1, <2>2
<1>4. <<e>> \in Seq(Events) /\ Len(<<e>>) = 1 /\ <<e>>[1] = e
  OBVIOUS
<1> HIDE DEF p, q
<1>5. /\ pe \in Seq(Events) /\ Len(pe) = n
      /\ \A i \in 1..n : pe[i] = IF i <= n - 1 THEN p[i] ELSE e
  <2>1. /\ pe \in Seq(Events) /\ Len(pe) = Len(p) + Len(<<e>>)
        /\ \A i \in 1..(Len(p) + Len(<<e>>)) :
             pe[i] = IF i <= Len(p) THEN p[i] ELSE <<e>>[i - Len(p)]
    BY <1>2, <1>4, ConcatProperties
  <2>2. Len(pe) = n
    BY <1>1, <1>2, <1>4, <2>1
  <2>3. ASSUME NEW i \in 1..n PROVE pe[i] = IF i <= n - 1 THEN p[i] ELSE e
    <3>1. i \in 1..(Len(p) + Len(<<e>>))
      BY <1>1, <1>2, <1>4
    <3>2. CASE i <= n - 1
      BY <1>2, <2>1, <3>1, <3>2
    <3>3. CASE ~(i <= n - 1)
      <4>1. i - Len(p) = 1
        BY <1>1, <1>2, <3>3
      <4>. QED
        BY <1>2, <1>4, <2>1, <3>1, <3>3, <4>1
    <3>. QED
      BY <3>2, <3>3
  <2>. QED
    BY <2>1, <2>2, <2>3
<1> HIDE DEF pe
<1>6. /\ c \in Seq(Events) /\ Len(c) = n + Len(q)
      /\ \A i \in 1..(n + Len(q)) : c[i] = IF i <= n THEN pe[i] ELSE q[i - n]
  <2>1. /\ c \in Seq(Events) /\ Len(c) = Len(pe) + Len(q)
        /\ \A i \in 1..(Len(pe) + Len(q)) :
             c[i] = IF i <= Len(pe) THEN pe[i] ELSE q[i - Len(pe)]
    BY <1>3, <1>5, ConcatProperties
  <2>. QED
    BY <1>5, <2>1
<1>7. c = InsertAt(b, n, e)
  BY DEF InsertAt, pe, p, q
<1> HIDE DEF c
<1>8. DOMAIN c = Places(b) /\ n + Len(q) = Len(b) + 1
  BY <1>1, <1>3, <1>6, LenProperties DEF Places
<1>9. c[n] = e
  BY <1>1, <1>5, <1>6, <1>8
<1>10. ASSUME NEW j \in DOMAIN b PROVE c[Shift(b, n)[j]] = b[j]
  <2>1. j \in 1..Len(b)
    BY LenProperties
  <2>2. CASE j < n
    <3>1. Shift(b, n)[j] = j /\ j \in 1..(n + Len(q)) /\ j \in 1..n /\ j <= n - 1 /\ j <= n
      BY <1>1, <1>8, <2>1, <2>2 DEF Shift
    <3>2. c[j] = pe[j] /\ pe[j] = p[j] /\ p[j] = b[j]
      BY <1>1, <1>2, <1>5, <1>6, <2>1, <3>1
    <3>. QED
      BY <3>1, <3>2
  <2>3. CASE ~(j < n)
    <3>1. PICK m \in 1..(n + Len(q)) : m = j + 1
      BY <1>1, <1>8, <2>1
    <3>2. PICK d \in 1..(Len(b) - n + 1) : d = m - n
      BY <1>1, <2>1, <2>3, <3>1
    <3>3. Shift(b, n)[j] = m /\ ~(m <= n) /\ n + d - 1 = j
      BY <1>1, <2>1, <2>3, <3>1, <3>2 DEF Shift
    <3>4. c[m] = q[d]
      <4>1. c[m] = q[m - n]
        BY <1>6, <3>1, <3>3
      <4>. QED
        BY <3>2, <4>1
    <3>5. q[d] = b[j]
      <4>1. q[d] = b[n + d - 1]
        BY <1>3, <3>2
      <4>. QED
        BY <3>3, <4>1
    <3>. QED
      BY <3>3, <3>4, <3>5
  <2>. QED
    BY <2>2, <2>3
<1>. QED
  BY <1>6, <1>7, <1>8, <1>9, <1>10

LEMMA ShiftFacts ==
  ASSUME NEW b \in Seq(Events), NEW n \in Places(b)
  PROVE  /\ \A j \in DOMAIN b : /\ Shift(b, n)[j] \in Places(b)
                                /\ Shift(b, n)[j] # n
         /\ \A i, j \in DOMAIN b : Shift(b, n)[i] < Shift(b, n)[j] <=> i < j
         /\ \A i, j \in DOMAIN b : Shift(b, n)[i] = Shift(b, n)[j] => i = j
         /\ \A m \in Places(b) : m # n => \E j \in DOMAIN b : m = Shift(b, n)[j]
<1>1. DOMAIN b = 1..Len(b) /\ Len(b) \in Nat /\ n \in 1..(Len(b) + 1)
  BY LenProperties DEF Places
<1>2. \A j \in DOMAIN b : Shift(b, n)[j] = IF j < n THEN j ELSE j + 1
  BY DEF Shift
<1>3. ASSUME NEW m \in Places(b), m # n PROVE \E j \in DOMAIN b : m = Shift(b, n)[j]
  <2>. m \in 1..(Len(b) + 1)
    BY DEF Places
  <2>1. CASE m < n
    <3>1. m \in DOMAIN b /\ Shift(b, n)[m] = m
      BY <1>1, <1>2, <2>1
    <3>. QED
      BY <3>1
  <2>2. CASE ~(m < n)
    <3>1. m - 1 \in DOMAIN b /\ ~(m - 1 < n) /\ (m - 1) + 1 = m
      BY <1>1, <1>3, <2>2
    <3>2. Shift(b, n)[m - 1] = m
      BY <1>2, <3>1
    <3>. QED
      BY <3>1, <3>2
  <2>. QED
    BY <2>1, <2>2
<1>4. \A j \in DOMAIN b : Shift(b, n)[j] \in Places(b) /\ Shift(b, n)[j] # n
  BY <1>1, <1>2 DEF Places
<1>5. \A i, j \in DOMAIN b : Shift(b, n)[i] < Shift(b, n)[j] <=> i < j
  BY <1>1, <1>2
<1>6. \A i, j \in DOMAIN b : Shift(b, n)[i] = Shift(b, n)[j] => i = j
  BY <1>1, <1>2
<1>. QED
  BY <1>3, <1>4, <1>5, <1>6

\* The same trade, ingested a moment later.
Later(r) == [r EXCEPT !.ingest = @ + 1]

LEMMA LaterRow ==
  ASSUME NEW r \in Events
  PROVE  /\ Later(r) \in Events
         /\ Later(r).sym = r.sym /\ Later(r).type = r.type /\ Later(r).id = r.id
         /\ Later(r).price = r.price /\ Later(r).size = r.size
         /\ Later(r).bid = r.bid /\ Later(r).ask = r.ask
         /\ Later(r).ts = r.ts /\ Later(r).ingest = r.ingest + 1
BY DEF Later, Events

\* The copy is behind the trade, and behind all that is not behind the trade.
LEMMA LaterIsBehind ==
  ASSUME NEW r \in Events, NEW s \in Events, IsTrade(r), IsTrade(s), ~Precedes(r, s)
  PROVE  /\ Precedes(s, Later(r)) /\ ~Precedes(Later(r), s)
         /\ IsTrade(Later(r))
<1>1. /\ r.ts \in Nat /\ r.ingest \in Nat /\ r.price \in Int /\ r.size \in Int
      /\ s.ts \in Nat /\ s.ingest \in Nat /\ s.price \in Int /\ s.size \in Int
  BY DEF Events, IsTrade, Given
<1>2. IsTrade(Later(r))
  BY LaterRow DEF IsTrade, Given
<1>. QED
  BY <1>1, <1>2, LaterRow DEF Precedes

LEMMA PrecedesIsStrict ==
  ASSUME NEW r \in Events, NEW s \in Events, IsTrade(r), IsTrade(s)
  PROVE  Precedes(r, s) => ~Precedes(s, r)
<1>1. /\ r.ts \in Nat /\ r.ingest \in Nat /\ r.price \in Int /\ r.size \in Int
      /\ s.ts \in Nat /\ s.ingest \in Nat /\ s.price \in Int /\ s.size \in Int
  BY DEF Events, IsTrade, Given
<1>. QED
  BY <1>1 DEF Precedes

LEMMA RedeliveredSilver ==
  ASSUME NEW b \in Seq(Events), NEW i \in DOMAIN b, NEW n \in Places(b), b[i].type = "trade",
         NEW c \in Seq(Events), DOMAIN c = Places(b), c[n] = Later(b[i]),
         \A j \in DOMAIN b : c[Shift(b, n)[j]] = b[j]
  PROVE  SilverTrades(c) = {Shift(b, n)[j] : j \in SilverTrades(b)}
<1> DEFINE s == Shift(b, n)
           e == Later(b[i])
           Kept(t, j, k) == IsTrade(t[k]) /\ SameTrade(t[j], t[k])
                              => Precedes(t[j], t[k]) \/ (~Precedes(t[k], t[j]) /\ j < k)
<1>1. /\ \A t, j : j \in SilverTrades(t) <=>
           j \in DOMAIN t /\ IsTrade(t[j]) /\ \A k \in DOMAIN t \ {j} : Kept(t, j, k)
  BY DEF SilverTrades
<1>2. /\ \A j \in DOMAIN b : s[j] \in DOMAIN c /\ s[j] # n /\ c[s[j]] = b[j]
      /\ \A j, k \in DOMAIN b : s[j] < s[k] <=> j < k
      /\ \A j, k \in DOMAIN b : s[j] = s[k] => j = k
      /\ \A m \in DOMAIN c : m # n => \E j \in DOMAIN b : m = s[j]
  BY ShiftFacts
<1>3. /\ \A j \in DOMAIN b : b[j] \in Events
      /\ \A j \in DOMAIN c : c[j] \in Events
      /\ e \in Events /\ e.sym = b[i].sym /\ e.id = b[i].id
      /\ IsTrade(e) <=> IsTrade(b[i])
  BY RowTypes, LaterRow DEF IsTrade, Given
<1> HIDE DEF s, e
<1>4. n \in DOMAIN c /\ c[n] = e
  BY DEF e
<1>5. \A j, k \in DOMAIN b : Kept(c, s[j], s[k]) <=> Kept(b, j, k)
  BY <1>2
<1>6. n \notin SilverTrades(c)
  <2> SUFFICES ASSUME n \in SilverTrades(c) PROVE FALSE
    OBVIOUS
  <2>1. IsTrade(e) /\ IsTrade(b[i])
    BY <1>1, <1>3, <1>4
  <2>2. Kept(c, n, s[i])
    BY <1>1, <1>2
  <2>3. Precedes(e, b[i]) \/ ~Precedes(b[i], e)
    BY <1>2, <1>3, <1>4, <2>1, <2>2 DEF SameTrade
  <2>4. ~Precedes(b[i], b[i])
    BY <1>3, <2>1, PrecedesIsStrict
  <2>5. Precedes(b[i], e) /\ ~Precedes(e, b[i])
    BY <1>3, <2>1, <2>4, LaterIsBehind DEF e
  <2>. QED
    BY <2>3, <2>5
<1>7. ASSUME NEW j \in SilverTrades(b) PROVE Kept(c, s[j], n)
  <2> SUFFICES ASSUME IsTrade(e), SameTrade(b[j], e) PROVE Precedes(b[j], e)
    BY <1>1, <1>2, <1>4
  <2>1. j \in DOMAIN b /\ IsTrade(b[j]) /\ IsTrade(b[i]) /\ SameTrade(b[j], b[i])
    BY <1>1, <1>3 DEF SameTrade
  <2>2. ~Precedes(b[i], b[j])
    <3>1. CASE i = j
      BY <1>3, <2>1, <3>1, PrecedesIsStrict
    <3>2. CASE i # j
      <4>1. Precedes(b[j], b[i]) \/ (~Precedes(b[i], b[j]) /\ j < i)
        BY <1>1, <2>1, <3>2
      <4>2. Precedes(b[j], b[i]) => ~Precedes(b[i], b[j])
        BY <1>3, <2>1, PrecedesIsStrict
      <4>. QED
        BY <4>1, <4>2
    <3>. QED
      BY <3>1, <3>2
  <2>. QED
    BY <1>3, <2>1, <2>2, LaterIsBehind DEF e
<1>8. ASSUME NEW j \in SilverTrades(b) PROVE s[j] \in SilverTrades(c)
  <2>1. j \in DOMAIN b /\ IsTrade(b[j]) /\ s[j] \in DOMAIN c /\ IsTrade(c[s[j]])
    BY <1>1, <1>2
  <2>2. ASSUME NEW m \in DOMAIN c \ {s[j]} PROVE Kept(c, s[j], m)
    <3>1. CASE m = n
      BY <1>7, <3>1
    <3>2. CASE m # n
      <4>1. PICK k \in DOMAIN b : m = s[k]
        BY <1>2, <3>2
      <4>2. k # j /\ Kept(b, j, k)
        BY <1>1, <2>1, <4>1
      <4>. QED
        BY <1>5, <2>1, <4>1, <4>2
    <3>. QED
      BY <3>1, <3>2
  <2>. QED
    BY <1>1, <2>1, <2>2
<1>9. ASSUME NEW m \in SilverTrades(c) PROVE \E j \in SilverTrades(b) : m = s[j]
  <2>1. m \in DOMAIN c /\ IsTrade(c[m]) /\ m # n
    BY <1>1, <1>6
  <2>2. PICK j \in DOMAIN b : m = s[j]
    BY <1>2, <2>1
  <2>3. IsTrade(b[j])
    BY <1>2, <2>1, <2>2
  <2>4. ASSUME NEW k \in DOMAIN b \ {j} PROVE Kept(b, j, k)
    <3>1. s[k] \in DOMAIN c \ {m}
      BY <1>2, <2>2
    <3>2. Kept(c, m, s[k])
      BY <1>1, <3>1
    <3>. QED
      BY <1>5, <2>2, <3>2
  <2>5. j \in SilverTrades(b)
    BY <1>1, <2>3, <2>4
  <2>. QED
    BY <2>2, <2>5
<1>10. SilverTrades(c) = {s[j] : j \in SilverTrades(b)}
  BY <1>8, <1>9
<1>. QED
  BY <1>10 DEF s

LEMMA Redelivered ==
  ASSUME NEW b \in Seq(Events), NEW i \in DOMAIN b, NEW n \in Places(b), b[i].type = "trade"
  PROVE  Gold(InsertAt(b, n, Later(b[i]))) = Gold(b)
<1> DEFINE c == InsertAt(b, n, Later(b[i]))
           s == Shift(b, n)
<1>1. b[i] \in Events /\ Later(b[i]) \in Events /\ Later(b[i]).type = "trade"
  BY RowTypes, LaterRow
<1>2. /\ c \in Seq(Events) /\ DOMAIN c = Places(b) /\ c[n] = Later(b[i])
      /\ \A j \in DOMAIN b : c[s[j]] = b[j]
  BY <1>1, Inserted
<1> HIDE DEF c
<1>3. SilverTrades(c) = {s[j] : j \in SilverTrades(b)}
  BY <1>2, RedeliveredSilver
<1>4. /\ \A j \in DOMAIN b : s[j] \in DOMAIN c /\ s[j] # n
      /\ \A j, k \in DOMAIN b : s[j] = s[k] => j = k
      /\ \A m \in DOMAIN c : m # n => \E j \in DOMAIN b : m = s[j]
  <2>1. DOMAIN c = Places(b)
    BY <1>2
  <2>2. \A j \in DOMAIN b : s[j] \in DOMAIN c /\ s[j] # n
    BY <2>1, ShiftFacts
  <2>3. \A j, k \in DOMAIN b : s[j] = s[k] => j = k
    BY ShiftFacts
  <2>4. \A m \in DOMAIN c : m # n => \E j \in DOMAIN b : m = s[j]
    BY <2>1, ShiftFacts
  <2> HIDE DEF s
  <2>. QED
    BY <2>2, <2>3, <2>4
<1>5. SilverTicker(c) = {s[j] : j \in SilverTicker(b)}
  <2>1. \A m \in SilverTicker(c) : m # n
    BY <1>1, <1>2 DEF SilverTicker, IsTicker
  <2> HIDE DEF s
  <2>2. ASSUME NEW m \in SilverTicker(c) PROVE \E j \in SilverTicker(b) : m = s[j]
    <3>1. m \in DOMAIN c /\ IsTicker(c[m])
      BY DEF SilverTicker
    <3>2. PICK j \in DOMAIN b : m = s[j]
      BY <1>4, <2>1, <3>1
    <3>3. j \in SilverTicker(b)
      BY <1>2, <3>1, <3>2 DEF SilverTicker
    <3>. QED
      BY <3>2, <3>3
  <2>3. ASSUME NEW j \in SilverTicker(b) PROVE s[j] \in SilverTicker(c)
    BY <1>2, <1>4 DEF SilverTicker
  <2>. QED
    BY <2>2, <2>3
<1>6. s \in [DOMAIN b -> DOMAIN c]
  BY <1>4 DEF Shift
<1>7. Embeds(s, b, c)
  BY <1>2, <1>3, <1>4, <1>5, <1>6 DEF Embeds
<1>. QED
  BY <1>2, <1>7, EmbeddedGold DEF c

\* Landing a trade again leaves gold as it is, wherever the copy lands, behind the last
\* row of bronze too: silver keeps the row that was first (silver_trades.sql:16-37).
THEOREM RedeliveryChangesNoGold == Spec => []RedeliveryIdempotent
<1>1. BronzeOK => RedeliveryIdempotent
  <2> SUFFICES ASSUME bronze \in Seq(LandedRows),
                      NEW i \in DOMAIN bronze, bronze[i].type = "trade",
                      NEW n \in 1..(Len(bronze) + 1)
               PROVE  Gold(InsertAt(bronze, n, [bronze[i] EXCEPT !.ingest = @ + 1]))
                        = Gold(bronze)
    BY DEF BronzeOK, RedeliveryIdempotent
  <2>1. bronze \in Seq(Events)
    BY LandedIsEvents
  <2>2. Gold(InsertAt(bronze, n, Later(bronze[i]))) = Gold(bronze)
    BY <2>1, Redelivered DEF Places
  <2>. QED
    BY <2>2 DEF Later
<1>. QED
  BY <1>1, MartsLandOnlyEvents, PTL

-----------------------------------------------------------------------------
(* The oracle.  What one pass over the events accumulates are the sums.    *)

TradesIn(ev, A) == {i \in A : ev[i].type = "trade" /\ Given(ev[i].price) /\ Given(ev[i].size)}
QuotesIn(ev, A) == {i \in A : ev[i].type = "ticker" /\ Given(ev[i].bid) /\ Given(ev[i].ask)}

Sizes(ev, T) == [i \in T |-> ev[i].size]
Values(ev, T) == [i \in T |-> ev[i].price * ev[i].size]
Spreads(ev, Q) == [i \in Q |-> ev[i].ask - ev[i].bid]
Mids(ev, Q) == [i \in Q |-> ev[i].ask + ev[i].bid]

Totals(ev, T, Q) ==
  [pv |-> SumFunction(Values(ev, T)), vol |-> SumFunction(Sizes(ev, T)),
   trades |-> Cardinality(T),
   spread |-> SumFunction(Spreads(ev, Q)), mid |-> SumFunction(Mids(ev, Q)),
   tickers |-> Cardinality(Q)]

\* The accumulator of the events with the numbers A.
Agg(ev, A) == Totals(ev, TradesIn(ev, A), QuotesIn(ev, A))

LEMMA AggTypes ==
  ASSUME NEW ev \in Seq(Events), NEW A \in SUBSET DOMAIN ev
  PROVE  LET T == TradesIn(ev, A)
             Q == QuotesIn(ev, A)
         IN /\ IsFiniteSet(T) /\ IsFiniteSet(Q) /\ T \subseteq A /\ Q \subseteq A
            /\ Values(ev, T) \in [T -> Int] /\ Sizes(ev, T) \in [T -> Int]
            /\ Spreads(ev, Q) \in [Q -> Int] /\ Mids(ev, Q) \in [Q -> Int]
<1> DEFINE T == TradesIn(ev, A)
           Q == QuotesIn(ev, A)
<1>1. T \subseteq A /\ Q \subseteq A
  BY DEF TradesIn, QuotesIn
<1>2. IsFiniteSet(T) /\ IsFiniteSet(Q)
  <2>1. IsFiniteSet(DOMAIN ev)
    BY RowTypes
  <2>2. T \in SUBSET DOMAIN ev /\ Q \in SUBSET DOMAIN ev
    BY <1>1
  <2> HIDE DEF T, Q
  <2>. QED
    BY <2>1, <2>2, FS_Subset
<1>3. \A i \in DOMAIN ev : ev[i] \in Events
  BY RowTypes
<1>4. \A i \in T : ev[i].price \in Int /\ ev[i].size \in Int
  BY <1>1, <1>3 DEF TradesIn, Given, Events
<1>5. \A i \in Q : ev[i].bid \in Int /\ ev[i].ask \in Int
  BY <1>1, <1>3 DEF QuotesIn, Given, Events
<1> HIDE DEF T, Q
<1>6. Values(ev, T) \in [T -> Int] /\ Sizes(ev, T) \in [T -> Int]
  BY <1>4 DEF Values, Sizes
<1>7. Spreads(ev, Q) \in [Q -> Int] /\ Mids(ev, Q) \in [Q -> Int]
  BY <1>5 DEF Spreads, Mids
<1>. QED
  BY <1>1, <1>2, <1>6, <1>7 DEF T, Q

LEMMA AggNone == \A ev : Agg(ev, {}) = NoAcc
<1> TAKE ev
<1>1. TradesIn(ev, {}) = {} /\ QuotesIn(ev, {}) = {}
  BY DEF TradesIn, QuotesIn
<1>2. /\ DOMAIN Values(ev, {}) = {} /\ DOMAIN Sizes(ev, {}) = {}
      /\ DOMAIN Spreads(ev, {}) = {} /\ DOMAIN Mids(ev, {}) = {}
  BY DEF Values, Sizes, Spreads, Mids
<1>3. /\ SumFunction(Values(ev, {})) = 0 /\ SumFunction(Sizes(ev, {})) = 0
      /\ SumFunction(Spreads(ev, {})) = 0 /\ SumFunction(Mids(ev, {})) = 0
  BY <1>2, SumOfEmpty
<1>4. Cardinality({}) = 0
  BY FS_EmptySet
<1>. QED
  BY <1>1, <1>3, <1>4 DEF Agg, Totals, NoAcc

LEMMA TradeAdded ==
  ASSUME NEW R, NEW a, NEW c, NEW n, NEW s, NEW m, NEW q, NEW e,
         R = [pv |-> a, vol |-> c, trades |-> n, spread |-> s, mid |-> m, tickers |-> q],
         e.type = "trade", Given(e.price), Given(e.size)
  PROVE  Accumulate(R, e) = [pv |-> a + e.price * e.size, vol |-> c + e.size, trades |-> n + 1,
                             spread |-> s, mid |-> m, tickers |-> q]
BY DEF Accumulate

LEMMA QuoteAdded ==
  ASSUME NEW R, NEW a, NEW c, NEW n, NEW s, NEW m, NEW q, NEW e,
         R = [pv |-> a, vol |-> c, trades |-> n, spread |-> s, mid |-> m, tickers |-> q],
         e.type = "ticker", Given(e.bid), Given(e.ask)
  PROVE  Accumulate(R, e) = [pv |-> a, vol |-> c, trades |-> n, spread |-> s + (e.ask - e.bid),
                             mid |-> m + (e.ask + e.bid), tickers |-> q + 1]
<1>1. ~(e.type = "trade")
  OBVIOUS
<1>. QED
  BY <1>1 DEF Accumulate

LEMMA AggAdd ==
  ASSUME NEW ev \in Seq(Events), NEW A \in SUBSET DOMAIN ev, NEW x \in A
  PROVE  Agg(ev, A) = Accumulate(Agg(ev, A \ {x}), ev[x])
<1> DEFINE T == TradesIn(ev, A)
           Q == QuotesIn(ev, A)
           T0 == TradesIn(ev, A \ {x})
           Q0 == QuotesIn(ev, A \ {x})
           e == ev[x]
           isT == e.type = "trade" /\ Given(e.price) /\ Given(e.size)
           isQ == e.type = "ticker" /\ Given(e.bid) /\ Given(e.ask)
<1>1. /\ T0 = T \ {x} /\ Q0 = Q \ {x}
      /\ x \in T <=> isT
      /\ x \in Q <=> isQ
  BY DEF TradesIn, QuotesIn
<1>2. /\ IsFiniteSet(T) /\ IsFiniteSet(Q) /\ IsFiniteSet(T0) /\ IsFiniteSet(Q0)
      /\ Values(ev, T) \in [T -> Int] /\ Sizes(ev, T) \in [T -> Int]
      /\ Spreads(ev, Q) \in [Q -> Int] /\ Mids(ev, Q) \in [Q -> Int]
      /\ Values(ev, T0) \in [T0 -> Int] /\ Sizes(ev, T0) \in [T0 -> Int]
      /\ Spreads(ev, Q0) \in [Q0 -> Int] /\ Mids(ev, Q0) \in [Q0 -> Int]
  <2>1. A \ {x} \in SUBSET DOMAIN ev
    OBVIOUS
  <2>. QED
    BY <2>1, AggTypes
<1> HIDE DEF T, Q, T0, Q0
<1>3. /\ SumFunction(Values(ev, T0)) \in Int /\ SumFunction(Sizes(ev, T0)) \in Int
      /\ SumFunction(Spreads(ev, Q0)) \in Int /\ SumFunction(Mids(ev, Q0)) \in Int
      /\ Cardinality(T0) \in Nat /\ Cardinality(Q0) \in Nat
  BY <1>2, SumType, FS_CardinalityType
<1>4. /\ T0 = T \ {x} => Restrict(Values(ev, T), T \ {x}) = Values(ev, T0)
      /\ T0 = T \ {x} => Restrict(Sizes(ev, T), T \ {x}) = Sizes(ev, T0)
      /\ Q0 = Q \ {x} => Restrict(Spreads(ev, Q), Q \ {x}) = Spreads(ev, Q0)
      /\ Q0 = Q \ {x} => Restrict(Mids(ev, Q), Q \ {x}) = Mids(ev, Q0)
  BY DEF Restrict, Values, Sizes, Spreads, Mids
<1>5. ASSUME x \in T
      PROVE  /\ e.price * e.size \in Int /\ e.size \in Int
             /\ SumFunction(Values(ev, T)) = e.price * e.size + SumFunction(Values(ev, T0))
             /\ SumFunction(Sizes(ev, T)) = e.size + SumFunction(Sizes(ev, T0))
             /\ Cardinality(T) = Cardinality(T0) + 1
  <2>1. Values(ev, T)[x] = e.price * e.size /\ Sizes(ev, T)[x] = e.size
    BY <1>5 DEF Values, Sizes
  <2>2. e.price * e.size \in Int /\ e.size \in Int
    BY <1>2, <1>5, <2>1
  <2>3. SumFunction(Values(ev, T))
          = Values(ev, T)[x] + SumFunction(Restrict(Values(ev, T), T \ {x}))
    BY <1>2, <1>5, SumRemove
  <2>4. SumFunction(Sizes(ev, T))
          = Sizes(ev, T)[x] + SumFunction(Restrict(Sizes(ev, T), T \ {x}))
    BY <1>2, <1>5, SumRemove
  <2>5. Cardinality(T0) = Cardinality(T) - 1 /\ Cardinality(T) \in Nat
    BY <1>1, <1>2, <1>5, FS_RemoveElement, FS_CardinalityType
  <2>. QED
    BY <1>1, <1>4, <2>1, <2>2, <2>3, <2>4, <2>5
<1>6. ASSUME x \in Q
      PROVE  /\ e.ask - e.bid \in Int /\ e.ask + e.bid \in Int
             /\ SumFunction(Spreads(ev, Q)) = (e.ask - e.bid) + SumFunction(Spreads(ev, Q0))
             /\ SumFunction(Mids(ev, Q)) = (e.ask + e.bid) + SumFunction(Mids(ev, Q0))
             /\ Cardinality(Q) = Cardinality(Q0) + 1
  <2>1. Spreads(ev, Q)[x] = e.ask - e.bid /\ Mids(ev, Q)[x] = e.ask + e.bid
    BY <1>6 DEF Spreads, Mids
  <2>2. e.ask - e.bid \in Int /\ e.ask + e.bid \in Int
    BY <1>2, <1>6, <2>1
  <2>3. SumFunction(Spreads(ev, Q))
          = Spreads(ev, Q)[x] + SumFunction(Restrict(Spreads(ev, Q), Q \ {x}))
    BY <1>2, <1>6, SumRemove
  <2>4. SumFunction(Mids(ev, Q))
          = Mids(ev, Q)[x] + SumFunction(Restrict(Mids(ev, Q), Q \ {x}))
    BY <1>2, <1>6, SumRemove
  <2>5. Cardinality(Q0) = Cardinality(Q) - 1 /\ Cardinality(Q) \in Nat
    BY <1>1, <1>2, <1>6, FS_RemoveElement, FS_CardinalityType
  <2>. QED
    BY <1>1, <1>4, <2>1, <2>2, <2>3, <2>4, <2>5
<1>7. x \notin T => T0 = T
  BY <1>1
<1>8. x \notin Q => Q0 = Q
  BY <1>1
<1>9. Agg(ev, A) = Totals(ev, T, Q) /\ Agg(ev, A \ {x}) = Totals(ev, T0, Q0)
  BY DEF Agg, T, Q, T0, Q0
<1> HIDE DEF e
<1>10. CASE isT
  <2>1. ~isQ /\ x \in T /\ Q0 = Q
    BY <1>1, <1>8, <1>10
  <2>2. Accumulate(Totals(ev, T0, Q0), e)
          = [pv |-> SumFunction(Values(ev, T0)) + e.price * e.size,
             vol |-> SumFunction(Sizes(ev, T0)) + e.size,
             trades |-> Cardinality(T0) + 1,
             spread |-> SumFunction(Spreads(ev, Q0)), mid |-> SumFunction(Mids(ev, Q0)),
             tickers |-> Cardinality(Q0)]
    <3>1. PICK R : R = Totals(ev, T0, Q0)
      OBVIOUS
    <3>2. R = [pv |-> SumFunction(Values(ev, T0)), vol |-> SumFunction(Sizes(ev, T0)),
               trades |-> Cardinality(T0), spread |-> SumFunction(Spreads(ev, Q0)),
               mid |-> SumFunction(Mids(ev, Q0)), tickers |-> Cardinality(Q0)]
      BY <3>1 DEF Totals
    <3>3. e.type = "trade" /\ Given(e.price) /\ Given(e.size)
      BY <1>10
    <3>4. PICK v, w, p, q, r, t :
              /\ v = SumFunction(Values(ev, T0)) /\ w = SumFunction(Sizes(ev, T0))
              /\ p = SumFunction(Spreads(ev, Q0)) /\ q = SumFunction(Mids(ev, Q0))
              /\ r = Cardinality(T0) /\ t = Cardinality(Q0)
      OBVIOUS
    <3>5. R = [pv |-> v, vol |-> w, trades |-> r, spread |-> p, mid |-> q, tickers |-> t]
      BY <3>2, <3>4
    <3>6. Accumulate(R, e) = [pv |-> v + e.price * e.size, vol |-> w + e.size, trades |-> r + 1,
                              spread |-> p, mid |-> q, tickers |-> t]
      BY <3>3, <3>5, TradeAdded
    <3>. QED
      BY <3>1, <3>4, <3>6, Zenon
  <2>3. /\ SumFunction(Values(ev, T)) = SumFunction(Values(ev, T0)) + e.price * e.size
        /\ SumFunction(Sizes(ev, T)) = SumFunction(Sizes(ev, T0)) + e.size
        /\ Cardinality(T) = Cardinality(T0) + 1
    BY <1>3, <1>5, <2>1
  <2>4. Totals(ev, T, Q) = Accumulate(Totals(ev, T0, Q0), e)
    BY <2>1, <2>2, <2>3, Zenon DEF Totals
  <2>. QED
    BY <1>9, <2>4, Zenon DEF e
<1>11. CASE isQ
  <2>1. ~isT /\ x \in Q /\ T0 = T
    BY <1>1, <1>7, <1>11
  <2>2. Accumulate(Totals(ev, T0, Q0), e)
          = [pv |-> SumFunction(Values(ev, T0)), vol |-> SumFunction(Sizes(ev, T0)),
             trades |-> Cardinality(T0),
             spread |-> SumFunction(Spreads(ev, Q0)) + (e.ask - e.bid),
             mid |-> SumFunction(Mids(ev, Q0)) + (e.ask + e.bid),
             tickers |-> Cardinality(Q0) + 1]
    <3>1. PICK R : R = Totals(ev, T0, Q0)
      OBVIOUS
    <3>2. R = [pv |-> SumFunction(Values(ev, T0)), vol |-> SumFunction(Sizes(ev, T0)),
               trades |-> Cardinality(T0), spread |-> SumFunction(Spreads(ev, Q0)),
               mid |-> SumFunction(Mids(ev, Q0)), tickers |-> Cardinality(Q0)]
      BY <3>1 DEF Totals
    <3>3. e.type = "ticker" /\ Given(e.bid) /\ Given(e.ask)
      BY <1>11
    <3>4. PICK v, w, p, q, r, t :
              /\ v = SumFunction(Values(ev, T0)) /\ w = SumFunction(Sizes(ev, T0))
              /\ p = SumFunction(Spreads(ev, Q0)) /\ q = SumFunction(Mids(ev, Q0))
              /\ r = Cardinality(T0) /\ t = Cardinality(Q0)
      OBVIOUS
    <3>5. R = [pv |-> v, vol |-> w, trades |-> r, spread |-> p, mid |-> q, tickers |-> t]
      BY <3>2, <3>4
    <3>6. Accumulate(R, e) = [pv |-> v, vol |-> w, trades |-> r, spread |-> p + (e.ask - e.bid),
                              mid |-> q + (e.ask + e.bid), tickers |-> t + 1]
      BY <3>3, <3>5, QuoteAdded
    <3>. QED
      BY <3>1, <3>4, <3>6, Zenon
  <2>3. /\ SumFunction(Spreads(ev, Q)) = SumFunction(Spreads(ev, Q0)) + (e.ask - e.bid)
        /\ SumFunction(Mids(ev, Q)) = SumFunction(Mids(ev, Q0)) + (e.ask + e.bid)
        /\ Cardinality(Q) = Cardinality(Q0) + 1
    BY <1>3, <1>6, <2>1
  <2>4. Totals(ev, T, Q) = Accumulate(Totals(ev, T0, Q0), e)
    BY <2>1, <2>2, <2>3, Zenon DEF Totals
  <2>. QED
    BY <1>9, <2>4, Zenon DEF e
<1>12. CASE ~isT /\ ~isQ
  <2>1. T0 = T /\ Q0 = Q
    BY <1>1, <1>7, <1>8, <1>12
  <2>2. Accumulate(Totals(ev, T0, Q0), e) = Totals(ev, T0, Q0)
    BY <1>12 DEF Accumulate
  <2>. QED
    BY <1>9, <2>1, <2>2 DEF e
<1>. QED
  BY <1>10, <1>11, <1>12

LEMMA MaxIn ==
  ASSUME NEW n \in Nat, NEW s \in SUBSET (1..n), s # {}
  PROVE  Max(s) \in s
<1> DEFINE f == [x \in s |-> n - x]
<1>1. f \in [s -> Nat]
  OBVIOUS
<1>2. PICK x \in s : \A y \in s : f[x] <= f[y]
  <2> HIDE DEF f
  <2>. QED
    BY <1>1, Least
<1>3. \A y \in s : x >= y
  BY <1>2
<1>. QED
  BY <1>3 DEF Max

\* The events with the numbers s that fall into bucket k.
Of(ev, label, s, k) == {i \in s : Bucket(ev[i], label) = k}

\* The pass over ev, after the events with the numbers s.
PassOver(ev, label) ==
  LET ks == {Bucket(ev[i], label) : i \in DOMAIN ev}
  IN [s \in SUBSET DOMAIN ev |-> [k \in ks |-> Agg(ev, Of(ev, label, s, k))]]

LEMMA PassStep ==
  ASSUME NEW ev \in Seq(Events), NEW label, NEW s \in SUBSET DOMAIN ev, NEW x \in s
  PROVE  PassOver(ev, label)[s] = Absorb(PassOver(ev, label)[s \ {x}], ev[x], label)
<1> DEFINE ks == {Bucket(ev[i], label) : i \in DOMAIN ev}
           kx == Bucket(ev[x], label)
           h  == PassOver(ev, label)
<1>1. kx \in ks
  OBVIOUS
<1>2. \A t \in SUBSET DOMAIN ev : h[t] = [k \in ks |-> Agg(ev, Of(ev, label, t, k))]
  BY DEF PassOver
<1>3. ASSUME NEW k \in ks, k # kx
      PROVE  Agg(ev, Of(ev, label, s, k)) = Agg(ev, Of(ev, label, s \ {x}, k))
  <2>1. Of(ev, label, s, k) = Of(ev, label, s \ {x}, k)
    BY <1>3 DEF Of
  <2>. QED
    BY <2>1
<1>4. Agg(ev, Of(ev, label, s, kx)) = Accumulate(Agg(ev, Of(ev, label, s \ {x}, kx)), ev[x])
  <2>1. /\ Of(ev, label, s, kx) \in SUBSET DOMAIN ev /\ x \in Of(ev, label, s, kx)
        /\ Of(ev, label, s \ {x}, kx) = Of(ev, label, s, kx) \ {x}
    BY DEF Of
  <2>. QED
    BY <2>1, AggAdd
<1> HIDE DEF ks, kx, h
<1>5. h[s] = [h[s \ {x}] EXCEPT ![kx] = Accumulate(@, ev[x])]
  <2>1. h[s] = [k \in ks |-> Agg(ev, Of(ev, label, s, k))]
    BY <1>2
  <2>2. h[s \ {x}] = [k \in ks |-> Agg(ev, Of(ev, label, s \ {x}, k))]
    BY <1>2
  <2> DEFINE g == [h[s \ {x}] EXCEPT ![kx] = Accumulate(@, ev[x])]
  <2>3. g = [k \in ks |-> IF k = kx THEN Accumulate(h[s \ {x}][kx], ev[x]) ELSE h[s \ {x}][k]]
    BY <2>2
  <2>4. \A k \in ks : g[k] = Agg(ev, Of(ev, label, s, k))
    <3> SUFFICES ASSUME NEW k \in ks PROVE g[k] = Agg(ev, Of(ev, label, s, k))
      OBVIOUS
    <3>1. CASE k = kx
      BY <1>1, <1>4, <2>2, <2>3, <3>1
    <3>2. CASE k # kx
      BY <1>3, <2>2, <2>3, <3>2
    <3>. QED
      BY <3>1, <3>2
  <2>5. g = [k \in ks |-> g[k]]
    BY <2>3
  <2> HIDE DEF g
  <2>6. g = h[s]
    BY <2>1, <2>4, <2>5
  <2>. QED
    BY <2>6 DEF g
<1>. QED
  BY <1>5 DEF Absorb, h, kx

\* What compute_windows accumulates.
LEMMA PassIs ==
  ASSUME NEW ev \in Seq(Events), NEW label
  PROVE  LET ks == {Bucket(ev[i], label) : i \in DOMAIN ev}
         IN FoldLeft(LAMBDA f, e : Absorb(f, e, label), [k \in ks |-> NoAcc], ev)
              = [k \in ks |-> Agg(ev, Of(ev, label, DOMAIN ev, k))]
<1> DEFINE ks == {Bucket(ev[i], label) : i \in DOMAIN ev}
           base == [k \in ks |-> NoAcc]
           D == DOMAIN ev
           Eqn(f) == f = [s \in SUBSET D |->
                            IF s = {} THEN base
                            ELSE Absorb(f[s \ {Max(s)}], ev[Max(s)], label)]
           h == PassOver(ev, label)
           it == CHOOSE f : Eqn(f)
<1>1. Eqn(h)
  <2>1. h[{}] = base
    <3>1. \A k \in ks : Agg(ev, Of(ev, label, {}, k)) = NoAcc
      <4>1. \A k : Of(ev, label, {}, k) = {}
        BY DEF Of
      <4>. QED
        BY <4>1, AggNone
    <3>2. h[{}] = [k \in ks |-> Agg(ev, Of(ev, label, {}, k))]
      BY DEF PassOver
    <3>. QED
      BY <3>1, <3>2
  <2>2. ASSUME NEW s \in SUBSET D, s # {}
        PROVE  h[s] = Absorb(h[s \ {Max(s)}], ev[Max(s)], label)
    <3>1. D = 1..Len(ev) /\ Len(ev) \in Nat
      BY LenProperties
    <3>2. Max(s) \in s
      BY <2>2, <3>1, MaxIn
    <3>. QED
      BY <3>2, PassStep
  <2>3. h = [s \in SUBSET D |-> h[s]]
    BY DEF PassOver
  <2> HIDE DEF h, base
  <2>. QED
    BY <2>1, <2>2, <2>3
<1>2. Eqn(it)
  <2> HIDE DEF Eqn, h
  <2>. QED
    BY <1>1, Zenon
<1>3. FoldLeft(LAMBDA f, e : Absorb(f, e, label), base, ev) = it[D]
  BY Zenon DEF FoldLeft, MapThenFoldSet
<1>4. \A s \in SUBSET D : it[s] = h[s]
  <2> DEFINE P == {s \in SUBSET D : it[s] = h[s]}
  <2>1. IsFiniteSet(D)
    BY RowTypes
  <2>2. ASSUME NEW s \in SUBSET D, \A x \in s : s \ {x} \in P PROVE s \in P
    <3>1. /\ it[s] = IF s = {} THEN base ELSE Absorb(it[s \ {Max(s)}], ev[Max(s)], label)
          /\ h[s] = IF s = {} THEN base ELSE Absorb(h[s \ {Max(s)}], ev[Max(s)], label)
      <4> HIDE DEF it, h, base
      <4>. QED
        BY <1>1, <1>2
    <3>2. CASE s = {}
      BY <3>1, <3>2
    <3>3. CASE s # {}
      <4>1. Max(s) \in s
        <5>1. D = 1..Len(ev) /\ Len(ev) \in Nat
          BY LenProperties
        <5>. QED
          BY <3>3, <5>1, MaxIn
      <4>2. it[s \ {Max(s)}] = h[s \ {Max(s)}]
        BY <2>2, <4>1
      <4> HIDE DEF it, h, base
      <4>. QED
        BY <3>1, <3>3, <4>2
    <3>. QED
      BY <3>2, <3>3
  <2> HIDE DEF it, h
  <2>3. \A s \in SUBSET D : s \in P
    <3> HIDE DEF P, D
    <3>. QED
      BY <2>1, <2>2, SubsetInduction
  <2>. QED
    BY <2>3
<1>5. it[D] = [k \in ks |-> Agg(ev, Of(ev, label, D, k))]
  <2>1. it[D] = h[D]
    BY <1>4
  <2> HIDE DEF it
  <2>. QED
    BY <2>1 DEF PassOver
<1>. QED
  BY <1>3, <1>5, Zenon

-----------------------------------------------------------------------------
(* The oracle and gold.                                                    *)

\* What compute_windows and the marts both make of the totals of a bucket.
Summary(k, a) ==
  [key |-> k,
   vwap |-> IF a.vol > 0 THEN <<a.pv, a.vol>> ELSE Null,
   volume |-> a.vol, trades |-> a.trades,
   spread |-> IF a.tickers > 0 THEN <<a.spread, a.tickers>> ELSE Null,
   mid |-> IF a.tickers > 0 THEN <<a.mid, a.tickers>> ELSE Null,
   tickers |-> a.tickers]

LEMMA WindowsAre ==
  ASSUME NEW ev \in Seq(Events), NEW label
  PROVE  ComputeWindows(ev, label)
           = {Summary(k, Agg(ev, Of(ev, label, DOMAIN ev, k))) :
                k \in {Bucket(ev[i], label) : i \in DOMAIN ev}}
<1> DEFINE ks == {Bucket(ev[i], label) : i \in DOMAIN ev}
           acc == FoldLeft(LAMBDA f, e : Absorb(f, e, label), [k \in ks |-> NoAcc], ev)
<1>1. acc = [k \in ks |-> Agg(ev, Of(ev, label, DOMAIN ev, k))]
  BY PassIs, Zenon
<1>2. ComputeWindows(ev, label) = {Summary(k, acc[k]) : k \in ks}
  BY Zenon DEF ComputeWindows, Summary
<1> HIDE DEF acc, ks
<1>3. \A k \in ks : acc[k] = Agg(ev, Of(ev, label, DOMAIN ev, k))
  BY <1>1
<1>4. {Summary(k, acc[k]) : k \in ks}
        = {Summary(k, Agg(ev, Of(ev, label, DOMAIN ev, k))) : k \in ks}
  BY <1>3
<1>. QED
  BY <1>2, <1>4 DEF ks

Typed(ev, T, Q) ==
  /\ IsFiniteSet(T) /\ IsFiniteSet(Q)
  /\ Values(ev, T) \in [T -> Int] /\ Sizes(ev, T) \in [T -> Int]
  /\ Spreads(ev, Q) \in [Q -> Int] /\ Mids(ev, Q) \in [Q -> Int]

\* The totals of a bucket of silver.
SilverTotals(b, k) ==
  Totals(b, Members(b, SilverTrades(b), k), Members(b, SilverTicker(b), k))

LEMMA SilverTyped ==
  ASSUME NEW b \in Seq(Events), NEW k
  PROVE  Typed(b, Members(b, SilverTrades(b), k), Members(b, SilverTicker(b), k))
<1>1. IsFiniteSet(Members(b, SilverTrades(b), k)) /\ IsFiniteSet(Members(b, SilverTicker(b), k))
  BY SilverFinite
<1>2. /\ Values(b, Members(b, SilverTrades(b), k)) \in [Members(b, SilverTrades(b), k) -> Int]
      /\ Sizes(b, Members(b, SilverTrades(b), k)) \in [Members(b, SilverTrades(b), k) -> Int]
  BY TradeSums DEF Values, Sizes
<1>3. /\ Spreads(b, Members(b, SilverTicker(b), k)) \in [Members(b, SilverTicker(b), k) -> Int]
      /\ Mids(b, Members(b, SilverTicker(b), k)) \in [Members(b, SilverTicker(b), k) -> Int]
  BY TickerSums DEF Spreads, Mids
<1>. QED
  BY <1>1, <1>2, <1>3 DEF Typed

\* A bucket of gold holds a trade exactly if it is a trade bucket.
LEMMA KeysOfMembers ==
  ASSUME NEW b, NEW k \in TradeKeys(b) \cup TickerKeys(b)
  PROVE  /\ k \in TradeKeys(b) <=> Members(b, SilverTrades(b), k) # {}
         /\ k \in TickerKeys(b) <=> Members(b, SilverTicker(b), k) # {}
<1>1. \A r, l : Bucket(r, l).label = l
  BY DEF Bucket
<1>2. k.label \in Labels
  BY <1>1 DEF TradeKeys, TickerKeys, Buckets
<1>3. ASSUME NEW is
      PROVE  k \in Buckets(b, is) <=> Members(b, is, k) # {}
  <2>1. ASSUME k \in Buckets(b, is) PROVE Members(b, is, k) # {}
    <3>1. PICK i \in is, l \in Labels : k = Bucket(b[i], l)
      BY <2>1 DEF Buckets
    <3>2. i \in Members(b, is, k)
      BY <1>1, <3>1 DEF Members
    <3>. QED
      BY <3>2
  <2>2. ASSUME NEW i \in Members(b, is, k) PROVE k \in Buckets(b, is)
    BY <1>2, <2>2 DEF Members, Buckets
  <2>. QED
    BY <2>1, <2>2
<1>. QED
  BY <1>3 DEF TradeKeys, TickerKeys

LEMMA CountsAre ==
  ASSUME NEW S, IsFiniteSet(S)
  PROVE  Cardinality(S) \in Nat /\ (S = {} <=> Cardinality(S) = 0)
BY FS_CardinalityType, FS_EmptySet

\* A row of gold is the summary of its bucket.
LEMMA GoldRowIs ==
  ASSUME NEW b \in Seq(Events), NEW k \in TradeKeys(b) \cup TickerKeys(b)
  PROVE  GoldRow(b, k) = Summary(k, SilverTotals(b, k))
<1> DEFINE T == Members(b, SilverTrades(b), k)
           Q == Members(b, SilverTicker(b), k)
           vol == SumFunction(Sizes(b, T))
           pv == SumFunction(Values(b, T))
           sp == SumFunction(Spreads(b, Q))
           mi == SumFunction(Mids(b, Q))
           t == IF k \in TradeKeys(b) THEN TradeWindow(b, k) ELSE NoTrades
           q == IF k \in TickerKeys(b) THEN TickerWindow(b, k) ELSE NoTickers
<1>1. /\ k \in TradeKeys(b) <=> T # {}
      /\ k \in TickerKeys(b) <=> Q # {}
  BY KeysOfMembers
<1>2. IsFiniteSet(T) /\ IsFiniteSet(Q)
  BY SilverFinite
<1>3. vol \in Nat
  BY TradeSums DEF Sizes
<1>4. TradeWindow(b, k) = [key |-> k, vwap |-> IF vol = 0 THEN Null ELSE <<pv, vol>>,
                           volume |-> vol, count |-> Cardinality(T)]
  BY Zenon DEF TradeWindow, Sizes, Values
<1>5. TickerWindow(b, k) = [key |-> k, spread |-> <<sp, Cardinality(Q)>>,
                            mid |-> <<mi, Cardinality(Q)>>, count |-> Cardinality(Q)]
  BY Zenon DEF TickerWindow, Spreads, Mids
<1>6. T = {} => vol = 0
  <2>1. T = {} => DOMAIN Sizes(b, T) = {}
    BY DEF Sizes
  <2>. QED
    BY <2>1, SumOfEmpty
<1>7. SilverTotals(b, k) = [pv |-> pv, vol |-> vol, trades |-> Cardinality(T),
                            spread |-> sp, mid |-> mi, tickers |-> Cardinality(Q)]
  BY Zenon DEF SilverTotals, Totals
<1> HIDE DEF T, Q, vol, pv, sp, mi
<1>8. /\ Cardinality(T) \in Nat /\ (T = {} <=> Cardinality(T) = 0)
      /\ Cardinality(Q) \in Nat /\ (Q = {} <=> Cardinality(Q) = 0)
  BY <1>2, CountsAre
<1>9. /\ t.vwap = IF vol > 0 THEN <<pv, vol>> ELSE Null
      /\ t.volume = vol /\ t.count = Cardinality(T)
  <2>1. CASE k \in TradeKeys(b)
    BY <1>3, <1>4, <2>1
  <2>2. CASE k \notin TradeKeys(b)
    BY <1>1, <1>6, <1>8, <2>2 DEF NoTrades
  <2>. QED
    BY <2>1, <2>2
<1>10. /\ q.spread = IF Cardinality(Q) > 0 THEN <<sp, Cardinality(Q)>> ELSE Null
       /\ q.mid = IF Cardinality(Q) > 0 THEN <<mi, Cardinality(Q)>> ELSE Null
       /\ q.count = Cardinality(Q)
  <2>1. CASE k \in TickerKeys(b)
    BY <1>1, <1>5, <1>8, <2>1
  <2>2. CASE k \notin TickerKeys(b)
    BY <1>1, <1>8, <2>2 DEF NoTickers
  <2>. QED
    BY <2>1, <2>2
<1>11. GoldRow(b, k) = [key |-> k, vwap |-> t.vwap, volume |-> t.volume, trades |-> t.count,
                        spread |-> q.spread, mid |-> q.mid, tickers |-> q.count]
  BY Zenon DEF GoldRow, Row
<1> HIDE DEF t, q
<1>. QED
  BY <1>7, <1>9, <1>10, <1>11 DEF Summary

\* A numbering of the rows is of b.
Numbers(s, ev, b, is) ==
  /\ s \in [DOMAIN ev -> is]
  /\ \A n \in DOMAIN ev : ev[n] = b[s[n]]
  /\ \A m, n \in DOMAIN ev : s[m] = s[n] => m = n
  /\ \A i \in is : \E n \in DOMAIN ev : s[n] = i

LEMMA EnumeratedIs ==
  ASSUME NEW b \in Seq(Events), NEW is \in SUBSET DOMAIN b
  PROVE  /\ Enumerated(b, is) \in Seq(Events)
         /\ Numbers(SetToSeq(is), Enumerated(b, is), b, is)
<1> DEFINE n == Cardinality(is)
           s == SetToSeq(is)
           ev == Enumerated(b, is)
<1>1. IsFiniteSet(is) /\ n \in Nat
  BY RowTypes, FS_Subset, FS_CardinalityType
<1>2. PICK f : f \in Bijection(1..n, is)
  BY <1>1, FS_CardinalityType DEF ExistsBijection
<1>3. f \in [1..n -> is] /\ IsInjective(f)
  BY <1>2 DEF Bijection, Injection
<1>4. s \in [1..n -> is] /\ IsInjective(s)
  BY <1>3, Zenon DEF SetToSeq
<1>5. s \in Surjection(1..n, is)
  <2>1. s \in Injection(1..n, is)
    BY <1>4 DEF Injection
  <2>2. Cardinality(1..n) = n
    BY <1>1, FS_Interval
  <2> HIDE DEF s
  <2>. QED
    BY <1>1, <2>1, <2>2, FS_Injection
<1>6. ev = [i \in 1..n |-> b[s[i]]]
  BY <1>4 DEF Enumerated
<1>7. \A i \in 1..n : b[s[i]] \in Events
  BY <1>4, RowTypes
<1> HIDE DEF s, n, ev
<1>8. ev \in Seq(Events)
  BY <1>1, <1>6, <1>7
<1>9. Numbers(s, ev, b, is)
  BY <1>4, <1>5, <1>6 DEF Numbers, Surjection, IsInjective
<1>. QED
  BY <1>8, <1>9 DEF s, ev

LEMMA TotalsMoved ==
  ASSUME NEW ev, NEW b, NEW s, NEW T, NEW Q, NEW C, NEW D,
         Moves(s, T, C), Moves(s, Q, D), Typed(ev, T, Q), Typed(b, C, D),
         Follows(b, ev, s, T), Follows(b, ev, s, Q)
  PROVE  Totals(b, C, D) = Totals(ev, T, Q)
<1>1. /\ IsFiniteSet(T) /\ IsFiniteSet(Q)
      /\ Values(ev, T) \in [T -> Int] /\ Sizes(ev, T) \in [T -> Int]
      /\ Spreads(ev, Q) \in [Q -> Int] /\ Mids(ev, Q) \in [Q -> Int]
  BY DEF Typed
<1>2. /\ Values(b, C) \in [C -> Int] /\ Sizes(b, C) \in [C -> Int]
      /\ Spreads(b, D) \in [D -> Int] /\ Mids(b, D) \in [D -> Int]
  BY DEF Typed
<1>3. /\ \A i \in T : s[i] \in C /\ b[s[i]] = ev[i]
      /\ \A i \in Q : s[i] \in D /\ b[s[i]] = ev[i]
  BY DEF Moves, Follows
<1>4. Follows(Values(b, C), Values(ev, T), s, T) /\ Follows(Sizes(b, C), Sizes(ev, T), s, T)
  BY <1>3 DEF Follows, Values, Sizes
<1>5. Follows(Spreads(b, D), Spreads(ev, Q), s, Q) /\ Follows(Mids(b, D), Mids(ev, Q), s, Q)
  BY <1>3 DEF Follows, Spreads, Mids
<1>6. SumFunction(Values(b, C)) = SumFunction(Values(ev, T))
  BY <1>1, <1>2, <1>4, EmbeddedSum
<1>7. SumFunction(Sizes(b, C)) = SumFunction(Sizes(ev, T))
  BY <1>1, <1>2, <1>4, EmbeddedSum
<1>8. SumFunction(Spreads(b, D)) = SumFunction(Spreads(ev, Q))
  BY <1>1, <1>2, <1>5, EmbeddedSum
<1>9. SumFunction(Mids(b, D)) = SumFunction(Mids(ev, Q))
  BY <1>1, <1>2, <1>5, EmbeddedSum
<1>10. Cardinality(C) = Cardinality(T) /\ Cardinality(D) = Cardinality(Q)
  BY <1>1, EmbeddedCount DEF Moves
<1>. QED
  BY <1>6, <1>7, <1>8, <1>9, <1>10, Zenon DEF Totals

\* The events of one bucket, and what silver has of it.
LEMMA BucketMoves ==
  ASSUME NEW b \in Seq(Events), NEW ev \in Seq(Events), NEW s,
         Numbers(s, ev, b, SilverTrades(b) \cup SilverTicker(b)),
         NEW label, NEW k, k.label = label
  PROVE  /\ Moves(s, TradesIn(ev, Of(ev, label, DOMAIN ev, k)), Members(b, SilverTrades(b), k))
         /\ Moves(s, QuotesIn(ev, Of(ev, label, DOMAIN ev, k)), Members(b, SilverTicker(b), k))
<1> DEFINE A == Of(ev, label, DOMAIN ev, k)
<1>1. A = {n \in DOMAIN ev : Bucket(ev[n], label) = k}
  BY DEF Of
<1>2. /\ \A n \in DOMAIN ev : s[n] \in SilverTrades(b) \cup SilverTicker(b) /\ ev[n] = b[s[n]]
      /\ \A m, n \in DOMAIN ev : s[m] = s[n] => m = n
      /\ \A i \in SilverTrades(b) \cup SilverTicker(b) : \E n \in DOMAIN ev : s[n] = i
  BY DEF Numbers
<1>3. /\ \A i \in SilverTrades(b) : /\ b[i].type = "trade" /\ b[i].type # "ticker"
                                    /\ Given(b[i].price) /\ Given(b[i].size)
      /\ \A i \in SilverTicker(b) : /\ b[i].type = "ticker" /\ b[i].type # "trade"
                                    /\ Given(b[i].bid) /\ Given(b[i].ask)
  BY SilverRows DEF IsTrade, IsTicker
<1>4. TradesIn(ev, A) = {n \in A : s[n] \in SilverTrades(b)}
  BY <1>1, <1>2, <1>3 DEF TradesIn
<1>5. QuotesIn(ev, A) = {n \in A : s[n] \in SilverTicker(b)}
  BY <1>1, <1>2, <1>3 DEF QuotesIn
<1>6. Members(b, SilverTrades(b), k) = {s[n] : n \in {n \in A : s[n] \in SilverTrades(b)}}
  BY <1>1, <1>2 DEF Members
<1>7. Members(b, SilverTicker(b), k) = {s[n] : n \in {n \in A : s[n] \in SilverTicker(b)}}
  BY <1>1, <1>2 DEF Members
<1>8. \A m, n \in A : s[m] = s[n] => m = n
  BY <1>1, <1>2
<1> HIDE DEF A
<1>9. Moves(s, TradesIn(ev, A), Members(b, SilverTrades(b), k))
  BY <1>4, <1>6, <1>8 DEF Moves
<1>10. Moves(s, QuotesIn(ev, A), Members(b, SilverTicker(b), k))
  BY <1>5, <1>7, <1>8 DEF Moves
<1>. QED
  BY <1>9, <1>10 DEF A

LEMMA OfIs ==
  ASSUME NEW ev \in Seq(Events), NEW label, NEW k
  PROVE  LET A == Of(ev, label, DOMAIN ev, k)
         IN A \in SUBSET DOMAIN ev /\ Typed(ev, TradesIn(ev, A), QuotesIn(ev, A))
<1> DEFINE A == Of(ev, label, DOMAIN ev, k)
<1>1. A \in SUBSET DOMAIN ev
  BY DEF Of
<1> HIDE DEF A
<1>2. Typed(ev, TradesIn(ev, A), QuotesIn(ev, A))
  BY <1>1, AggTypes DEF Typed
<1>. QED
  BY <1>1, <1>2 DEF A

LEMMA BucketTotals ==
  ASSUME NEW b \in Seq(Events), NEW ev \in Seq(Events), NEW s,
         Numbers(s, ev, b, SilverTrades(b) \cup SilverTicker(b)),
         NEW label, NEW k, k.label = label
  PROVE  Agg(ev, Of(ev, label, DOMAIN ev, k)) = SilverTotals(b, k)
<1> DEFINE A == Of(ev, label, DOMAIN ev, k)
           T == TradesIn(ev, A)
           Q == QuotesIn(ev, A)
           C == Members(b, SilverTrades(b), k)
           D == Members(b, SilverTicker(b), k)
<1>1. Moves(s, T, C) /\ Moves(s, Q, D)
  BY BucketMoves
<1>2. Typed(ev, T, Q) /\ Typed(b, C, D)
  BY OfIs, SilverTyped
<1>3. T \subseteq DOMAIN ev /\ Q \subseteq DOMAIN ev
  BY DEF TradesIn, QuotesIn, Of
<1>4. Follows(b, ev, s, T) /\ Follows(b, ev, s, Q)
  <2> HIDE DEF T, Q
  <2>. QED
    BY <1>3 DEF Numbers, Follows
<1> HIDE DEF A, T, Q, C, D
<1>5. Totals(b, C, D) = Totals(ev, T, Q)
  BY <1>1, <1>2, <1>4, TotalsMoved
<1>. QED
  BY <1>5 DEF Agg, SilverTotals, A, T, Q, C, D

\* The bucket of an event is a bucket of gold.
LEMMA BucketsAre ==
  ASSUME NEW b, NEW ev, NEW s, Numbers(s, ev, b, SilverTrades(b) \cup SilverTicker(b)),
         NEW n \in DOMAIN ev, NEW l \in Labels
  PROVE  Bucket(ev[n], l) \in TradeKeys(b) \cup TickerKeys(b)
BY DEF Numbers, TradeKeys, TickerKeys, Buckets

LEMMA OracleIsGold ==
  ASSUME NEW b \in Seq(Events), NEW ev \in Seq(Events), NEW s,
         Numbers(s, ev, b, SilverTrades(b) \cup SilverTicker(b))
  PROVE  Gold(b) = Oracle(ev)
<1> DEFINE ks == TradeKeys(b) \cup TickerKeys(b)
<1>1. Gold(b) = {GoldRow(b, k) : k \in ks}
  BY GoldRows
<1>2. \A k \in ks : GoldRow(b, k) = Summary(k, SilverTotals(b, k))
  BY GoldRowIs
<1>3. \A r, l : Bucket(r, l).label = l
  BY DEF Bucket
<1>4. ASSUME NEW n \in DOMAIN ev, NEW l \in Labels
      PROVE  Summary(Bucket(ev[n], l), Agg(ev, Of(ev, l, DOMAIN ev, Bucket(ev[n], l))))
               = GoldRow(b, Bucket(ev[n], l))
  <2> DEFINE k == Bucket(ev[n], l)
  <2>1. k \in ks /\ k.label = l
    BY <1>3, BucketsAre
  <2> HIDE DEF k, ks
  <2>2. Agg(ev, Of(ev, l, DOMAIN ev, k)) = SilverTotals(b, k)
    BY <2>1, BucketTotals
  <2>3. Summary(k, Agg(ev, Of(ev, l, DOMAIN ev, k))) = GoldRow(b, k)
    BY <1>2, <2>1, <2>2
  <2>. QED
    BY <2>3 DEF k
<1>5. \A l : ComputeWindows(ev, l)
           = {Summary(k, Agg(ev, Of(ev, l, DOMAIN ev, k))) : k \in {Bucket(ev[i], l) : i \in DOMAIN ev}}
  BY WindowsAre
<1>6. Oracle(ev) \subseteq Gold(b)
  <2> SUFFICES ASSUME NEW l \in Labels, NEW w \in ComputeWindows(ev, l) PROVE w \in Gold(b)
    BY DEF Oracle
  <2>1. PICK n \in DOMAIN ev :
          w = Summary(Bucket(ev[n], l), Agg(ev, Of(ev, l, DOMAIN ev, Bucket(ev[n], l))))
    BY <1>5
  <2>2. w = GoldRow(b, Bucket(ev[n], l))
    BY <1>4, <2>1
  <2>3. Bucket(ev[n], l) \in ks
    BY BucketsAre
  <2>. QED
    BY <1>1, <2>2, <2>3
<1>7. \A k \in ks : \E n \in DOMAIN ev : \E l \in Labels : k = Bucket(ev[n], l)
  BY DEF Numbers, TradeKeys, TickerKeys, Buckets
<1>8. Gold(b) \subseteq Oracle(ev)
  <2> SUFFICES ASSUME NEW g \in Gold(b) PROVE g \in Oracle(ev)
    OBVIOUS
  <2>1. PICK k \in ks : g = GoldRow(b, k)
    BY <1>1
  <2>2. PICK n \in DOMAIN ev, l \in Labels : k = Bucket(ev[n], l)
    BY <1>7, <2>1
  <2>3. g = Summary(k, Agg(ev, Of(ev, l, DOMAIN ev, k)))
    BY <1>4, <2>1, <2>2
  <2>4. g \in ComputeWindows(ev, l)
    BY <1>5, <2>2, <2>3
  <2>. QED
    BY <2>4 DEF Oracle
<1>. QED
  BY <1>6, <1>8

\* The marts compute what compute_windows computes (tests/test_marts.py:36-79), for
\* any bronze: no window is missing, none is spurious and every value agrees.
THEOREM GoldIsTheOracle == Spec => []GoldMatchesOracle
<1>1. BronzeOK => GoldMatchesOracle
  <2> SUFFICES ASSUME BronzeOK PROVE GoldMatchesOracle
    OBVIOUS
  <2> DEFINE is == SilverTrades(bronze) \cup SilverTicker(bronze)
  <2>1. bronze \in Seq(Events)
    BY LandedIsEvents DEF BronzeOK
  <2>2. is \in SUBSET DOMAIN bronze
    BY SilverRows
  <2>3. /\ Enumerated(bronze, is) \in Seq(Events)
        /\ Numbers(SetToSeq(is), Enumerated(bronze, is), bronze, is)
    <3> HIDE DEF is
    <3>. QED
      BY <2>1, <2>2, EnumeratedIs
  <2>. QED
    BY <2>1, <2>3, OracleIsGold DEF GoldMatchesOracle
<1>. QED
  BY <1>1, MartsLandOnlyEvents, PTL

-----------------------------------------------------------------------------
(* The stream's windows and gold.                                          *)

\* Every trade has an id, a price and a size and comes once.
Comparable(b) ==
  /\ \A i \in Trades(b) : Given(b[i].id) /\ Given(b[i].price) /\ Given(b[i].size)
  /\ \A i, j \in Trades(b) : i # j => ~SameTrade(b[i], b[j])

\* Then silver drops none.
LEMMA SilverKeepsAll ==
  ASSUME NEW b \in Seq(LandedRows), Comparable(b)
  PROVE  SilverTrades(b) = Trades(b)
<1>1. \A i \in DOMAIN b : BasicContract(b[i])
  BY LandedIsEvents
<1>2. \A i \in DOMAIN b : IsTrade(b[i]) <=> i \in Trades(b)
  BY <1>1 DEF Comparable, IsTrade, Trades, BasicContract
<1>3. \A i \in DOMAIN b : \A j \in DOMAIN b \ {i} :
        IsTrade(b[i]) /\ IsTrade(b[j]) => ~SameTrade(b[i], b[j])
  BY <1>2 DEF Comparable
<1>4. SilverTrades(b) = {i \in DOMAIN b : IsTrade(b[i])}
  BY <1>3 DEF SilverTrades
<1>. QED
  BY <1>2, <1>4 DEF Trades

\* Counts and volumes of the trades in time and of the late ones add up.
LEMMA LateAddsUp ==
  ASSUME NEW b \in Seq(Events), NEW k, NEW A \in SUBSET Members(b, SilverTrades(b), k)
  PROVE  LET T == Members(b, SilverTrades(b), k)
         IN /\ Cardinality(T) = Cardinality(A) + Cardinality(T \ A)
            /\ SumFunction([i \in T |-> b[i].size])
                 = SumFunction([i \in A |-> b[i].size])
                     + SumFunction([i \in T \ A |-> b[i].size])
<1> DEFINE T == Members(b, SilverTrades(b), k)
           f == [i \in T |-> b[i].size]
<1>1. IsFiniteSet(T) /\ f \in [T -> Int]
  BY TradeSums
<1>2. /\ Restrict(f, A) = [i \in A |-> b[i].size]
      /\ Restrict(f, T \ A) = [i \in T \ A |-> b[i].size]
  BY DEF Restrict
<1> HIDE DEF T, f
<1>3. A \in SUBSET T
  BY DEF T
<1>4. SumFunction(f) = SumFunction(Restrict(f, A)) + SumFunction(Restrict(f, T \ A))
  BY <1>1, <1>3, SumSplit, Zenon
<1>5. Cardinality(T) = Cardinality(A) + Cardinality(T \ A)
  <2>1. IsFiniteSet(A) /\ Cardinality(A) \in Nat /\ Cardinality(T) \in Nat
    BY <1>1, <1>3, FS_Subset, FS_CardinalityType
  <2>2. Cardinality(T \ A) = Cardinality(T) - Cardinality(T \cap A) /\ T \cap A = A
    BY <1>1, <1>3, FS_Difference
  <2>3. Cardinality(T \ A) = Cardinality(T) - Cardinality(A)
    BY <2>2
  <2> DEFINE x == Cardinality(A)
             y == Cardinality(T)
             z == Cardinality(T \ A)
  <2>4. x \in Nat /\ y \in Nat /\ z = y - x
    BY <2>1, <2>3
  <2> HIDE DEF x, y, z
  <2>5. y = x + z
    BY <2>4
  <2>. QED
    BY <2>5 DEF x, y, z
<1>. QED
  BY <1>2, <1>4, <1>5 DEF T, f

LEMMA StreamWindowInGold ==
  ASSUME NEW b \in Seq(LandedRows), Comparable(b), NEW w \in StreamWindows(b)
  PROVE  \E g \in Gold(b) :
           LET late == Members(b, Trades(b), w.key) \ OnTime(b, w.key)
           IN /\ g.key = w.key
              /\ g.trades = w.count + Cardinality(late)
              /\ g.volume = w.volume + SumFunction([i \in late |-> b[i].size])
              /\ late = {} => g.vwap = w.vwap
<1>1. b \in Seq(Events) /\ SilverTrades(b) = Trades(b)
  BY LandedIsEvents, SilverKeepsAll
<1>2. PICK k \in Buckets(b, Trades(b)) : w = StreamWindow(b, k)
  BY DEF StreamWindows
<1> DEFINE T == Members(b, SilverTrades(b), k)
           A == OnTime(b, k)
           vol(is) == SumFunction([i \in is |-> b[i].size])
           pv(is) == SumFunction([i \in is |-> b[i].price * b[i].size])
           g == GoldRow(b, k)
<1>3. A \in SUBSET T /\ T = Members(b, Trades(b), k)
  BY <1>1 DEF OnTime
<1>4. k \in TradeKeys(b)
  BY <1>1, <1>2 DEF TradeKeys
<1>5. g \in Gold(b)
  BY <1>4, GoldRows
<1>6. /\ w.key = k /\ w.count = Cardinality(A) /\ w.volume = vol(A)
      /\ w.vwap = IF vol(A) > 0 THEN <<pv(A), vol(A)>> ELSE Null
  BY <1>2 DEF StreamWindow
<1>7. /\ TradeWindow(b, k).vwap = IF vol(T) = 0 THEN Null ELSE <<pv(T), vol(T)>>
      /\ TradeWindow(b, k).volume = vol(T) /\ TradeWindow(b, k).count = Cardinality(T)
  BY DEF TradeWindow
<1>8. /\ g.key = k /\ g.trades = TradeWindow(b, k).count
      /\ g.volume = TradeWindow(b, k).volume /\ g.vwap = TradeWindow(b, k).vwap
  BY <1>4 DEF GoldRow, Row
<1>9. vol(T) \in Nat
  BY <1>1, TradeSums
<1>10. Cardinality(T) = Cardinality(A) + Cardinality(T \ A) /\ vol(T) = vol(A) + vol(T \ A)
  BY <1>1, <1>3, LateAddsUp
<1> DEFINE late == Members(b, Trades(b), w.key) \ OnTime(b, w.key)
<1>11. late = T \ A
  BY <1>3, <1>6
<1>12. ASSUME late = {} PROVE g.vwap = w.vwap
  <2>1. A = T
    BY <1>3, <1>11, <1>12
  <2> HIDE DEF vol, pv, T, A, g, late
  <2>2. w.vwap = IF vol(T) > 0 THEN <<pv(T), vol(T)>> ELSE Null
    BY <1>6, <2>1
  <2>3. vol(T) > 0 <=> vol(T) # 0
    BY <1>9
  <2>. QED
    BY <1>7, <1>8, <2>2, <2>3
<1> HIDE DEF T, A, g, late
<1>13. /\ g.key = w.key /\ g.trades = w.count + Cardinality(late)
       /\ g.volume = w.volume + vol(late)
  <2> HIDE DEF vol
  <2>. QED
    BY <1>6, <1>7, <1>8, <1>10, <1>11
<1>. QED
  BY <1>5, <1>12, <1>13 DEF late

\* Every window of trades the stream publishes is a row of gold, which counts the
\* trades the stream dropped as late too, and has the stream's VWAP where there are
\* none; provided every trade has an id, a price and a size and comes once
\* (app.py:48-90, gold_window_metrics.sql:4-5).
THEOREM GoldIsTheStream == Spec => []GoldAgreesWithStream
<1>1. BronzeOK => GoldAgreesWithStream
  <2> SUFFICES ASSUME BronzeOK, Comparable(bronze), NEW w \in StreamWindows(bronze)
               PROVE  \E g \in Gold(bronze) :
                        LET late == Members(bronze, Trades(bronze), w.key)
                                      \ OnTime(bronze, w.key)
                        IN /\ g.key = w.key
                           /\ g.trades = w.count + Cardinality(late)
                           /\ g.volume = w.volume + SumFunction([i \in late |-> bronze[i].size])
                           /\ late = {} => g.vwap = w.vwap
    BY DEF GoldAgreesWithStream, Comparable
  <2>. QED
    BY StreamWindowInGold DEF BronzeOK
<1>. QED
  BY <1>1, MartsLandOnlyEvents, PTL
=============================================================================
