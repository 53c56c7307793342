------------------------- MODULE GoldReadersProofs -------------------------
(***************************************************************************)
(* Proofs about GoldReaders: for all fixtures, any number of runs that may *)
(* fail anywhere, and a reader that reads again and again.  What a reader  *)
(* has pinned is related to what the catalog has now by the abstract table *)
(* the pipeline implements.                                                *)
(***************************************************************************)
EXTENDS GoldReaders, LakePipelineProofs

-----------------------------------------------------------------------------
(* The reads that are left, by what comes next.                            *)

G2 == <<"load", "gold">>
G1 == <<"gold">>
V5 == <<"snaps", "load", "current", "load", "first">>
V4 == <<"load", "current", "load", "first">>
V3 == <<"current", "load", "first">>
V2 == <<"load", "first">>
V1 == <<"first">>
W3 == <<"result", "load", "current">>
W2 == <<"load", "current">>
W1 == <<"current">>
D8 == <<"load", "gold", "snaps", "result", "load", "current", "load", "first">>
D7 == <<"gold", "snaps", "result", "load", "current", "load", "first">>
D6 == <<"snaps", "result", "load", "current", "load", "first">>
D5 == <<"result", "load", "current", "load", "first">>
Done == <<>>

\* W: without a snapshot, the first one is not read.
Left ==
  [query       |-> {G2, G1, Done},
   time_travel |-> {V5, V4, V3, V2, V1, W2, W1, Done},
   dashboard   |-> {D8, D7, D6, D5, V4, V3, V2, V1, W3, W2, W1, Done}]

Panels == {"gold", "snaps", "result", "current", "first"}

-----------------------------------------------------------------------------
(* The inductive invariant.                                                *)

ReaderOK ==
  /\ kind \in DOMAIN Reads
  /\ todo \in Left[kind]
  /\ DOMAIN got = Panels
  /\ raised => todo = <<>>

\* Table d is c or a later one: of a later run, or of the same run with more
\* snapshots.
Below(c, d) ==
  \/ c.gen < d.gen
  \/ /\ c.gen = d.gen /\ Len(c.table) <= Len(d.table)
     /\ \A i \in 1..Len(c.table) : d.table[i] = c.table[i]

\* The catalog had table c: what it has now, or will have, is c or a later one.
Behind(c) ==
  /\ c.gen \in 1..run
  /\ IF iceberg = NoTable THEN c.gen < run ELSE Below(c, Catalog)

\* The first snapshot of a table is the one-minute part of the last one.
WellHeaded(table) ==
  /\ table \in Seq(SUBSET GoldRows)
  /\ table # <<>> => /\ Current(table) # {}
                     /\ Head(table) = OneMinute(Current(table))

SeenInv ==
  /\ todo # <<>> => Catalog \in seen
  /\ \A c \in seen : c.table # NoTable => Behind(c) /\ WellHeaded(c.table)

PinInv ==
  todo \in {G1, D7, V3, V1, W1} => pin \in seen /\ pin.table # NoTable

\* Time travel: the ids, then the current rows, then the first snapshot, each of
\* the same table as the one before or of a later one.
TravelInv ==
  LET ids == got.snaps
  IN /\ todo # <<>> => got.first = Unread
     /\ todo \in {D5, V4, V3, V2, V1} => ids \in seen /\ ids.table \notin {NoTable, <<>>}
     /\ todo \in {V3, V2} => pin \in seen /\ pin.table # NoTable /\ Below(ids, pin)
     /\ todo = V2 => got.current = Current(pin.table)
     /\ todo = V1 =>
          \E p \in seen : /\ p.table # NoTable /\ Below(ids, p) /\ Below(p, pin)
                          /\ got.current = Current(p.table)

Idle == stage = "idle"

\* What makes load_data fall back.
Demo == iceberg = NoTable \/ Current(iceberg) = {} \/ result = Torn

\* A load of the page beside no run, undisturbed so far.
QuietInv ==
  (kind = "dashboard" /\ quiet /\ Idle) =>
    IF raised THEN Demo
    ELSE /\ todo \notin {W3, W2, W1}
         /\ todo # D8 => iceberg # NoTable
         /\ todo \in {D7, V3, V1} => pin = Catalog
         /\ todo \notin {D8, D7} =>
              Current(iceberg) # {} /\ got.gold = Current(iceberg)
         /\ todo \notin {D8, D7, D6} => got.snaps = Catalog
         /\ todo \notin {D8, D7, D6, D5} => got.result = result /\ result # Torn
         /\ todo \in {V2, V1, Done} => got.current = Current(iceberg)

ReadersInv ==
  ReaderOK /\ SeenInv /\ PinInv /\ NeverStale /\ TravelInv /\ TimeTravelConsistent
           /\ QuietInv

-----------------------------------------------------------------------------
(* What comes next.                                                        *)

LEMMA Heads ==
  /\ Done = <<>>
  /\ G2 # Done /\ Head(G2) = "load" /\ Tail(G2) = G1
  /\ G1 # Done /\ Head(G1) = "gold" /\ Tail(G1) = Done
  /\ V5 # Done /\ Head(V5) = "snaps" /\ Tail(V5) = V4
  /\ V4 # Done /\ Head(V4) = "load" /\ Tail(V4) = V3
  /\ V3 # Done /\ Head(V3) = "current" /\ Tail(V3) = V2
  /\ V2 # Done /\ Head(V2) = "load" /\ Tail(V2) = V1
  /\ V1 # Done /\ Head(V1) = "first" /\ Tail(V1) = Done
  /\ W3 # Done /\ Head(W3) = "result" /\ Tail(W3) = W2
  /\ W2 # Done /\ Head(W2) = "load" /\ Tail(W2) = W1
  /\ W1 # Done /\ Head(W1) = "current" /\ Tail(W1) = Done
  /\ D8 # Done /\ Head(D8) = "load" /\ Tail(D8) = D7
  /\ D7 # Done /\ Head(D7) = "gold" /\ Tail(D7) = D6
  /\ D6 # Done /\ Head(D6) = "snaps" /\ Tail(D6) = D5
  /\ D5 # Done /\ Head(D5) = "result" /\ Tail(D5) = V4
<1>1. /\ G2 # Done /\ Head(G2) = "load" /\ Tail(G2) = G1
      /\ G1 # Done /\ Head(G1) = "gold" /\ Tail(G1) = Done
  BY DEF G1, G2, Done
<1>2. /\ V5 # Done /\ Head(V5) = "snaps" /\ Tail(V5) = V4
      /\ V4 # Done /\ Head(V4) = "load" /\ Tail(V4) = V3
  BY DEF V3, V4, V5, Done
<1>3. /\ V3 # Done /\ Head(V3) = "current" /\ Tail(V3) = V2
      /\ V2 # Done /\ Head(V2) = "load" /\ Tail(V2) = V1
  BY DEF V1, V2, V3, Done
<1>4. /\ V1 # Done /\ Head(V1) = "first" /\ Tail(V1) = Done
      /\ W3 # Done /\ Head(W3) = "result" /\ Tail(W3) = W2
  BY DEF V1, W2, W3, Done
<1>5. /\ W2 # Done /\ Head(W2) = "load" /\ Tail(W2) = W1
      /\ W1 # Done /\ Head(W1) = "current" /\ Tail(W1) = Done
  BY DEF W1, W2, Done
<1>6. /\ D8 # Done /\ Head(D8) = "load" /\ Tail(D8) = D7
      /\ D7 # Done /\ Head(D7) = "gold" /\ Tail(D7) = D6
  BY DEF D6, D7, D8, Done
<1>7. /\ D6 # Done /\ Head(D6) = "snaps" /\ Tail(D6) = D5
      /\ D5 # Done /\ Head(D5) = "result" /\ Tail(D5) = V4
  BY DEF D5, D6, V4, Done
<1>. QED
  BY <1>1, <1>2, <1>3, <1>4, <1>5, <1>6, <1>7 DEF Done

\* No two of the lists are the same.
LEMMA Distinct ==
  /\ G2 \notin {G1, V5, V4, V3, V2, V1, W3, W2, W1, D8, D7, D6, D5, Done}
  /\ G1 \notin {V5, V4, V3, V2, V1, W3, W2, W1, D8, D7, D6, D5, Done}
  /\ V5 \notin {V4, V3, V2, V1, W3, W2, W1, D8, D7, D6, D5, Done}
  /\ V4 \notin {V3, V2, V1, W3, W2, W1, D8, D7, D6, D5, Done}
  /\ V3 \notin {V2, V1, W3, W2, W1, D8, D7, D6, D5, Done}
  /\ V2 \notin {V1, W3, W2, W1, D8, D7, D6, D5, Done}
  /\ V1 \notin {W3, W2, W1, D8, D7, D6, D5, Done}
  /\ W3 \notin {W2, W1, D8, D7, D6, D5, Done}
  /\ W2 \notin {W1, D8, D7, D6, D5, Done}
  /\ W1 \notin {D8, D7, D6, D5, Done}
  /\ D8 \notin {D7, D6, D5, Done}
  /\ D7 \notin {D6, D5, Done}
  /\ D6 \notin {D5, Done} /\ D5 # Done
<1>0. /\ G2 # Done /\ G1 # Done /\ V5 # Done /\ V4 # Done /\ V3 # Done /\ V2 # Done
      /\ V1 # Done /\ W3 # Done /\ W2 # Done /\ W1 # Done
      /\ D8 # Done /\ D7 # Done /\ D6 # Done /\ D5 # Done
  BY Heads
<1>1. /\ Len(G2) = 2 /\ Len(G1) = 1 /\ Len(V5) = 5 /\ Len(V4) = 4 /\ Len(V3) = 3
      /\ Len(V2) = 2 /\ Len(V1) = 1
  BY DEF G2, G1, V5, V4, V3, V2, V1
<1>2. /\ Len(W3) = 3 /\ Len(W2) = 2 /\ Len(W1) = 1 /\ Len(D8) = 8 /\ Len(D7) = 7
      /\ Len(D6) = 6 /\ Len(D5) = 5
  BY DEF W3, W2, W1, D8, D7, D6, D5
<1>3. "gold" # "current" /\ "gold" # "first" /\ "current" # "first"
      /\ "snaps" # "result" /\ "current" # "result"
  OBVIOUS
<1>4. G1 \notin {V1, W1} /\ V1 # W1 /\ V5 # D5 /\ V3 # W3
  BY <1>3, Heads
<1>5. G2 \notin {V2, W2} /\ V2 # W2
  BY <1>4, Heads
<1>6. /\ G2 \notin {G1, V5, V4, V3, V2, V1, W3, W2, W1, D8, D7, D6, D5, Done}
      /\ G1 \notin {V5, V4, V3, V2, V1, W3, W2, W1, D8, D7, D6, D5, Done}
  BY <1>0, <1>1, <1>2, <1>4, <1>5
<1>7. V5 \notin {V4, V3, V2, V1, W3, W2, W1, D8, D7, D6, D5, Done}
  BY <1>0, <1>1, <1>2, <1>4
<1>10. /\ V4 \notin {V3, V2, V1, W3, W2, W1, D8, D7, D6, D5, Done}
       /\ V3 \notin {V2, V1, W3, W2, W1, D8, D7, D6, D5, Done}
  BY <1>0, <1>1, <1>2, <1>4
<1>8. /\ V2 \notin {V1, W3, W2, W1, D8, D7, D6, D5, Done}
      /\ V1 \notin {W3, W2, W1, D8, D7, D6, D5, Done}
      /\ W3 \notin {W2, W1, D8, D7, D6, D5, Done}
  BY <1>0, <1>1, <1>2, <1>4, <1>5
<1>9. /\ W2 \notin {W1, D8, D7, D6, D5, Done}
      /\ W1 \notin {D8, D7, D6, D5, Done}
      /\ D8 \notin {D7, D6, D5, Done}
      /\ D7 \notin {D6, D5, Done}
      /\ D6 \notin {D5, Done} /\ D5 # Done
  BY <1>0, <1>1, <1>2
<1>. QED
  BY <1>6, <1>7, <1>8, <1>9, <1>10

\* Without a snapshot the last two reads are left out.
CutReads == {"load", "current", "result", "first"}

LEMMA Cuts ==
  SubSeq(V4, 1, Len(V4) - 2) = W2 /\ SubSeq(D5, 1, Len(D5) - 2) = W3
<1>1. SubSeq(V4, 1, 2) = W2
  <2>1. \A i \in 1..2 : V4[i] \in CutReads /\ V4[i] = W2[i]
    BY DEF V4, W2, CutReads
  <2>2. /\ SubSeq(V4, 1, 2) \in Seq(CutReads) /\ Len(SubSeq(V4, 1, 2)) = 2
        /\ \A i \in 1..2 : SubSeq(V4, 1, 2)[i] = V4[i]
    BY <2>1, SubSeqProperties
  <2>3. W2 \in Seq(CutReads) /\ Len(W2) = 2
    BY DEF W2, CutReads
  <2>. QED
    BY <2>1, <2>2, <2>3, SeqEqual
<1>2. SubSeq(D5, 1, 3) = W3
  <2>1. \A i \in 1..3 : D5[i] \in CutReads /\ D5[i] = W3[i]
    BY DEF D5, W3, CutReads
  <2>2. /\ SubSeq(D5, 1, 3) \in Seq(CutReads) /\ Len(SubSeq(D5, 1, 3)) = 3
        /\ \A i \in 1..3 : SubSeq(D5, 1, 3)[i] = D5[i]
    BY <2>1, SubSeqProperties
  <2>3. W3 \in Seq(CutReads) /\ Len(W3) = 3
    BY DEF W3, CutReads
  <2>. QED
    BY <2>1, <2>2, <2>3, SeqEqual
<1>3. Len(V4) = 4 /\ Len(D5) = 5
  BY DEF V4, D5
<1>. QED
  BY <1>1, <1>2, <1>3

\* The reader's lists, by their first read.
LEMMA Turns ==
  ASSUME ReaderOK
  PROVE  /\ Turn("load") => todo \in {G2, V4, V2, W2, D8}
         /\ Turn("snaps") => todo \in {V5, D6}
         /\ Turn("gold") => todo \in {G1, D7}
         /\ Turn("current") => todo \in {V3, W1}
         /\ Turn("first") => todo = V1
         /\ Turn("result") => todo \in {D5, W3}
<1>1. todo \in {G2, G1, V5, V4, V3, V2, V1, W3, W2, W1, D8, D7, D6, D5, Done}
  BY DEF ReaderOK, Left, Reads
<1>. QED
  BY <1>1, Heads DEF Turn

\* The rest of a list is a list of the same reader.
LEMMA Rests ==
  ASSUME ReaderOK, todo # <<>>
  PROVE  /\ Tail(todo) \in Left[kind]
         /\ todo = V5 => W2 \in Left[kind]
         /\ todo = D6 => W3 \in Left[kind]
<1>1. CASE kind = "query"
  BY <1>1, Heads DEF Left, ReaderOK
<1>2. CASE kind = "time_travel"
  BY <1>2, Heads DEF Left, ReaderOK
<1>3. CASE kind = "dashboard"
  BY <1>3, Heads DEF Left, ReaderOK
<1>. QED
  BY <1>1, <1>2, <1>3 DEF Reads, ReaderOK

-----------------------------------------------------------------------------
(* The pipeline, as readers see it.                                        *)

CatalogOK == iceberg # NoTable => Behind(Catalog) /\ WellHeaded(iceberg)

LEMMA CatalogTable == Catalog.table = iceberg
BY DEF Catalog

LEMMA CatalogIsOK == Inv /\ HeadInv => CatalogOK
<1> SUFFICES ASSUME Inv, HeadInv, iceberg # NoTable
             PROVE  Behind(Catalog) /\ WellHeaded(iceberg)
  BY DEF CatalogOK
<1>1. TypeOK /\ TableInv
  BY DEF Inv
<1>2. dataFiles \subseteq 1..run /\ run \in Nat
  BY <1>1, ConstantsAssumption DEF TypeOK
<1>3. Catalog.gen \in 1..run /\ Catalog.table = iceberg
  BY <1>1, <1>2, CatalogIs
<1>4. iceberg \in Seq(SUBSET GoldRows) /\ Len(iceberg) \in Nat
  BY <1>1, LenProperties DEF TypeOK
<1>. QED
  BY <1>2, <1>3, <1>4 DEF Behind, Below, WellHeaded, HeadInv

\* What the catalog had stays behind it, because the pipeline's table is versioned.
LEMMA BehindStep ==
  ASSUME Inv, Inv', [Next]_vars, NEW c, Behind(c), WellHeaded(c.table)
  PROVE  Behind(c)'
<1>0. /\ TypeOK /\ TableInv /\ run \in Nat /\ c.gen \in 1..run
      /\ Catalog.table = iceberg /\ Catalog'.table = iceberg'
      /\ iceberg # NoTable => Catalog.gen \in 1..run /\ iceberg \in Seq(SUBSET GoldRows)
  <2>1. /\ TypeOK /\ TableInv /\ run \in Nat /\ c.gen \in 1..run
        /\ Catalog.table = iceberg /\ Catalog'.table = iceberg'
    BY ConstantsAssumption DEF Inv, TypeOK, Behind, Catalog
  <2>2. ASSUME iceberg # NoTable PROVE Catalog.gen \in 1..run
    <3>1. dataFiles \subseteq 1..run
      BY <2>1 DEF TypeOK
    <3>. QED
      BY <2>1, <2>2, <3>1, CatalogIs
  <2>. QED
    BY <2>1, <2>2 DEF TypeOK
<1>1. CASE UNCHANGED <<run, Catalog>>
  BY <1>0, <1>1 DEF Behind, Below
<1>2. CASE Table!Begin
  BY <1>0, <1>2 DEF Table!Begin, Behind, Below
<1>3. CASE Table!Withdraw
  <2>1. /\ iceberg # NoTable /\ Catalog.gen < run /\ run' = run
        /\ Catalog' = [gen |-> 0, table |-> NoTable]
    BY <1>0, <1>3 DEF Table!Withdraw, Table!None
  <2>2. c.gen <= Catalog.gen
    BY <1>0, <2>1 DEF Behind, Below
  <2>3. iceberg' = NoTable
    BY <1>0, <2>1
  <2>. QED
    BY <1>0, <2>1, <2>2, <2>3 DEF Behind
<1>4. CASE Table!Create
  <2>1. /\ iceberg = NoTable /\ run' = run
        /\ Catalog' = [gen |-> run, table |-> <<>>]
    BY <1>0, <1>4 DEF Table!Create
  <2>2. c.gen < Catalog'.gen
    BY <1>0, <2>1 DEF Behind
  <2>3. iceberg' # NoTable
    BY <1>0, <2>1, ConstantsAssumption, EmptySeq
  <2>. QED
    BY <1>0, <2>1, <2>2, <2>3 DEF Behind, Below
<1>5. CASE Table!Commit
  <2>1. /\ iceberg # NoTable /\ Catalog.gen = run /\ run' = run /\ Catalog'.gen = run
        /\ \E new : Catalog'.table = Append(Catalog.table, new)
    BY <1>0, <1>5 DEF Table!Commit
  <2>2. PICK new : iceberg' = Append(iceberg, new)
    BY <1>0, <2>1
  <2>3. /\ Len(iceberg') = Len(iceberg) + 1
        /\ \A i \in 1..Len(iceberg) : iceberg'[i] = iceberg[i]
    BY <1>0, <2>1, <2>2
  <2>4. iceberg' # NoTable
    BY <1>0, <2>1 DEF Catalog
  <2>5. Len(c.table) \in Nat /\ Len(iceberg) \in Nat
    BY <1>0, <2>1, LenProperties DEF WellHeaded
  <2>6. Below(c, Catalog)'
    BY <1>0, <2>1, <2>3, <2>5 DEF Behind, Below
  <2>. QED
    BY <1>0, <2>1, <2>4, <2>6 DEF Behind
<1>. QED
  BY <1>1, <1>2, <1>3, <1>4, <1>5, TableNextStep DEF Table!Next

-----------------------------------------------------------------------------
(* The steps of the reader and of the pipeline.                            *)

\* What is known of the pipeline.
PipelineOK == Inv /\ BuildInv /\ GoldFollowsBronze /\ CatalogOK

LEMMA SeenKept ==
  ASSUME SeenInv, todo # <<>>, UNCHANGED vars, seen' = seen
  PROVE  SeenInv'
<1>1. Catalog' = Catalog /\ run' = run /\ iceberg' = iceberg
  BY DEF vars, goldVars, Catalog
<1>2. \A c : Behind(c)' <=> Behind(c)
  BY <1>1 DEF Behind
<1>. QED
  BY <1>1, <1>2 DEF SeenInv

LEMMA RaiseStep ==
  ASSUME ReadersInv, todo # <<>>, Raise, UNCHANGED <<vars, seen, quiet>>,
         kind = "dashboard" /\ quiet /\ Idle => Demo
  PROVE  ReadersInv'
<1>0. /\ todo' = <<>> /\ raised' = TRUE /\ kind' = kind /\ pin' = pin /\ got' = got
      /\ seen' = seen /\ quiet' = quiet /\ iceberg' = iceberg
      /\ ReaderOK /\ SeenInv /\ PinInv /\ NeverStale /\ TravelInv
      /\ TimeTravelConsistent /\ QuietInv
  BY DEF Raise, ReadersInv, vars, goldVars
<1>1. ReaderOK'
  BY <1>0, Heads DEF ReaderOK, Left, Reads
<1>2. SeenInv'
  BY <1>0, SeenKept
<1>3. PinInv' /\ TravelInv'
  BY <1>0, Heads DEF PinInv, TravelInv
<1>4. NeverStale' /\ TimeTravelConsistent'
  BY <1>0 DEF NeverStale, TimeTravelConsistent
<1>5. QuietInv'
  <2>1. (Idle' <=> Idle) /\ (Demo' <=> Demo)
    BY DEF vars, goldVars, Idle, Demo
  <2>. QED
    BY <1>0, <2>1 DEF QuietInv
<1>. QED
  BY <1>1, <1>2, <1>3, <1>4, <1>5 DEF ReadersInv

LEMMA LoadStep ==
  ASSUME PipelineOK, ReadersInv, Load, UNCHANGED <<vars, seen, quiet>>
  PROVE  ReadersInv'
<1>0. /\ seen' = seen /\ quiet' = quiet /\ iceberg' = iceberg /\ result' = result
      /\ Catalog' = Catalog /\ (Idle' <=> Idle) /\ (Demo' <=> Demo) /\ todo # <<>>
      /\ ReaderOK /\ SeenInv /\ PinInv /\ NeverStale /\ TravelInv
      /\ TimeTravelConsistent /\ QuietInv
      /\ todo \in {G2, V4, V2, W2, D8}
  BY Turns DEF ReadersInv, vars, goldVars, Catalog, Idle, Demo, Load, Turn
<1>1. CASE iceberg = NoTable
  <2>1. Raise
    BY <1>1 DEF Load, Pinned
  <2>2. Demo
    BY <1>1 DEF Demo
  <2>. QED
    BY <1>0, <2>1, <2>2, RaiseStep
<1>2. CASE iceberg # NoTable
  <2>1. /\ pin' = Catalog /\ todo' = Tail(todo) /\ kind' = kind /\ got' = got
        /\ raised' = raised
    BY <1>2 DEF Load, Pinned
  <2>2. ~raised
    BY <1>0 DEF ReaderOK
  <2>3. Catalog \in seen /\ Catalog.table = iceberg /\ WellHeaded(iceberg)
    BY <1>0, <1>2, CatalogTable DEF SeenInv, PipelineOK, CatalogOK
  <2>4. ReaderOK'
    BY <1>0, <2>1, <2>2, Rests DEF ReaderOK
  <2>5. SeenInv'
    BY <1>0, SeenKept
  <2>6. PinInv'
    BY <1>0, <1>2, <2>1, <2>3 DEF PinInv
  <2>7. NeverStale' /\ TimeTravelConsistent'
    BY <1>0, <2>1 DEF NeverStale, TimeTravelConsistent
  <2>8. TravelInv'
    <3>1. todo' \in {G1, V3, V1, W1, D7}
      BY <1>0, <2>1, Heads
    <3>2. got'.first = Unread
      BY <1>0, <2>1 DEF TravelInv
    <3>3. todo' \in {V3, V1} => got.snaps \in seen /\ got.snaps.table \notin {NoTable, <<>>}
      <4>1. todo' \in {V3, V1} => todo \in {V4, V2}
        BY <1>0, <2>1, Heads, Distinct
      <4>. QED
        BY <1>0, <2>1, <4>1 DEF TravelInv
    <3>4. ASSUME todo' = V3 PROVE Below(got.snaps, Catalog)
      BY <1>0, <1>2, <3>3, <3>4 DEF SeenInv, Behind
    <3>5. ASSUME todo' = V1
          PROVE  /\ pin \in seen /\ pin.table # NoTable /\ Below(got.snaps, pin)
                 /\ got.current = Current(pin.table) /\ Below(pin, Catalog)
      <4>1. todo = V2
        BY <1>0, <2>1, <3>5, Heads
      <4>2. /\ pin \in seen /\ pin.table # NoTable /\ Below(got.snaps, pin)
            /\ got.current = Current(pin.table)
        BY <1>0, <4>1 DEF TravelInv
      <4>. QED
        BY <1>0, <1>2, <4>2 DEF SeenInv, Behind
    <3>6. V3 \notin {V2, V1, D5, V4} /\ V1 \notin {V2, V3, D5, V4}
      BY Heads
    <3>7. CASE todo' = V3
      BY <1>0, <1>2, <2>1, <2>3, <3>2, <3>3, <3>4, <3>6, <3>7 DEF TravelInv, Below
    <3>8. CASE todo' = V1
      BY <1>0, <1>2, <2>1, <2>3, <3>2, <3>3, <3>5, <3>6, <3>8 DEF TravelInv, Below
    <3>9. CASE todo' \in {G1, W1, D7}
      <4>1. todo' \notin {D5, V4, V3, V2, V1}
        BY <3>9, Heads
      <4>. QED
        BY <3>2, <4>1 DEF TravelInv
    <3>. QED
      BY <3>1, <3>7, <3>8, <3>9
  <2>9. QuietInv'
    <3>1. ASSUME kind = "dashboard", quiet, Idle
          PROVE  todo \in {D8, V4, V2}
      <4>1. todo \notin {G2, W2}
        <5>1. todo # W2
          BY <1>0, <2>2, <3>1 DEF QuietInv
        <5>2. todo \in Left["dashboard"]
          BY <1>0, <3>1 DEF ReaderOK
        <5>3. G2 \notin Left["dashboard"]
          BY Distinct DEF Left
        <5>. QED
          BY <5>1, <5>2, <5>3
      <4>. QED
        BY <1>0, <4>1
    <3>2. CASE todo = D8
      <4>1. todo' = D7
        BY <2>1, <3>2, Heads
      <4>2. D7 \notin {W3, W2, W1, V2, V1, Done}
        BY Distinct
      <4>. QED
        BY <1>0, <1>2, <2>1, <2>2, <4>1, <4>2 DEF QuietInv
    <3>3. CASE todo = V4
      <4>1. todo' = V3
        BY <2>1, <3>3, Heads
      <4>2. /\ V3 \notin {W3, W2, W1, V2, V1, Done} /\ V4 \notin {D8, D7, D6, D5}
            /\ V3 \notin {D7, D6}
        BY Distinct
      <4>3. kind = "dashboard" /\ quiet /\ Idle =>
              /\ Current(iceberg) # {} /\ got.gold = Current(iceberg)
              /\ got.snaps = Catalog /\ got.result = result /\ result # Torn
        BY <1>0, <2>2, <3>3, <4>2 DEF QuietInv
      <4>. QED
        BY <1>0, <1>2, <2>1, <4>1, <4>2, <4>3 DEF QuietInv
    <3>4. CASE todo = V2
      <4>1. todo' = V1
        BY <2>1, <3>4, Heads
      <4>2. V1 \notin {W3, W2, W1} /\ V2 \notin {D8, D7, D6, D5}
        BY Distinct
      <4>. QED
        BY <1>0, <1>2, <2>1, <2>2, <3>4, <4>1, <4>2 DEF QuietInv
    <3>5. CASE ~(kind = "dashboard" /\ quiet /\ Idle)
      BY <1>0, <2>1, <3>5 DEF QuietInv
    <3>. QED
      BY <3>1, <3>2, <3>3, <3>4, <3>5
  <2>. QED
    BY <2>4, <2>5, <2>6, <2>7, <2>8, <2>9 DEF ReadersInv
<1>. QED
  BY <1>1, <1>2

\* What a read that returns does to what has been read.
LEMMA GotIs ==
  ASSUME DOMAIN got = Panels, NEW x \in Panels, NEW value, Got(x, value)
  PROVE  /\ DOMAIN got' = Panels /\ got'[x] = value
         /\ \A y \in Panels \ {x} : got'[y] = got[y]
         /\ kind' = kind /\ pin' = pin /\ raised' = raised
BY DEF Got

LEMMA ListSnapshotsStep ==
  ASSUME PipelineOK, ReadersInv, ListSnapshots, UNCHANGED <<vars, seen, quiet>>
  PROVE  ReadersInv'
<1>0. /\ seen' = seen /\ quiet' = quiet /\ iceberg' = iceberg /\ result' = result
      /\ Catalog' = Catalog /\ (Idle' <=> Idle) /\ (Demo' <=> Demo) /\ todo # <<>> /\ ~raised
      /\ ReaderOK /\ SeenInv /\ PinInv /\ NeverStale /\ TravelInv
      /\ TimeTravelConsistent /\ QuietInv
      /\ todo \in {V5, D6}
  BY Turns DEF ReadersInv, vars, goldVars, Catalog, Idle, Demo, ListSnapshots, Turn, ReaderOK
<1>1. CASE iceberg = NoTable
  <2>1. Raise
    BY <1>1 DEF ListSnapshots
  <2>2. Demo
    BY <1>1 DEF Demo
  <2>. QED
    BY <1>0, <2>1, <2>2, RaiseStep
<1>2. CASE iceberg # NoTable
  <2>1. Got("snaps", Catalog)
    BY <1>2 DEF ListSnapshots
  <2>2. /\ DOMAIN got' = Panels /\ got'.snaps = Catalog
        /\ got'.gold = got.gold /\ got'.current = got.current
        /\ got'.first = got.first /\ got'.result = got.result
        /\ kind' = kind /\ pin' = pin /\ raised' = raised
    BY <1>0, <2>1, GotIs DEF ReaderOK, Panels
  <2>3. Catalog \in seen /\ Catalog.table = iceberg
    BY <1>0, CatalogTable DEF SeenInv
  <2>4. got.first = Unread
    BY <1>0 DEF TravelInv
  <2>5. kind = "dashboard" => todo = D6
    <3>1. V5 \notin Left["dashboard"]
      BY Distinct DEF Left
    <3>. QED
      BY <1>0, <3>1 DEF ReaderOK
  <2>6. SeenInv'
    BY <1>0, SeenKept
  <2>7. NeverStale' /\ TimeTravelConsistent'
    BY <1>0, <2>2, <2>4 DEF NeverStale, TimeTravelConsistent
  <2>8. CASE iceberg = <<>>
    <3>1. todo' = SubSeq(Tail(todo), 1, Len(Tail(todo)) - 2)
      BY <1>2, <2>8 DEF ListSnapshots
    <3>2. (todo = V5 /\ todo' = W2) \/ (todo = D6 /\ todo' = W3)
      BY <1>0, <3>1, Heads, Cuts
    <3>3. ReaderOK'
      BY <1>0, <2>2, <3>2, Rests DEF ReaderOK
    <3>4. todo' \notin {G1, D7, V3, V1, W1, D5, V4, V2}
      BY <3>2, Distinct
    <3>5. PinInv' /\ TravelInv'
      BY <2>2, <2>4, <3>4 DEF PinInv, TravelInv
    <3>6. ~(kind = "dashboard" /\ quiet /\ Idle)
      <4>1. D6 \notin {D8, D7}
        BY Distinct
      <4>2. Current(iceberg) = {}
        BY <2>8 DEF Current
      <4>. QED
        BY <1>0, <2>5, <4>1, <4>2 DEF QuietInv
    <3>7. QuietInv'
      BY <1>0, <2>2, <3>6 DEF QuietInv
    <3>. QED
      BY <2>6, <2>7, <3>3, <3>5, <3>7 DEF ReadersInv
  <2>9. CASE iceberg # <<>>
    <3>1. todo' = Tail(todo)
      BY <1>2, <2>9 DEF ListSnapshots
    <3>2. (todo = V5 /\ todo' = V4) \/ (todo = D6 /\ todo' = D5)
      BY <1>0, <3>1, Heads
    <3>3. ReaderOK'
      BY <1>0, <2>2, <3>1, Rests DEF ReaderOK
    <3>4. todo' \notin {G1, D7, V3, V1, W1, V2}
      BY <3>2, Distinct
    <3>5. PinInv' /\ TravelInv'
      BY <1>0, <1>2, <2>2, <2>3, <2>4, <2>9, <3>4 DEF PinInv, TravelInv
    <3>6. ASSUME kind = "dashboard", quiet, Idle
          PROVE  /\ Current(iceberg) # {} /\ got.gold = Current(iceberg)
                 /\ todo' = D5
      <4>1. D6 \notin {D8, D7} /\ D6 # V5
        BY Distinct
      <4>2. todo = D6
        BY <2>5, <3>6
      <4>3. todo' = D5
        BY <3>2, <4>1, <4>2
      <4>4. Current(iceberg) # {} /\ got.gold = Current(iceberg)
        BY <1>0, <3>6, <4>1, <4>2 DEF QuietInv
      <4>. QED
        BY <4>3, <4>4
    <3>7. D5 \notin {W3, W2, W1, D7, V3, V1, V2, Done}
      BY Distinct
    <3>8. QuietInv'
      BY <1>0, <2>2, <3>6, <3>7, Heads DEF QuietInv
    <3>. QED
      BY <2>6, <2>7, <3>3, <3>5, <3>8 DEF ReadersInv
  <2>. QED
    BY <2>8, <2>9
<1>. QED
  BY <1>1, <1>2

LEMMA ScanGoldStep ==
  ASSUME PipelineOK, ReadersInv, Scan("gold"), UNCHANGED <<vars, seen, quiet>>
  PROVE  ReadersInv'
<1>0. /\ seen' = seen /\ quiet' = quiet /\ iceberg' = iceberg /\ result' = result
      /\ Catalog' = Catalog /\ (Idle' <=> Idle) /\ (Demo' <=> Demo) /\ todo # <<>> /\ ~raised
      /\ ReaderOK /\ SeenInv /\ PinInv /\ NeverStale /\ TravelInv
      /\ TimeTravelConsistent /\ QuietInv
      /\ todo \in {G1, D7} /\ Catalog.table = iceberg
  BY Turns, CatalogTable
  DEF ReadersInv, vars, goldVars, Catalog, Idle, Demo, Scan, Turn, ReaderOK
<1>1. pin \in seen /\ pin.table # NoTable /\ got.first = Unread
  BY <1>0 DEF PinInv, TravelInv
<1>2. kind = "dashboard" => todo = D7
  <2>1. G1 \notin Left["dashboard"]
    BY Distinct DEF Left
  <2>. QED
    BY <1>0, <2>1 DEF ReaderOK
<1>3. kind = "dashboard" /\ quiet /\ Idle => pin = Catalog
  BY <1>0, <1>2 DEF QuietInv
<1>4. CASE Raise
  <2>1. kind = "dashboard" /\ quiet /\ Idle => Demo
    <3>1. pin.gen # Catalog.gen \/ (kind = "dashboard" /\ Current(pin.table) = {})
      BY <1>0, <1>1, <1>4 DEF Scan, Usable, Got, Raise
    <3>. QED
      BY <1>0, <1>3, <3>1 DEF Demo
  <2>. QED
    BY <1>0, <1>4, <2>1, RaiseStep
<1>5. CASE ~Raise
  <2>1. /\ Got("gold", Current(pin.table)) /\ todo' = Tail(todo)
        /\ kind = "dashboard" => Current(pin.table) # {}
    BY <1>5 DEF Scan, Usable
  <2>2. /\ DOMAIN got' = Panels /\ got'.gold = Current(pin.table)
        /\ got'.snaps = got.snaps /\ got'.current = got.current
        /\ got'.first = got.first /\ got'.result = got.result
        /\ kind' = kind /\ pin' = pin /\ raised' = raised
    BY <1>0, <2>1, GotIs DEF ReaderOK, Panels
  <2>3. (todo = G1 /\ todo' = Done) \/ (todo = D7 /\ todo' = D6)
    BY <1>0, <2>1, Heads
  <2>4. todo' \notin {G1, D7, V3, V1, W1, D5, V4, V2}
    BY <2>3, Distinct
  <2>5. ReaderOK'
    BY <1>0, <2>1, <2>2, Rests DEF ReaderOK
  <2>6. SeenInv'
    BY <1>0, SeenKept
  <2>7. PinInv' /\ TravelInv'
    BY <1>1, <2>2, <2>4 DEF PinInv, TravelInv
  <2>8. NeverStale' /\ TimeTravelConsistent'
    BY <1>0, <1>1, <2>2 DEF NeverStale, TimeTravelConsistent
  <2>9. QuietInv'
    <3>1. ASSUME kind = "dashboard", quiet, Idle
          PROVE  /\ todo' = D6 /\ iceberg # NoTable
                 /\ Current(iceberg) # {} /\ got'.gold = Current(iceberg)
      <4>1. todo = D7 /\ D7 # G1
        BY <1>2, <3>1, Distinct
      <4>. QED
        BY <1>0, <1>1, <1>3, <2>1, <2>2, <2>3, <3>1, <4>1
    <3>2. D6 \notin {W3, W2, W1, D7, V3, V1, V2, Done}
      BY Distinct
    <3>. QED
      BY <1>0, <2>2, <3>1, <3>2 DEF QuietInv
  <2>. QED
    BY <2>5, <2>6, <2>7, <2>8, <2>9 DEF ReadersInv
<1>. QED
  BY <1>4, <1>5

LEMMA ScanCurrentStep ==
  ASSUME PipelineOK, ReadersInv, Scan("current"), UNCHANGED <<vars, seen, quiet>>
  PROVE  ReadersInv'
<1>0. /\ seen' = seen /\ quiet' = quiet /\ iceberg' = iceberg /\ result' = result
      /\ Catalog' = Catalog /\ (Idle' <=> Idle) /\ (Demo' <=> Demo) /\ todo # <<>> /\ ~raised
      /\ ReaderOK /\ SeenInv /\ PinInv /\ NeverStale /\ TravelInv
      /\ TimeTravelConsistent /\ QuietInv
      /\ todo \in {V3, W1} /\ Catalog.table = iceberg
  BY Turns, CatalogTable
  DEF ReadersInv, vars, goldVars, Catalog, Idle, Demo, Scan, Turn, ReaderOK
<1>1. pin \in seen /\ pin.table # NoTable /\ got.first = Unread
  BY <1>0 DEF PinInv, TravelInv
<1>2. kind = "dashboard" /\ quiet /\ Idle => todo = V3 /\ pin = Catalog
  BY <1>0 DEF QuietInv
<1>3. \/ Got("current", Current(pin.table)) /\ todo' = Tail(todo)
      \/ pin.gen # Catalog.gen /\ Raise
  BY DEF Scan
<1>4. CASE pin.gen # Catalog.gen /\ Raise
  BY <1>0, <1>2, <1>4, RaiseStep
<1>5. CASE Got("current", Current(pin.table)) /\ todo' = Tail(todo)
  <2>2. /\ DOMAIN got' = Panels /\ got'.current = Current(pin.table)
        /\ got'.snaps = got.snaps /\ got'.gold = got.gold
        /\ got'.first = got.first /\ got'.result = got.result
        /\ kind' = kind /\ pin' = pin /\ raised' = raised
    BY <1>0, <1>5, GotIs DEF ReaderOK, Panels
  <2>3. (todo = V3 /\ todo' = V2) \/ (todo = W1 /\ todo' = Done)
    BY <1>0, <1>5, Heads
  <2>4. todo' \notin {G1, D7, V3, V1, W1, D5, V4}
    BY <2>3, Distinct
  <2>5. ReaderOK'
    BY <1>0, <1>5, <2>2, Rests DEF ReaderOK
  <2>6. SeenInv'
    BY <1>0, SeenKept
  <2>7. PinInv' /\ TravelInv'
    <3>1. todo' = V2 =>
            /\ got.snaps \in seen /\ got.snaps.table \notin {NoTable, <<>>}
            /\ Below(got.snaps, pin)
      <4>1. V2 # Done
        BY Distinct
      <4>. QED
        BY <1>0, <2>3, <4>1 DEF TravelInv
    <3>. QED
      BY <1>0, <1>1, <2>2, <2>4, <3>1 DEF PinInv, TravelInv, Below
  <2>8. NeverStale' /\ TimeTravelConsistent'
    BY <1>0, <1>1, <2>2 DEF NeverStale, TimeTravelConsistent
  <2>9. QuietInv'
    <3>1. ASSUME kind = "dashboard", quiet, Idle
          PROVE  /\ todo' = V2 /\ iceberg # NoTable
                 /\ Current(iceberg) # {} /\ got.gold = Current(iceberg)
                 /\ got.snaps = Catalog /\ got.result = result /\ result # Torn
                 /\ got'.current = Current(iceberg)
      <4>1. V3 # W1 /\ V3 \notin {D8, D7, D6, D5}
        BY Distinct
      <4>2. todo = V3 /\ pin = Catalog
        BY <1>2, <3>1
      <4>3. todo' = V2
        BY <2>3, <4>1, <4>2
      <4>. QED
        BY <1>0, <2>2, <3>1, <4>1, <4>2, <4>3 DEF QuietInv
    <3>2. V2 \notin {W3, W2, W1, D7, V3, V1}
      BY Distinct
    <3>. QED
      BY <1>0, <2>2, <3>1, <3>2 DEF QuietInv
  <2>. QED
    BY <2>5, <2>6, <2>7, <2>8, <2>9 DEF ReadersInv
<1>. QED
  BY <1>3, <1>4, <1>5

\* The first snapshot of the pinned table, when it is the table whose ids were
\* listed, is that of the table whose rows were read in between.
LEMMA SameFirst ==
  ASSUME SeenInv, NEW ids \in seen, NEW p \in seen, NEW q \in seen,
         ids.table \notin {NoTable, <<>>}, p.table # NoTable, q.table # NoTable,
         Below(ids, p), Below(p, q), q.gen = ids.gen
  PROVE  /\ Current(p.table) # {}
         /\ Head(q.table) = OneMinute(Current(p.table))
<1>1. /\ ids.gen \in 1..run /\ p.gen \in 1..run /\ q.gen \in 1..run
      /\ WellHeaded(ids.table) /\ WellHeaded(p.table) /\ WellHeaded(q.table)
  BY DEF SeenInv, Behind
<1>2. ids.gen = p.gen /\ p.gen = q.gen
  BY <1>1 DEF Below
<1>3. Len(ids.table) <= Len(p.table) /\ Len(p.table) <= Len(q.table)
  BY <1>1, <1>2 DEF Below
<1>4. /\ ids.table \in Seq(SUBSET GoldRows) /\ p.table \in Seq(SUBSET GoldRows)
      /\ q.table \in Seq(SUBSET GoldRows)
  BY <1>1 DEF WellHeaded
<1>5. Len(ids.table) \in Nat \ {0} /\ Len(p.table) \in Nat /\ Len(q.table) \in Nat
  BY <1>4, EmptySeq, LenProperties
<1>6. 1 \in 1..Len(p.table) /\ p.table # <<>> /\ q.table # <<>>
  BY <1>3, <1>4, <1>5, EmptySeq
<1>7. q.table[1] = p.table[1]
  BY <1>1, <1>2, <1>6 DEF Below
<1>8. Head(q.table) = q.table[1] /\ Head(p.table) = p.table[1]
  BY <1>4, <1>6
<1>. QED
  BY <1>1, <1>6, <1>7, <1>8 DEF WellHeaded

LEMMA ScanFirstStep ==
  ASSUME PipelineOK, ReadersInv, ScanFirst, UNCHANGED <<vars, seen, quiet>>
  PROVE  ReadersInv'
<1>0. /\ seen' = seen /\ quiet' = quiet /\ iceberg' = iceberg /\ result' = result
      /\ Catalog' = Catalog /\ (Idle' <=> Idle) /\ (Demo' <=> Demo) /\ todo # <<>> /\ ~raised
      /\ ReaderOK /\ SeenInv /\ PinInv /\ NeverStale /\ TravelInv
      /\ TimeTravelConsistent /\ QuietInv
      /\ todo = V1
  BY Turns
  DEF ReadersInv, vars, goldVars, Catalog, Idle, Demo, ScanFirst, Turn, ReaderOK
<1>1. /\ pin \in seen /\ pin.table # NoTable /\ got.snaps \in seen
      /\ got.snaps.table \notin {NoTable, <<>>}
  BY <1>0 DEF PinInv, TravelInv
<1>2. V1 \notin {W3, W2, W1, D8, D7, D6, D5}
  BY Distinct
<1>3. kind = "dashboard" /\ quiet /\ Idle =>
        /\ pin = Catalog /\ got.snaps = Catalog
        /\ got.result = result /\ result # Torn /\ iceberg # NoTable
        /\ Current(iceberg) # {} /\ got.gold = Current(iceberg)
        /\ got.current = Current(iceberg)
  BY <1>0, <1>2 DEF QuietInv
<1>4. \/ /\ pin.gen = got.snaps.gen
         /\ Got("first", Head(pin.table)) /\ todo' = Tail(todo)
      \/ (pin.gen # got.snaps.gen \/ pin.gen # Catalog.gen) /\ Raise
  BY DEF ScanFirst, SnapshotFound
<1>5. CASE (pin.gen # got.snaps.gen \/ pin.gen # Catalog.gen) /\ Raise
  BY <1>0, <1>3, <1>5, RaiseStep
<1>6. CASE /\ pin.gen = got.snaps.gen
           /\ Got("first", Head(pin.table)) /\ todo' = Tail(todo)
  <2>1. todo' = Done
    BY <1>0, <1>6, Heads
  <2>2. /\ DOMAIN got' = Panels /\ got'.first = Head(pin.table)
        /\ got'.snaps = got.snaps /\ got'.gold = got.gold
        /\ got'.current = got.current /\ got'.result = got.result
        /\ kind' = kind /\ pin' = pin /\ raised' = raised
    BY <1>0, <1>6, GotIs DEF ReaderOK, Panels
  <2>3. Done \notin {G1, D7, V3, V1, W1, D5, V4, V2, W3, W2, D8, D6} /\ Done = <<>>
    BY Distinct, Heads
  <2>4. ReaderOK'
    BY <1>0, <1>6, <2>2, Rests DEF ReaderOK
  <2>5. SeenInv'
    BY <1>0, SeenKept
  <2>6. PinInv' /\ TravelInv'
    BY <2>1, <2>3 DEF PinInv, TravelInv
  <2>7. NeverStale'
    BY <1>0, <2>2 DEF NeverStale
  <2>8. TimeTravelConsistent'
    <3>1. PICK p \in seen : /\ p.table # NoTable /\ Below(got.snaps, p) /\ Below(p, pin)
                            /\ got.current = Current(p.table)
      BY <1>0 DEF TravelInv
    <3>2. got.current # {} /\ Head(pin.table) = OneMinute(got.current)
      BY <1>0, <1>1, <1>6, <3>1, SameFirst
    <3>. QED
      BY <2>2, <3>2 DEF TimeTravelConsistent
  <2>9. QuietInv'
    BY <1>0, <1>3, <2>1, <2>2, <2>3 DEF QuietInv
  <2>. QED
    BY <2>4, <2>5, <2>6, <2>7, <2>8, <2>9 DEF ReadersInv
<1>. QED
  BY <1>4, <1>5, <1>6

LEMMA ReadResultStep ==
  ASSUME PipelineOK, ReadersInv, ReadResult, UNCHANGED <<vars, seen, quiet>>
  PROVE  ReadersInv'
<1>0. /\ seen' = seen /\ quiet' = quiet /\ iceberg' = iceberg /\ result' = result
      /\ Catalog' = Catalog /\ (Idle' <=> Idle) /\ (Demo' <=> Demo) /\ todo # <<>> /\ ~raised
      /\ ReaderOK /\ SeenInv /\ PinInv /\ NeverStale /\ TravelInv
      /\ TimeTravelConsistent /\ QuietInv
      /\ todo \in {D5, W3}
  BY Turns
  DEF ReadersInv, vars, goldVars, Catalog, Idle, Demo, ReadResult, Turn, ReaderOK
<1>1. got.first = Unread
  BY <1>0 DEF TravelInv
<1>2. kind = "dashboard" /\ quiet /\ Idle =>
        /\ todo = D5 /\ got.snaps = Catalog /\ iceberg # NoTable
        /\ Current(iceberg) # {} /\ got.gold = Current(iceberg)
  <2>1. D5 \notin {D8, D7, D6}
    BY Distinct
  <2>. QED
    BY <1>0, <2>1 DEF QuietInv
<1>3. \/ Got("result", result) /\ todo' = Tail(todo) /\ result # Torn
      \/ (result = Torn \/ stage = "finish") /\ Raise
  BY DEF ReadResult
<1>4. CASE (result = Torn \/ stage = "finish") /\ Raise
  <2>1. Idle => Demo
    BY <1>4 DEF Idle, Demo
  <2>. QED
    BY <1>0, <1>4, <2>1, RaiseStep
<1>5. CASE Got("result", result) /\ todo' = Tail(todo) /\ result # Torn
  <2>1. (todo = D5 /\ todo' = V4) \/ (todo = W3 /\ todo' = W2)
    BY <1>0, <1>5, Heads
  <2>2. /\ DOMAIN got' = Panels /\ got'.result = result
        /\ got'.snaps = got.snaps /\ got'.gold = got.gold
        /\ got'.current = got.current /\ got'.first = got.first
        /\ kind' = kind /\ pin' = pin /\ raised' = raised
    BY <1>0, <1>5, GotIs DEF ReaderOK, Panels
  <2>3. todo' \notin {G1, D7, V3, V1, W1, D5, V2}
    BY <2>1, Distinct
  <2>4. ReaderOK'
    BY <1>0, <1>5, <2>2, Rests DEF ReaderOK
  <2>5. SeenInv'
    BY <1>0, SeenKept
  <2>6. PinInv' /\ TravelInv'
    <3>1. todo' = V4 => got.snaps \in seen /\ got.snaps.table \notin {NoTable, <<>>}
      <4>1. V4 # W2
        BY Distinct
      <4>. QED
        BY <1>0, <2>1, <4>1 DEF TravelInv
    <3>. QED
      BY <1>0, <1>1, <2>2, <2>3, <3>1 DEF PinInv, TravelInv
  <2>7. NeverStale' /\ TimeTravelConsistent'
    BY <1>0, <1>1, <2>2 DEF NeverStale, TimeTravelConsistent
  <2>8. QuietInv'
    <3>1. ASSUME kind = "dashboard", quiet, Idle
          PROVE  /\ todo' = V4 /\ iceberg # NoTable /\ Current(iceberg) # {}
                 /\ got'.gold = Current(iceberg) /\ got'.snaps = Catalog
                 /\ got'.result = result /\ result # Torn
      <4>1. D5 # W3
        BY Distinct
      <4>. QED
        BY <1>2, <1>5, <2>1, <2>2, <3>1, <4>1
    <3>2. V4 \notin {W3, W2, W1, D7, V3, V1, V2, Done}
      BY Distinct
    <3>. QED
      BY <1>0, <2>2, <3>1, <3>2 DEF QuietInv
  <2>. QED
    BY <2>4, <2>5, <2>6, <2>7, <2>8 DEF ReadersInv
<1>. QED
  BY <1>3, <1>4, <1>5

LEMMA BeginStep ==
  ASSUME PipelineOK, NEW k \in DOMAIN Reads, Begin(k), UNCHANGED vars
  PROVE  ReadersInv'
<1>0. /\ kind' = k /\ todo' = Reads[k] /\ got' = Nothing /\ raised' = FALSE
      /\ seen' = {Catalog} /\ Catalog' = Catalog /\ iceberg' = iceberg /\ run' = run
  BY DEF Begin, vars, goldVars, Catalog
<1>1. \/ k = "query" /\ todo' = G2
      \/ k = "time_travel" /\ todo' = V5
      \/ k = "dashboard" /\ todo' = D8
  BY <1>0 DEF Reads, G2, V5, D8
<1>2. /\ DOMAIN got' = Panels /\ got'.first = Unread
      /\ got'.gold = Unread /\ got'.current = Unread
  BY <1>0 DEF Nothing, Panels
<1>3. todo' \notin {G1, D7, V3, V1, W1, D5, V4, V2}
  BY <1>1, Distinct
<1>4. ReaderOK'
  BY <1>0, <1>1, <1>2 DEF ReaderOK, Left
<1>5. SeenInv'
  <2>1. Catalog.table = iceberg
    BY CatalogTable
  <2>2. iceberg # NoTable => Behind(Catalog) /\ WellHeaded(Catalog.table)
    BY <2>1 DEF PipelineOK, CatalogOK
  <2>3. \A c : Behind(c)' <=> Behind(c)
    BY <1>0 DEF Behind
  <2>. QED
    BY <1>0, <2>1, <2>2, <2>3 DEF SeenInv
<1>6. PinInv' /\ TravelInv'
  BY <1>2, <1>3 DEF PinInv, TravelInv
<1>7. NeverStale' /\ TimeTravelConsistent'
  BY <1>2 DEF NeverStale, TimeTravelConsistent
<1>8. QuietInv'
  <2>1. kind' = "dashboard" => todo' = D8
    BY <1>0, <1>1
  <2>2. D8 \notin {W3, W2, W1, D7, V3, V1, V2, Done}
    BY Distinct
  <2>. QED
    BY <1>0, <2>1, <2>2 DEF QuietInv
<1>. QED
  BY <1>4, <1>5, <1>6, <1>7, <1>8 DEF ReadersInv

LEMMA PipelineStepInv ==
  ASSUME Inv, Inv', CatalogOK', ReadersInv, PipelineStep
  PROVE  ReadersInv'
<1>0. /\ kind' = kind /\ todo' = todo /\ pin' = pin /\ got' = got /\ raised' = raised
      /\ quiet' = FALSE /\ [Next]_vars
      /\ seen' = IF todo = <<>> THEN seen ELSE seen \cup {Catalog'}
      /\ ReaderOK /\ SeenInv /\ PinInv /\ NeverStale /\ TravelInv
      /\ TimeTravelConsistent
  BY DEF PipelineStep, reader, ReadersInv
<1>1. ReaderOK' /\ TimeTravelConsistent'
  BY <1>0 DEF ReaderOK, TimeTravelConsistent
<1>2. /\ seen \subseteq seen'
      /\ todo' # <<>> => Catalog' \in seen'
  BY <1>0
<1>3. ASSUME NEW c \in seen', c.table # NoTable
      PROVE  Behind(c)' /\ WellHeaded(c.table)
  <2>1. CASE c \in seen
    <3>1. Behind(c) /\ WellHeaded(c.table)
      BY <1>0, <1>3, <2>1 DEF SeenInv
    <3>. QED
      BY <1>0, <3>1, BehindStep
  <2>2. CASE c = Catalog'
    <3>1. Catalog'.table = iceberg'
      BY DEF Catalog
    <3>. QED
      BY <1>3, <2>2, <3>1 DEF CatalogOK
  <2>. QED
    BY <1>0, <2>1, <2>2
<1>4. SeenInv'
  BY <1>2, <1>3 DEF SeenInv
<1>5. PinInv' /\ NeverStale' /\ TravelInv'
  BY <1>0, <1>2 DEF PinInv, NeverStale, TravelInv, Below
<1>6. QuietInv'
  BY <1>0 DEF QuietInv
<1>. QED
  BY <1>1, <1>4, <1>5, <1>6 DEF ReadersInv

LEMMA ReadersStepInv ==
  ASSUME PipelineOK, PipelineOK', ReadersInv, [ReadersNext]_<<vars, readerVars>>
  PROVE  ReadersInv'
<1>1. CASE (\E k \in DOMAIN Reads : Begin(k)) /\ UNCHANGED vars
  BY <1>1, BeginStep
<1>2. CASE ReaderStep /\ UNCHANGED vars
  <2>1. UNCHANGED <<vars, seen, quiet>>
    BY <1>2 DEF ReaderStep
  <2>2. CASE Load
    BY <2>1, <2>2, LoadStep
  <2>3. CASE ListSnapshots
    BY <2>1, <2>3, ListSnapshotsStep
  <2>4. CASE ScanFirst
    BY <2>1, <2>4, ScanFirstStep
  <2>5. CASE ReadResult
    BY <2>1, <2>5, ReadResultStep
  <2>6. CASE Scan("gold")
    BY <2>1, <2>6, ScanGoldStep
  <2>7. CASE Scan("current")
    BY <2>1, <2>7, ScanCurrentStep
  <2>. QED
    BY <1>2, <2>2, <2>3, <2>4, <2>5, <2>6, <2>7 DEF ReaderStep
<1>3. CASE PipelineStep
  BY <1>3, PipelineStepInv DEF PipelineOK
<1>4. CASE UNCHANGED <<vars, readerVars>>
  <2>1. /\ vars' = vars /\ kind' = kind /\ todo' = todo /\ pin' = pin /\ got' = got
        /\ raised' = raised /\ seen' = seen /\ quiet' = quiet
    BY <1>4 DEF readerVars, reader
  <2>2. /\ iceberg' = iceberg /\ run' = run /\ Catalog' = Catalog /\ result' = result
        /\ (Idle' <=> Idle) /\ (Demo' <=> Demo)
    BY <2>1 DEF vars, goldVars, Catalog, Idle, Demo
  <2>3. \A c : Behind(c)' <=> Behind(c)
    BY <2>2 DEF Behind
  <2>4. ReaderOK' /\ PinInv' /\ NeverStale' /\ TravelInv' /\ TimeTravelConsistent'
    BY <2>1 DEF ReadersInv, ReaderOK, PinInv, NeverStale, TravelInv, TimeTravelConsistent,
             Below
  <2>5. SeenInv'
    BY <2>1, <2>2, <2>3 DEF ReadersInv, SeenInv
  <2>6. QuietInv'
    BY <2>1, <2>2 DEF ReadersInv, QuietInv
  <2>. QED
    BY <2>4, <2>5, <2>6 DEF ReadersInv
<1>. QED
  BY <1>1, <1>2, <1>3, <1>4 DEF ReadersNext

-----------------------------------------------------------------------------
(* The theorems.                                                           *)

\* Readers do not disturb the pipeline: beside them it behaves as it does alone,
\* so what is proved of LakePipeline holds here (readers take no lock and write
\* nothing, duck.py, dashboard.py).
THEOREM ReadersOnlyRead == ReadersSpec => Spec
<1>1. ReadersInit => Init
  BY DEF ReadersInit
<1>2. [ReadersNext]_<<vars, readerVars>> => [Next]_vars
  BY DEF ReadersNext, PipelineStep
<1>. QED
  BY <1>1, <1>2, PTL DEF ReadersSpec, Spec

LEMMA PipelineIsOK == ReadersSpec => []PipelineOK
<1>1. Inv /\ HeadInv /\ BuildInv /\ GoldFollowsBronze => PipelineOK
  BY CatalogIsOK DEF PipelineOK
<1>. QED
  BY <1>1, ReadersOnlyRead, PipelineInv, PipelineBuilds, GoldIsBronzes, PTL

\* The invariant of the readers: the tables a reader may have pinned are behind the
\* one the catalog has now, in the order of the versioned table.
THEOREM ReadersInvariant == ReadersSpec => []ReadersInv
<1>1. ReadersInit => ReadersInv
  <2>1. SUFFICES ASSUME ReadersInit PROVE ReadersInv
    OBVIOUS
  <2>2. /\ kind = "query" /\ todo = Done /\ pin = Unread /\ got = Nothing
        /\ raised = FALSE /\ seen = {} /\ quiet = FALSE
    BY <2>1, Heads DEF ReadersInit
  <2>3. ReaderOK
    BY <2>2 DEF ReaderOK, Left, Reads, Nothing, Panels
  <2>4. Done = <<>> /\ Done \notin {G1, D7, V3, V1, W1, D5, V4, V2}
    BY Distinct, Heads
  <2>5. SeenInv /\ PinInv /\ TravelInv /\ QuietInv
    BY <2>2, <2>4 DEF SeenInv, PinInv, TravelInv, QuietInv
  <2>6. NeverStale /\ TimeTravelConsistent
    BY <2>2 DEF NeverStale, TimeTravelConsistent, Nothing
  <2>. QED
    BY <2>3, <2>5, <2>6 DEF ReadersInv
<1>2. PipelineOK /\ PipelineOK' /\ ReadersInv /\ [ReadersNext]_<<vars, readerVars>>
        => ReadersInv'
  BY ReadersStepInv
<1>. QED
  BY <1>1, <1>2, PipelineIsOK, PTL DEF ReadersSpec

\* A scan of the gold table returns the rows of a table the catalog has had since
\* the reader began, as a whole (duck.py:54, iceberg.py:54-56).
THEOREM ScansAreNeverStale == ReadersSpec => []NeverStale
BY ReadersInvariant, PTL DEF ReadersInv

\* The two reads of time travel agree, or the second raises, although the table
\* may be rebuilt between them (duck.py:80-93, dashboard.py:47-56).
THEOREM TimeTravelAgrees == ReadersSpec => []TimeTravelConsistent
BY ReadersInvariant, PTL DEF ReadersInv

-----------------------------------------------------------------------------
(* The summary.                                                            *)

\* A summary that is not cut short is of the last run that completed.
ResultInv == result # Torn => result.run = completed

LEMMA ResultAlways == Spec => []ResultInv
<1>1. Init => ResultInv
  BY DEF Init, ResultInv, NoResult
<1>2. ResultInv /\ [Next]_vars => ResultInv'
  <2> SUFFICES ASSUME ResultInv, [Next]_vars PROVE ResultInv'
    OBVIOUS
  <2>1. CASE Finish
    BY <2>1 DEF Finish, ResultInv, Summary
  <2>2. CASE Fail
    BY <2>2 DEF Fail, ResultInv
  <2>3. CASE result' = result /\ completed' = completed
    BY <2>3 DEF ResultInv
  <2>. QED
    BY <2>1, <2>2, <2>3
    DEF Next, Steps, vars, StartRun, Deliver, DeliverFails, ReplayReturns, Drain, Clear,
        Write, RunProcessor, RunDbt, DropTable, Purge, CreateTable, AppendFirst, AppendRest
<1>. QED
  BY <1>1, <1>2, PTL DEF Spec

\* A dashboard that is loaded beside no run is the demo exactly when there is no
\* table, no gold or a torn summary.  Otherwise all its panels are of the table
\* there is and of the last run that completed, with the counts of that run when
\* none has failed since (dashboard.py:38-75).
THEOREM DashboardAgrees == ReadersSpec => []PanelsAgree
<1>1. PipelineOK /\ ReadersInv /\ ResultInv => PanelsAgree
  <2> SUFFICES ASSUME PipelineOK, ReadersInv, ResultInv, kind = "dashboard",
                      todo = <<>>, quiet, stage = "idle"
               PROVE  IF Demo THEN raised
                      ELSE /\ ~raised
                           /\ got.gold = Current(iceberg) /\ got.current = got.gold
                           /\ got.snaps = Catalog /\ got.result.run = completed
                           /\ completed = run =>
                                /\ got.result.gold = Cardinality(got.gold)
                                /\ got.result.snapshots = Len(got.snaps.table)
    BY DEF PanelsAgree, Demo
  <2>1. Idle /\ QuietInv
    BY DEF Idle, ReadersInv
  <2>2. Done = <<>> /\ Done \notin {D8, D7, D6, D5}
    BY Distinct, Heads
  <2>3. IF raised THEN Demo
        ELSE /\ ~Demo /\ got.gold = Current(iceberg)
             /\ got.current = Current(iceberg)
             /\ got.snaps = Catalog /\ got.result = result
    BY <2>1, <2>2 DEF QuietInv, Demo
  <2>4. ASSUME ~Demo, completed = run
        PROVE  /\ result.gold = Cardinality(Current(iceberg))
               /\ result.snapshots = Len(Catalog.table)
    <3>1. run > 0
      <4>1. run \in Nat /\ dataFiles \subseteq 1..run /\ dataFiles # {}
        BY <2>4, ConstantsAssumption DEF Demo, PipelineOK, Inv, TypeOK, TableInv
      <4>2. PICK g \in dataFiles : g \in 1..run
        BY <4>1
      <4>. QED
        BY <4>1, <4>2
    <3>2. Completed
      BY <2>4, <3>1 DEF Completed
    <3>3. Built /\ result = Summary
      BY <3>2 DEF PipelineOK, BuildInv
    <3>4. Current(iceberg) = Gold(lake["bronze"]) /\ warehouse = Gold(lake["bronze"])
      BY <3>2, <3>3 DEF Built, PipelineOK, GoldFollowsBronze, Completed
    <3>5. OneMinute(warehouse) # {} /\ warehouse \ OneMinute(warehouse) # {}
      BY <2>4, <3>4, GoldLabels DEF Demo
    <3>. QED
      BY <3>3, <3>4, <3>5, CatalogTable DEF Built, Summary
  <2>5. ~Demo => result.run = completed
    BY DEF Demo, ResultInv
  <2>. QED
    BY <2>3, <2>4, <2>5
<1>. QED
  BY <1>1, PipelineIsOK, ReadersInvariant, ReadersOnlyRead, ResultAlways, PTL
=============================================================================
