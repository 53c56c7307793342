------------------------- MODULE LakePipelineProofs -------------------------
(***************************************************************************)
(* Proofs about LakePipeline, for all fixtures and any number of runs, each*)
(* of which may fail anywhere.                                             *)
(***************************************************************************)
EXTENDS LakePipeline, SequenceTheorems, FiniteSetTheorems, WellFoundedInduction, TLAPS

-----------------------------------------------------------------------------
(* The inductive invariant.                                                *)

Started == stage # "idle" => run >= 1

\* A sink holds rows only between its drain and its write, all of this run, and
\* its directory is empty when it writes.
SinkInv ==
  /\ \A r \in rows : r.run = run
  /\ stage \notin Range(ClearOf) \cup Range(WriteOf) => rows = {}
  /\ \A d \in Dirs : stage = WriteOf[d] => lake[d] = {}

OneRunPerDirectory == \A d \in Dirs : \A r, s \in lake[d] : r.run = s.run

OneRunInGold == \A g, h \in warehouse : \A r \in g.from, s \in h.from : r.run = s.run

Appending == {"append_first", "append_rest", "finish"}

\* A table has files in its directory, beside which those of older runs may lie.
\* Until materialize_gold has dropped it this run has none there, from its
\* creation on it has.
TableInv ==
  /\ iceberg # NoTable => dataFiles # {}
  /\ iceberg # NoTable /\ stage \notin Appending \cup {"idle"} => run \notin dataFiles
  /\ stage \in {"purge", "create"} => iceberg = NoTable
  /\ stage \in Appending => iceberg # NoTable /\ run \in dataFiles
  /\ stage = "append_first" => iceberg = <<>>
  /\ stage = "append_rest" => Len(iceberg) <= 1

\* The snapshots are of one run, while it appends them of the mart it has built.
SnapshotInv ==
  /\ \A g, h \in TableRows : \A r \in g.from, s \in h.from : r.run = s.run
  /\ stage \in Appending => TableRows \subseteq warehouse

Inv ==
  /\ TypeOK /\ Started
  /\ SinkInv /\ OneRunPerDirectory /\ OneRunInGold
  /\ TableInv /\ SnapshotInv

-----------------------------------------------------------------------------
(* The operators.                                                          *)

\* The stages of the sinks, by name.
LEMMA SinkStages ==
  /\ DrainOf["quarantine"] = "drain_quarantine"
  /\ DrainOf["bronze"] = "drain_bronze" /\ DrainOf["windows"] = "drain_windows"
  /\ ClearOf["quarantine"] = "clear_quarantine"
  /\ ClearOf["bronze"] = "clear_bronze" /\ ClearOf["windows"] = "clear_windows"
  /\ WriteOf["quarantine"] = "write_quarantine"
  /\ WriteOf["bronze"] = "write_bronze" /\ WriteOf["windows"] = "write_windows"
  /\ AfterOf["quarantine"] = "drain_bronze"
  /\ AfterOf["bronze"] = "process" /\ AfterOf["windows"] = "dbt"
  /\ Range(DrainOf) = {"drain_quarantine", "drain_bronze", "drain_windows"}
  /\ Range(ClearOf) = {"clear_quarantine", "clear_bronze", "clear_windows"}
  /\ Range(WriteOf) = {"write_quarantine", "write_bronze", "write_windows"}
BY DEF DrainOf, ClearOf, WriteOf, AfterOf, Range

\* A drained prefix has events of its topic only.
LEMMA PrefixEvents ==
  ASSUME NEW s \in Seq(Events), NEW p \in Prefixes(s)
  PROVE  ToSet(p) \subseteq Events
<1>1. PICK l \in 0..Len(s) : p = SubSeq(s, 1, l)
  BY DEF Prefixes
<1>2. p \in Seq(Events)
  BY <1>1, SubSeqProperties
<1>. QED
  BY <1>2 DEF ToSet

LEMMA TagRuns == ASSUME NEW es PROVE \A r \in Tag(es) : r.run = run
BY DEF Tag

LEMMA TagStored ==
  ASSUME NEW es, es \subseteq Events, run \in Nat
  PROVE  Tag(es) \subseteq Stored
BY DEF Tag, Stored

\* The members of gold rows are rows of bronze.
LEMMA GoldFrom == ASSUME NEW b PROVE \A g \in Gold(b) : g.from \subseteq b
BY DEF Gold

LEMMA GoldType ==
  ASSUME NEW b, b \subseteq Stored
  PROVE  Gold(b) \subseteq GoldRows
<1>1. \A r \in b : r.ev.win \in Nat
  BY DEF Stored, Events
<1>2. \A n \in Nat : n \div 1 \in Nat /\ n \div Ratio \in Nat
  BY ConstantsAssumption, SMT
<1>. QED
  BY <1>1, <1>2 DEF Gold, GoldRows

LEMMA CurrentType ==
  ASSUME NEW table \in Seq(SUBSET GoldRows)
  PROVE  Current(table) \subseteq GoldRows
BY DEF Current, Last

\* An append keeps the rows there are, in a table of the same kind.
LEMMA AppendTable ==
  ASSUME NEW table \in Seq(SUBSET GoldRows), NEW new \in SUBSET GoldRows
  PROVE  LET longer == Append(table, Current(table) \cup new)
         IN /\ longer \in Seq(SUBSET GoldRows) /\ longer # NoTable
            /\ Len(longer) = Len(table) + 1
            /\ Current(longer) = Current(table) \cup new
<1> DEFINE longer == Append(table, Current(table) \cup new)
<1>1. Current(table) \cup new \in SUBSET GoldRows
  BY CurrentType
<1>2. /\ longer \in Seq(SUBSET GoldRows) /\ Len(longer) = Len(table) + 1
      /\ longer[Len(longer)] = Current(table) \cup new
  BY <1>1, AppendProperties
<1>3. longer # NoTable
  BY <1>2, ConstantsAssumption
<1>4. longer # <<>>
  BY <1>2, EmptySeq
<1>. QED
  BY <1>2, <1>3, <1>4 DEF Current, Last

-----------------------------------------------------------------------------
(* The table invariant, from step to step.                                 *)

\* What TableInv is about stays put.
LEMMA TableInvKept ==
  ASSUME TypeOK, Started, TableInv,
         run' = run, iceberg' = iceberg, dataFiles' = dataFiles,
         stage' # stage => stage' \notin {"purge", "create"} \cup Appending,
         iceberg # NoTable /\ stage' \notin Appending \cup {"idle"}
           => stage \notin Appending \cup {"idle"}
  PROVE  TableInv'
BY DEF TableInv, Appending

LEMMA TableInvStart ==
  ASSUME TypeOK, TableInv, StartRun
  PROVE  TableInv'
<1>1. run \in Nat /\ run' = run + 1 /\ stage' = "replay"
  BY ConstantsAssumption DEF StartRun, TypeOK
<1>2. iceberg' = iceberg /\ dataFiles' = dataFiles
  BY DEF StartRun, goldVars
<1>3. ASSUME iceberg # NoTable
      PROVE  dataFiles # {} /\ run' \notin dataFiles
  <2>1. dataFiles # {} /\ dataFiles \subseteq 1..run
    BY <1>3 DEF TableInv, TypeOK
  <2>. QED
    BY <1>1, <2>1
<1>. QED
  BY <1>1, <1>2, <1>3 DEF TableInv, Appending

\* The five steps of materialize_gold.
LEMMA TableInvBuild ==
  ASSUME TypeOK, Started, TableInv,
         DropTable \/ Purge \/ CreateTable \/ AppendFirst \/ AppendRest
  PROVE  TableInv' /\ (iceberg' # NoTable => iceberg' \in Seq(SUBSET GoldRows))
                   /\ (iceberg' # NoTable => Len(iceberg') <= 2)
                   /\ dataFiles' \subseteq 1..run
<1>0. /\ run \in Nat /\ run' = run
      /\ dataFiles \subseteq 1..run
      /\ warehouse \subseteq GoldRows
      /\ iceberg # NoTable => iceberg \in Seq(SUBSET GoldRows)
  BY ConstantsAssumption DEF TypeOK, DropTable, Purge, CreateTable, AppendFirst, AppendRest
<1>1. CASE DropTable
  BY <1>0, <1>1 DEF DropTable, TableInv, Appending
<1>2. CASE Purge
  BY <1>0, <1>2 DEF Purge, TableInv, Appending
<1>3. CASE CreateTable
  <2>1. /\ iceberg' = <<>> /\ stage' = "append_first"
        /\ dataFiles' = dataFiles \cup {run}
    BY <1>3 DEF CreateTable, TableInv
  <2>2. <<>> \in Seq(SUBSET GoldRows) /\ <<>> # NoTable /\ Len(<<>>) = 0
    BY ConstantsAssumption, EmptySeq
  <2>3. run \in 1..run
    BY <1>0, <1>3 DEF Started, CreateTable
  <2>. QED
    BY <1>0, <2>1, <2>2, <2>3 DEF TableInv, Appending
<1>4. ASSUME NEW new \in SUBSET GoldRows, AppendRows(new), stage \in Appending
      PROVE  /\ iceberg' \in Seq(SUBSET GoldRows) /\ iceberg' # NoTable
             /\ Len(iceberg') <= Len(iceberg) + 1
             /\ dataFiles' = dataFiles /\ run \in dataFiles
  <2>0. iceberg \in Seq(SUBSET GoldRows) /\ iceberg # NoTable /\ run \in dataFiles
    BY <1>0, <1>4 DEF TableInv
  <2>1. CASE new = {}
    BY <1>4, <2>0, <2>1, LenProperties DEF AppendRows
  <2>2. CASE new # {}
    <3>1. iceberg' = Append(iceberg, Current(iceberg) \cup new)
      BY <1>4, <2>2 DEF AppendRows
    <3>2. /\ iceberg' \in Seq(SUBSET GoldRows) /\ iceberg' # NoTable
          /\ Len(iceberg') = Len(iceberg) + 1
      BY <2>0, <3>1, AppendTable
    <3>3. Len(iceberg) \in Nat
      BY <2>0, LenProperties
    <3>4. dataFiles' = dataFiles
      BY <1>4, <2>0, <2>2 DEF AppendRows
    <3>. QED
      BY <2>0, <3>2, <3>3, <3>4
  <2>. QED
    BY <2>1, <2>2
<1>5. CASE AppendFirst
  <2>1. OneMinute(warehouse) \in SUBSET GoldRows
    BY <1>0 DEF OneMinute
  <2>2. stage = "append_first" /\ stage' = "append_rest" /\ iceberg = <<>>
    BY <1>5 DEF AppendFirst, TableInv
  <2>3. /\ iceberg' \in Seq(SUBSET GoldRows) /\ iceberg' # NoTable
        /\ Len(iceberg') <= Len(iceberg) + 1
        /\ dataFiles' = dataFiles /\ run \in dataFiles
    BY <1>4, <1>5, <2>1, <2>2 DEF AppendFirst, Appending
  <2>4. Len(iceberg') <= 1
    BY <2>2, <2>3
  <2>5. run \in 1..run
    BY <1>0, <2>2 DEF Started
  <2>6. Len(iceberg') \in Nat
    BY <2>3, LenProperties
  <2>. QED
    BY <1>0, <2>2, <2>3, <2>4, <2>5, <2>6 DEF TableInv, Appending
<1>6. CASE AppendRest
  <2>1. warehouse \ OneMinute(warehouse) \in SUBSET GoldRows
    BY <1>0
  <2>2. stage = "append_rest" /\ stage' = "finish" /\ Len(iceberg) <= 1
    BY <1>6 DEF AppendRest, TableInv
  <2>3. /\ iceberg' \in Seq(SUBSET GoldRows) /\ iceberg' # NoTable
        /\ Len(iceberg') <= Len(iceberg) + 1
        /\ dataFiles' = dataFiles /\ run \in dataFiles
    BY <1>4, <1>6, <2>1, <2>2 DEF AppendRest, Appending
  <2>4. Len(iceberg') \in Nat /\ Len(iceberg) \in Nat
    <3>1. iceberg \in Seq(SUBSET GoldRows)
      BY <1>0, <2>2 DEF TableInv, Appending
    <3>. QED
      BY <2>3, <3>1, LenProperties
  <2>5. Len(iceberg') <= 2
    BY <2>2, <2>3, <2>4
  <2>6. run \in 1..run
    BY <1>0, <2>2 DEF Started
  <2>. QED
    BY <1>0, <2>2, <2>3, <2>5, <2>6 DEF TableInv, Appending
<1>. QED
  BY <1>1, <1>2, <1>3, <1>5, <1>6

\* A failure leaves the catalog alone, and at most files of the run that fails.
LEMMA TableInvFail ==
  ASSUME TypeOK, Started, TableInv, Fail
  PROVE  TableInv' /\ dataFiles' \subseteq 1..run
<1>1. run' = run /\ iceberg' = iceberg /\ stage' = "idle" /\ run \in 1..run
      /\ dataFiles \subseteq 1..run
  BY ConstantsAssumption DEF Fail, TypeOK, Started
<1>2. CASE stage = "purge"
  <2>1. iceberg = NoTable /\ dataFiles' \subseteq dataFiles
    BY <1>2 DEF Fail, TableInv
  <2>. QED
    BY <1>1, <2>1 DEF TableInv, Appending
<1>3. CASE stage # "purge"
  <2>1. iceberg # NoTable => dataFiles' = dataFiles
    BY <1>3 DEF Fail, TableInv, Appending
  <2>2. dataFiles' \subseteq dataFiles \cup {run}
    BY <1>3 DEF Fail
  <2>. QED
    BY <1>1, <2>1, <2>2 DEF TableInv, Appending
<1>. QED
  BY <1>2, <1>3

LEMMA TableInvStep ==
  ASSUME TypeOK, Started, TableInv, [Next]_vars
  PROVE  TableInv'
<1> USE SinkStages
<1>1. CASE StartRun
  BY <1>1, TableInvStart
<1>2. CASE Deliver \/ DeliverFails
  BY <1>2, TableInvKept DEF Deliver, DeliverFails, goldVars
<1>3. CASE ReplayReturns
  BY <1>3, TableInvKept DEF ReplayReturns, goldVars, Appending
<1>4. ASSUME NEW d \in Dirs, Drain(d) \/ Clear(d) \/ Write(d)
      PROVE  TableInv'
  <2>1. stage \notin Appending \cup {"idle"}
    BY <1>4 DEF Drain, Clear, Write, Dirs, Appending
  <2>2. stage' \notin {"purge", "create"} \cup Appending
    BY <1>4 DEF Drain, Clear, Write, Dirs, Appending
  <2>. QED
    BY <1>4, <2>1, <2>2, TableInvKept DEF Drain, Clear, Write, goldVars
<1>5. CASE RunProcessor
  BY <1>5, TableInvKept DEF RunProcessor, goldVars, Appending
<1>6. CASE RunDbt
  BY <1>6, TableInvKept DEF RunDbt, Appending
<1>7. CASE DropTable \/ Purge \/ CreateTable \/ AppendFirst \/ AppendRest
  BY <1>7, TableInvBuild
<1>8. CASE Finish
  BY <1>8, TableInvKept DEF Finish, goldVars, Appending
<1>9. CASE Fail
  BY <1>9, TableInvFail
<1>10. CASE UNCHANGED vars
  BY <1>10, TableInvKept DEF vars, goldVars
<1>. QED
  BY <1>1, <1>2, <1>3, <1>4, <1>5, <1>6, <1>7, <1>8, <1>9, <1>10 DEF Next, Steps

-----------------------------------------------------------------------------
(* The directories, from step to step.                                     *)

\* Steps that touch neither what a sink holds nor its directory.
LEMMA SinkInvKept ==
  ASSUME SinkInv, OneRunPerDirectory, rows' = rows, lake' = lake,
         run' = run \/ rows = {},
         stage' # stage => stage' \notin Range(ClearOf) \cup Range(WriteOf) /\ rows = {}
  PROVE  SinkInv' /\ OneRunPerDirectory'
<1>1. \A d \in Dirs : WriteOf[d] \in Range(WriteOf)
  BY SinkStages DEF Dirs
<1>. QED
  BY <1>1 DEF SinkInv, OneRunPerDirectory

\* A drain tags what it read.
LEMMA SinkInvDrain ==
  ASSUME SinkInv, OneRunPerDirectory, NEW d \in Dirs, Drain(d)
  PROVE  SinkInv' /\ OneRunPerDirectory'
<1>1. run' = run /\ lake' = lake
  BY DEF Drain
<1>2. \A r \in rows' : r.run = run
  BY TagRuns DEF Drain
<1>3. /\ stage' \notin Range(WriteOf)
      /\ stage' \notin Range(ClearOf) => rows' = {}
  BY SinkStages DEF Drain, Dirs
<1>4. \A c \in Dirs : WriteOf[c] \in Range(WriteOf)
  BY SinkStages DEF Dirs
<1>. QED
  BY <1>1, <1>2, <1>3, <1>4 DEF SinkInv, OneRunPerDirectory

LEMMA SinkInvClear ==
  ASSUME TypeOK, SinkInv, OneRunPerDirectory, NEW d \in Dirs, Clear(d)
  PROVE  SinkInv' /\ OneRunPerDirectory'
<1>1. run' = run /\ rows' = rows /\ stage' = WriteOf[d]
  BY DEF Clear
<1>2. lake'[d] = {} /\ \A c \in Dirs : lake'[c] \subseteq lake[c]
  BY DEF Clear, TypeOK
<1>3. \A c \in Dirs : WriteOf[c] = WriteOf[d] => c = d
  BY SinkStages DEF Dirs
<1>4. WriteOf[d] \in Range(WriteOf)
  BY SinkStages DEF Dirs
<1>. QED
  BY <1>1, <1>2, <1>3, <1>4 DEF SinkInv, OneRunPerDirectory

\* A write finds its directory empty.
LEMMA SinkInvWrite ==
  ASSUME TypeOK, SinkInv, OneRunPerDirectory, NEW d \in Dirs, Write(d)
  PROVE  SinkInv' /\ OneRunPerDirectory'
<1>1. run' = run /\ rows' = {}
  BY DEF Write
<1>2. lake'[d] = rows /\ \A c \in Dirs \ {d} : lake'[c] = lake[c]
  <2>1. lake[d] = {}
    BY DEF Write, SinkInv
  <2>2. lake' = [lake EXCEPT ![d] = lake[d] \cup rows] /\ DOMAIN lake = Dirs
    BY DEF Write, TypeOK
  <2>. QED
    BY <2>1, <2>2
<1>3. stage' \notin Range(ClearOf) \cup Range(WriteOf)
  BY SinkStages DEF Write, Dirs
<1>4. \A c \in Dirs : WriteOf[c] \in Range(WriteOf)
  BY SinkStages DEF Dirs
<1>. QED
  BY <1>1, <1>2, <1>3, <1>4 DEF SinkInv, OneRunPerDirectory

\* A clear that is cut short leaves old rows, a write new ones.
LEMMA SinkInvFail ==
  ASSUME TypeOK, SinkInv, OneRunPerDirectory, Fail
  PROVE  SinkInv' /\ OneRunPerDirectory'
<1>1. rows' = {} /\ stage' = "idle"
  BY DEF Fail
<1>2. \A d \in Dirs : lake'[d] \in LeftBehind(d)
  BY DEF Fail, Dirs
<1>3. ASSUME NEW d \in Dirs, NEW left \in LeftBehind(d), NEW r \in left, NEW s \in left
      PROVE  r.run = s.run
  <2>1. CASE stage = WriteOf[d]
    <3>1. lake[d] = {}
      BY <2>1 DEF SinkInv
    <3>2. left \subseteq rows
      BY <1>3, <2>1, <3>1, SinkStages DEF LeftBehind, Dirs
    <3>. QED
      BY <1>3, <3>2 DEF SinkInv
  <2>2. CASE stage # WriteOf[d]
    <3>1. left \subseteq lake[d]
      BY <1>3, <2>2 DEF LeftBehind
    <3>. QED
      BY <1>3, <3>1 DEF OneRunPerDirectory
  <2>. QED
    BY <2>1, <2>2
<1>4. "idle" \notin Range(ClearOf) \cup Range(WriteOf)
  BY SinkStages
<1>5. \A d \in Dirs : WriteOf[d] \in Range(WriteOf)
  BY SinkStages DEF Dirs
<1>. QED
  BY <1>1, <1>2, <1>3, <1>4, <1>5 DEF SinkInv, OneRunPerDirectory

LEMMA SinkInvStep ==
  ASSUME TypeOK, SinkInv, OneRunPerDirectory, [Next]_vars
  PROVE  SinkInv' /\ OneRunPerDirectory'
<1>0. \A name \in {"idle", "replay", "process", "dbt", "drop", "purge", "create",
                   "append_first", "append_rest", "finish"} :
        name \notin Range(ClearOf) \cup Range(WriteOf)
  BY SinkStages
<1>1. CASE StartRun
  <2>1. rows = {}
    BY <1>0, <1>1 DEF StartRun, SinkInv
  <2>. QED
    BY <1>0, <1>1, <2>1, SinkInvKept DEF StartRun
<1>2. CASE Deliver \/ DeliverFails
  BY <1>2, SinkInvKept DEF Deliver, DeliverFails
<1>3. CASE ReplayReturns
  <2>1. rows = {}
    BY <1>0, <1>3 DEF ReplayReturns, SinkInv
  <2>2. stage' \notin Range(ClearOf) \cup Range(WriteOf)
    BY <1>3, SinkStages DEF ReplayReturns
  <2>. QED
    BY <1>3, <2>1, <2>2, SinkInvKept DEF ReplayReturns
<1>4. ASSUME NEW d \in Dirs, Drain(d) \/ Clear(d) \/ Write(d)
      PROVE  SinkInv' /\ OneRunPerDirectory'
  BY <1>4, SinkInvDrain, SinkInvClear, SinkInvWrite
<1>5. CASE RunProcessor
  <2>1. rows = {}
    BY <1>0, <1>5 DEF RunProcessor, SinkInv
  <2>2. stage' \notin Range(ClearOf) \cup Range(WriteOf)
    BY <1>5, SinkStages DEF RunProcessor
  <2>. QED
    BY <1>5, <2>1, <2>2, SinkInvKept DEF RunProcessor
<1>6. CASE RunDbt \/ DropTable \/ Purge \/ CreateTable \/ AppendFirst \/ AppendRest \/ Finish
  <2>1. rows = {}
    BY <1>0, <1>6
    DEF RunDbt, DropTable, Purge, CreateTable, AppendFirst, AppendRest, Finish, SinkInv
  <2>2. stage' \notin Range(ClearOf) \cup Range(WriteOf)
    BY <1>0, <1>6
    DEF RunDbt, DropTable, Purge, CreateTable, AppendFirst, AppendRest, Finish
  <2>3. rows' = rows /\ lake' = lake /\ run' = run
    BY <1>6 DEF RunDbt, DropTable, Purge, CreateTable, AppendFirst, AppendRest, Finish
  <2>. QED
    BY <2>1, <2>2, <2>3, SinkInvKept
<1>7. CASE Fail
  BY <1>7, SinkInvFail
<1>8. CASE UNCHANGED vars
  BY <1>8, SinkInvKept DEF vars
<1>. QED
  BY <1>1, <1>2, <1>3, <1>4, <1>5, <1>6, <1>7, <1>8 DEF Next, Steps

\* Gold is built from one directory.
LEMMA OneRunInGoldStep ==
  ASSUME OneRunPerDirectory, OneRunInGold, [Next]_vars
  PROVE  OneRunInGold'
<1>1. CASE warehouse' = warehouse
  BY <1>1 DEF OneRunInGold
<1>2. CASE warehouse' = Gold(lake["bronze"])
  <2>1. \A g \in warehouse' : g.from \subseteq lake["bronze"]
    BY <1>2, GoldFrom
  <2>2. \A r, s \in lake["bronze"] : r.run = s.run
    BY DEF OneRunPerDirectory, Dirs
  <2>. QED
    BY <2>1, <2>2 DEF OneRunInGold
<1>. QED
  BY <1>1, <1>2
  DEF Next, Steps, vars, goldVars, StartRun, Deliver, DeliverFails, ReplayReturns,
      Drain, Clear, Write, RunProcessor, RunDbt, DropTable, Purge, CreateTable,
      AppendFirst, AppendRest, Finish, Fail

-----------------------------------------------------------------------------
(* The snapshots, from step to step.                                       *)

LEMMA CurrentInTable ==
  ASSUME iceberg # NoTable
  PROVE  Current(iceberg) \subseteq TableRows \/ iceberg \notin Seq(SUBSET GoldRows)
<1>1. CASE iceberg = <<>>
  BY <1>1 DEF Current
<1>2. CASE iceberg # <<>> /\ iceberg \in Seq(SUBSET GoldRows)
  <2>1. Len(iceberg) \in DOMAIN iceberg
    BY <1>2, EmptySeq, LenProperties
  <2>. QED
    BY <1>2, <2>1 DEF Current, Last, TableRows, Range
<1>. QED
  BY <1>1, <1>2

\* An append of rows of the mart adds no others.
LEMMA SnapshotInvAppend ==
  ASSUME TypeOK, TypeOK', TableInv, SnapshotInv, OneRunInGold,
         stage \in Appending, stage' \in Appending, warehouse' = warehouse,
         NEW new \in SUBSET warehouse, AppendRows(new)
  PROVE  SnapshotInv'
<1>1. iceberg # NoTable /\ iceberg \in Seq(SUBSET GoldRows) /\ TableRows \subseteq warehouse
  BY DEF TableInv, TypeOK, SnapshotInv
<1>2. CASE new = {}
  <2>1. iceberg' = iceberg
    BY <1>2 DEF AppendRows
  <2>. QED
    BY <1>1, <2>1 DEF SnapshotInv, TableRows
<1>3. CASE new # {}
  <2> DEFINE last == Current(iceberg) \cup new
  <2>1. iceberg' = Append(iceberg, last)
    BY <1>3 DEF AppendRows
  <2>2. last \subseteq warehouse
    BY <1>1, CurrentInTable
  <2>3. last \in SUBSET GoldRows
    BY <2>2 DEF TypeOK
  <2> HIDE DEF last
  <2>4. /\ DOMAIN iceberg' = 1..Len(iceberg) + 1 /\ Len(iceberg) \in Nat
        /\ \A i \in 1..Len(iceberg) : iceberg'[i] = iceberg[i]
        /\ iceberg'[Len(iceberg) + 1] = last
    BY <1>1, <2>1, <2>3, AppendProperties, LenProperties
  <2>5. \A i \in DOMAIN iceberg' : iceberg'[i] \subseteq warehouse
    <3>1. ASSUME NEW i \in 1..Len(iceberg) PROVE iceberg'[i] \subseteq warehouse
      <4>1. iceberg[i] \in Range(iceberg)
        BY <1>1, LenProperties DEF Range
      <4>. QED
        BY <1>1, <2>4, <4>1 DEF TableRows
    <3>. QED
      BY <2>2, <2>4, <3>1
  <2>6. TableRows' \subseteq warehouse
    BY <2>5 DEF TableRows, Range
  <2>. QED
    BY <2>6 DEF SnapshotInv, OneRunInGold
<1>. QED
  BY <1>2, <1>3

LEMMA SnapshotInvStep ==
  ASSUME TypeOK, TypeOK', TableInv, SnapshotInv, OneRunInGold, [Next]_vars
  PROVE  SnapshotInv'
<1> USE SinkStages
<1>1. CASE DropTable \/ CreateTable
  <2>1. TableRows' = {}
    <3>1. iceberg' \in {NoTable, <<>>}
      BY <1>1 DEF DropTable, CreateTable, TableInv
    <3>2. Range(<<>>) = {}
      BY DEF Range
    <3>. QED
      BY <3>1, <3>2 DEF TableRows
  <2>. QED
    BY <2>1 DEF SnapshotInv
<1>2. CASE AppendFirst
  <2>1. OneMinute(warehouse) \subseteq warehouse
    BY DEF OneMinute
  <2>. QED
    BY <1>2, <2>1, SnapshotInvAppend DEF AppendFirst, Appending
<1>3. CASE AppendRest
  BY <1>3, SnapshotInvAppend DEF AppendRest, Appending
<1>4. CASE /\ iceberg' = iceberg
           /\ stage' \in Appending => stage \in Appending /\ warehouse' = warehouse
  BY <1>4 DEF SnapshotInv, TableRows
<1>5. ASSUME NEW d \in Dirs, Drain(d) \/ Clear(d) \/ Write(d)
      PROVE  SnapshotInv'
  <2>1. stage' \notin Appending /\ iceberg' = iceberg
    BY <1>5 DEF Drain, Clear, Write, goldVars, Dirs, Appending
  <2>. QED
    BY <1>4, <2>1
<1>6. CASE StartRun \/ Deliver \/ DeliverFails \/ ReplayReturns \/ RunProcessor
  BY <1>4, <1>6
  DEF StartRun, Deliver, DeliverFails, ReplayReturns, RunProcessor, goldVars, Appending
<1>7. CASE RunDbt \/ Purge \/ Finish \/ Fail \/ UNCHANGED vars
  BY <1>4, <1>7 DEF RunDbt, Purge, Finish, Fail, vars, goldVars, Appending
<1>. QED
  BY <1>1, <1>2, <1>3, <1>5, <1>6, <1>7 DEF Next, Steps

-----------------------------------------------------------------------------
(* The types, from step to step.                                           *)

ControlOK == run \in 0..MaxRuns /\ completed \in 0..run /\ stage \in Stages

TopicsOK ==
  /\ fixture \in Seq(Events) /\ queue \in Seq(Events) /\ failures \in Nat
  /\ DOMAIN topics = TopicNames
  /\ \A t \in TopicNames \ {"metrics"} : topics[t] \in Seq(Events)

RowsOK ==
  /\ DOMAIN lake = Dirs
  /\ stage \in {ClearOf["bronze"], WriteOf["bronze"]} => rows \subseteq Stored
  /\ lake["bronze"] \subseteq Stored
  /\ warehouse \subseteq GoldRows

TableOK ==
  /\ iceberg # NoTable => iceberg \in Seq(SUBSET GoldRows) /\ Len(iceberg) <= 2
  /\ dataFiles \subseteq 1..run

LEMMA TypeParts == TypeOK <=> ControlOK /\ TopicsOK /\ RowsOK /\ TableOK
BY DEF TypeOK, ControlOK, TopicsOK, RowsOK, TableOK

LEMMA ControlStep ==
  ASSUME TypeOK, Started, [Next]_vars
  PROVE  ControlOK' /\ Started'
<1> USE ConstantsAssumption, SinkStages
    DEF TypeOK, ControlOK, Started, Stages
<1>1. CASE StartRun
  BY <1>1 DEF StartRun
<1>2. ASSUME NEW d \in Dirs, Drain(d) \/ Clear(d) \/ Write(d)
      PROVE  ControlOK' /\ Started'
  <2>1. run' = run /\ completed' = completed /\ stage # "idle"
    BY <1>2 DEF Drain, Clear, Write, Dirs
  <2>2. stage' \in Stages
    BY <1>2 DEF Drain, Clear, Write, Dirs
  <2>. QED
    BY <2>1, <2>2
<1>3. CASE Finish
  BY <1>3 DEF Finish
<1>4. CASE Deliver \/ DeliverFails \/ ReplayReturns \/ RunProcessor \/ RunDbt
  BY <1>4 DEF Deliver, DeliverFails, ReplayReturns, RunProcessor, RunDbt
<1>5. CASE DropTable \/ Purge \/ CreateTable \/ AppendFirst \/ AppendRest \/ Fail
  BY <1>5 DEF DropTable, Purge, CreateTable, AppendFirst, AppendRest, Fail
<1>6. CASE UNCHANGED vars
  BY <1>6 DEF vars
<1>. QED
  BY <1>1, <1>2, <1>3, <1>4, <1>5, <1>6 DEF Next, Steps

LEMMA TopicsStep ==
  ASSUME TypeOK, [Next]_vars
  PROVE  TopicsOK'
<1>0. TopicsOK
  BY TypeParts
<1>1. CASE StartRun
  BY <1>1, ConstantsAssumption, EmptySeq
  DEF StartRun, TopicsOK, EmptyTopics, TopicNames
<1>2. CASE Deliver
  <2>1. Head(queue) \in Events /\ Tail(queue) \in Seq(Events)
    BY <1>0, <1>2, HeadTailProperties DEF Deliver, TopicsOK
  <2>2. TopicFor(Head(queue)) \in TopicNames \ {"metrics"}
    BY DEF TopicFor, TopicNames
  <2>3. Append(topics[TopicFor(Head(queue))], Head(queue)) \in Seq(Events)
    BY <1>0, <2>1, <2>2, AppendProperties DEF TopicsOK
  <2>. QED
    BY <1>0, <1>2, <2>1, <2>2, <2>3 DEF Deliver, TopicsOK
<1>3. CASE DeliverFails
  <2>1. Tail(queue) \in Seq(Events)
    BY <1>0, <1>3, HeadTailProperties DEF DeliverFails, TopicsOK
  <2>. QED
    BY <1>0, <1>3, <2>1 DEF DeliverFails, TopicsOK
<1>4. CASE RunProcessor
  <2>1. /\ DOMAIN topics' = DOMAIN topics
        /\ \A t \in TopicNames \ {"metrics"} : topics'[t] = topics[t]
    BY <1>0, <1>4 DEF RunProcessor, TopicsOK
  <2>. QED
    BY <1>0, <1>4, <2>1 DEF RunProcessor, TopicsOK
<1>5. CASE UNCHANGED replayVars
  BY <1>0, <1>5 DEF TopicsOK, replayVars
<1>. QED
  BY <1>1, <1>2, <1>3, <1>4, <1>5
  DEF Next, Steps, vars, ReplayReturns, Drain, Clear, Write, RunDbt, DropTable,
      Purge, CreateTable, AppendFirst, AppendRest, Finish, Fail

LEMMA RowsStep ==
  ASSUME TypeOK, SinkInv, [Next]_vars
  PROVE  RowsOK'
<1> USE SinkStages
<1>0. RowsOK /\ run \in Nat
  BY ConstantsAssumption, TypeParts DEF ControlOK
<1>1. ASSUME NEW d \in Dirs, Drain(d)
      PROVE  RowsOK'
  <2>1. lake' = lake /\ warehouse' = warehouse
    BY <1>1 DEF Drain, goldVars
  <2>2. CASE d = "bronze"
    <3>0. TopicsOf["bronze"] = {"trades", "tickers"}
      BY DEF TopicsOf
    <3>1. PICK got \in [TopicsOf[d] -> UNION {Prefixes(topics[t]) : t \in TopicsOf[d]}] :
            /\ \A t \in TopicsOf[d] : got[t] \in Prefixes(topics[t])
            /\ rows' = Tag(UNION {ToSet(got[t]) : t \in TopicsOf[d]})
      BY <1>1 DEF Drain
    <3>2. \A t \in TopicsOf[d] : ToSet(got[t]) \subseteq Events
      BY <2>2, <3>0, <3>1, PrefixEvents, TypeParts DEF TopicsOK, TopicNames
    <3>3. rows' \subseteq Stored
      BY <1>0, <3>1, <3>2, TagStored
    <3>. QED
      BY <1>0, <2>1, <3>3 DEF RowsOK
  <2>3. CASE d # "bronze"
    <3>1. stage' \notin {ClearOf["bronze"], WriteOf["bronze"]}
      BY <1>1, <2>3 DEF Drain, Dirs
    <3>. QED
      BY <1>0, <2>1, <3>1 DEF RowsOK
  <2>. QED
    BY <2>2, <2>3
<1>2. ASSUME NEW d \in Dirs, Clear(d)
      PROVE  RowsOK'
  <2>1. rows' = rows /\ warehouse' = warehouse /\ DOMAIN lake' = Dirs
        /\ lake'["bronze"] \subseteq lake["bronze"]
    BY <1>0, <1>2 DEF Clear, goldVars, RowsOK, Dirs
  <2>2. stage' = WriteOf["bronze"] => stage = ClearOf["bronze"]
    BY <1>2 DEF Clear, Dirs
  <2>3. stage' # ClearOf["bronze"]
    BY <1>2 DEF Clear, Dirs
  <2>. QED
    BY <1>0, <2>1, <2>2, <2>3 DEF RowsOK
<1>3. ASSUME NEW d \in Dirs, Write(d)
      PROVE  RowsOK'
  <2>1. warehouse' = warehouse /\ DOMAIN lake' = Dirs /\ rows' = {}
    BY <1>0, <1>3 DEF Write, goldVars, RowsOK
  <2>2. lake'["bronze"] \subseteq Stored
    <3>1. CASE d = "bronze"
      <4>1. lake'["bronze"] = lake["bronze"] \cup rows
        BY <1>0, <1>3, <3>1 DEF Write, RowsOK
      <4>. QED
        BY <1>0, <1>3, <3>1, <4>1 DEF Write, RowsOK
    <3>2. CASE d # "bronze"
      <4>1. lake'["bronze"] = lake["bronze"]
        BY <1>0, <1>3, <3>2 DEF Write, RowsOK
      <4>. QED
        BY <1>0, <4>1 DEF RowsOK
    <3>. QED
      BY <3>1, <3>2
  <2>. QED
    BY <1>0, <2>1, <2>2 DEF RowsOK
<1>4. CASE RunDbt
  <2>1. Gold(lake["bronze"]) \subseteq GoldRows
    BY <1>0, GoldType DEF RowsOK
  <2>2. warehouse' \subseteq GoldRows
    BY <1>0, <1>4, <2>1 DEF RunDbt, RowsOK
  <2>3. lake' = lake /\ stage' \notin {ClearOf["bronze"], WriteOf["bronze"]}
    BY <1>4 DEF RunDbt
  <2>. QED
    BY <1>0, <2>2, <2>3 DEF RowsOK
<1>5. CASE Fail
  <2>1. rows' = {} /\ warehouse' = warehouse /\ DOMAIN lake' = Dirs
    BY <1>5 DEF Fail, Dirs
  <2>2. lake'["bronze"] \in LeftBehind("bronze")
    BY <1>5 DEF Fail
  <2>3. \A left \in LeftBehind("bronze") : left \subseteq Stored
    BY <1>0 DEF LeftBehind, RowsOK
  <2>. QED
    BY <1>0, <2>1, <2>2, <2>3 DEF RowsOK
<1>6. CASE lake' = lake /\ warehouse' = warehouse /\ rows' = rows
           /\ (stage' = stage \/ stage' \notin {ClearOf["bronze"], WriteOf["bronze"]})
  BY <1>0, <1>6 DEF RowsOK
<1>. QED
  BY <1>1, <1>2, <1>3, <1>4, <1>5, <1>6
  DEF Next, Steps, vars, goldVars, StartRun, Deliver, DeliverFails, ReplayReturns,
      RunProcessor, DropTable, Purge, CreateTable, AppendFirst, AppendRest, Finish

LEMMA TableStep ==
  ASSUME TypeOK, Started, TableInv, [Next]_vars
  PROVE  TableOK'
<1>0. TableOK /\ run \in Nat
  BY ConstantsAssumption, TypeParts DEF ControlOK
<1>1. CASE StartRun
  BY <1>0, <1>1 DEF StartRun, goldVars, TableOK
<1>2. CASE DropTable \/ Purge \/ CreateTable \/ AppendFirst \/ AppendRest
  <2>1. run' = run
    BY <1>2 DEF DropTable, Purge, CreateTable, AppendFirst, AppendRest
  <2>. QED
    BY <1>2, <2>1, TableInvBuild DEF TableOK
<1>3. CASE Fail
  BY <1>0, <1>3, TableInvFail DEF Fail, TableOK
<1>4. CASE run' = run /\ iceberg' = iceberg /\ dataFiles' = dataFiles
  BY <1>0, <1>4 DEF TableOK
<1>. QED
  BY <1>1, <1>2, <1>3, <1>4
  DEF Next, Steps, vars, goldVars, Deliver, DeliverFails, ReplayReturns, Drain, Clear,
      Write, RunProcessor, RunDbt, Finish

-----------------------------------------------------------------------------
LEMMA InitInv == Init => Inv
<1> SUFFICES ASSUME Init PROVE Inv
  OBVIOUS
<1> USE ConstantsAssumption, SinkStages, EmptySeq DEF Init
<1>1. TypeOK
  BY DEF TypeOK, Stages, EmptyTopics, TopicNames, Dirs
<1>2. Started /\ SinkInv /\ OneRunPerDirectory /\ OneRunInGold /\ TableInv
  BY DEF Started, SinkInv, OneRunPerDirectory, OneRunInGold, TableInv, Appending, Dirs
<1>3. SnapshotInv
  BY DEF SnapshotInv, TableRows, Appending
<1>. QED
  BY <1>1, <1>2, <1>3 DEF Inv

LEMMA StepInv == Inv /\ [Next]_vars => Inv'
<1> SUFFICES ASSUME Inv, [Next]_vars PROVE Inv'
  OBVIOUS
<1>0. /\ TypeOK /\ Started /\ SinkInv /\ OneRunPerDirectory /\ OneRunInGold /\ TableInv
      /\ SnapshotInv
  BY DEF Inv
<1>1. ControlOK' /\ TopicsOK' /\ RowsOK' /\ TableOK' /\ Started'
  BY <1>0, ControlStep, TopicsStep, RowsStep, TableStep
<1>2. TypeOK'
  BY <1>1 DEF TypeOK, ControlOK, TopicsOK, RowsOK, TableOK
<1>3. SinkInv' /\ OneRunPerDirectory' /\ OneRunInGold' /\ TableInv'
  BY <1>0, SinkInvStep, OneRunInGoldStep, TableInvStep
<1>4. SnapshotInv'
  BY <1>0, <1>2, SnapshotInvStep
<1>. QED
  BY <1>1, <1>2, <1>3, <1>4 DEF Inv

\* Whatever fails when, and whatever a purge leaves in the directory of the table,
\* the lake, the gold mart and the gold table stay as the conjuncts of Inv say: a
\* table always has its own files, and until this run has dropped it no file there
\* is of this run.
THEOREM PipelineInv == Spec => []Inv
<1>. QED
  BY InitInv, StepInv, PTL DEF Spec

\* Every reachable state of the pipeline is well typed, and the table never has
\* more than two snapshots.
THEOREM PipelineTypes == Spec => []TypeOK
<1>1. Inv => TypeOK
  BY DEF Inv
<1>. QED
  BY <1>1, PipelineInv, PTL

\* Runs never mix, in a directory, in the gold mart or in the snapshots of the
\* table, whatever is cut short and whatever files a purge leaves behind
\* (pipeline.py:60-130, iceberg.py:54-72).
THEOREM RunsNeverMix == Spec => []OneGeneration
<1>1. Inv => OneGeneration
  BY DEF Inv, OneGeneration, OneRunPerDirectory, OneRunInGold, SnapshotInv
<1>. QED
  BY <1>1, PipelineInv, PTL

-----------------------------------------------------------------------------
(* The refinement of VersionedTable.                                       *)

\* Numbers up to n have a greatest one: the least of their bounds.
LEMMA MaxIn ==
  ASSUME NEW n \in Nat, NEW s \in SUBSET (1..n), s # {}
  PROVE  Max(s) \in s /\ \A x \in s : x <= Max(s)
<1> DEFINE Upper == {m \in Nat : \A x \in s : x <= m}
<1>1. n \in Upper
  OBVIOUS
<1>2. PICK m \in Upper : \A k \in Upper : <<k, m>> \notin OpToRel(<, Nat)
  <2>1. Upper \subseteq Nat /\ Upper # {}
    BY <1>1
  <2> HIDE DEF Upper
  <2>. QED
    BY <2>1, NatLessThanWellFounded, WFMin
<1>3. m \in s
  <2>1. SUFFICES ASSUME m \notin s PROVE FALSE
    OBVIOUS
  <2>2. \A x \in s : x <= m - 1
    BY <2>1
  <2>3. m - 1 \in Upper
    <3>1. PICK x \in s : x \in 1..n
      OBVIOUS
    <3>2. m - 1 \in Nat
      BY <2>2, <3>1
    <3>. QED
      BY <2>2, <3>2
  <2>4. <<m - 1, m>> \in OpToRel(<, Nat)
    BY <2>3 DEF OpToRel
  <2>. QED
    BY <1>2, <2>3, <2>4
<1>4. \A y \in s : m >= y
  OBVIOUS
<1>5. Max(s) \in s /\ \A y \in s : Max(s) >= y
  BY <1>3, <1>4 DEF Max
<1>. QED
  BY <1>5

\* The newest of the files that lie there are the table's own.
LEMMA NewestIsMine ==
  ASSUME run \in Nat, NEW s \in SUBSET (1..run), run \in s
  PROVE  Max(s) = run
<1>1. Max(s) \in s /\ run <= Max(s)
  BY MaxIn
<1>2. \A x \in s : x \in 1..run
  OBVIOUS
<1>3. Max(s) \in 1..run
  BY <1>1, <1>2
<1>. QED
  BY <1>1, <1>3

\* The catalog under the invariant.
LEMMA CatalogIs ==
  ASSUME TypeOK, TableInv
  PROVE  /\ Catalog.table = iceberg
         /\ iceberg = NoTable => Catalog = [gen |-> 0, table |-> NoTable]
         /\ iceberg # NoTable => Catalog.gen \in dataFiles
         /\ iceberg # NoTable /\ run \in dataFiles
              => Catalog = [gen |-> run, table |-> iceberg]
<1>1. run \in Nat /\ dataFiles \in SUBSET (1..run)
  BY ConstantsAssumption DEF TypeOK
<1>2. iceberg # NoTable => Max(dataFiles) \in dataFiles
  BY <1>1, MaxIn DEF TableInv
<1>3. run \in dataFiles => Max(dataFiles) = run
  BY <1>1, NewestIsMine
<1>. QED
  BY <1>2, <1>3 DEF Catalog

\* The abstract reading of a table's last snapshot is the pipeline's.
LEMMA LastRowsIs == \A table : Table!LastRows(table) = Current(table)
BY DEF Table!LastRows, Current, Last

\* A commit of the pipeline is one of the table.
LEMMA AppendIsCommit ==
  ASSUME Inv, TableInv', TypeOK', run' = run,
         stage \in {"append_first", "append_rest"}, stage' \in Appending,
         NEW new \in SUBSET GoldRows, AppendRows(new)
  PROVE  Table!Commit \/ Catalog' = Catalog
<1>0. TypeOK /\ TableInv /\ run \in 1..run /\ iceberg # NoTable /\ run \in dataFiles
  BY ConstantsAssumption DEF Inv, TypeOK, Started, TableInv, Appending
<1>1. iceberg \in Seq(SUBSET GoldRows)
  BY <1>0 DEF TypeOK
<1>2. Catalog = [gen |-> run, table |-> iceberg]
  BY <1>0, CatalogIs
<1>3. CASE new = {}
  BY <1>3 DEF AppendRows, Catalog
<1>4. CASE new # {}
  <2> DEFINE longer == Append(iceberg, Current(iceberg) \cup new)
  <2>1. iceberg' = longer /\ dataFiles' = dataFiles
    BY <1>0, <1>4 DEF AppendRows
  <2>2. longer # NoTable /\ Current(longer) = Current(iceberg) \cup new
    BY <1>1, AppendTable
  <2>3. Catalog' = [gen |-> run, table |-> longer]
    <3>1. Max(dataFiles) = run
      BY <1>0, NewestIsMine DEF TypeOK
    <3>. QED
      BY <2>1, <2>2, <3>1 DEF Catalog
  <2>4. Table!LastRows(Catalog'.table) = Current(iceberg) \cup new
    BY <2>2, <2>3, LastRowsIs
  <2>5. Table!LastRows(Catalog.table) = Current(iceberg)
    BY <1>2, LastRowsIs
  <2>6. Catalog.table = iceberg /\ Catalog.gen = run
    BY <1>2
  <2>7. Catalog' = [gen |-> run, table |-> Append(Catalog.table, Current(iceberg) \cup new)]
    BY <2>3, <2>6
  <2>8. /\ Current(iceberg) \subseteq Current(iceberg) \cup new
        /\ Current(iceberg) \cup new # {}
    BY <1>4
  <2>. QED
    BY <1>0, <2>4, <2>5, <2>6, <2>7, <2>8, Zenon DEF Table!Commit
<1>. QED
  BY <1>3, <1>4

LEMMA TableNextStep ==
  ASSUME Inv, Inv', [Next]_vars
  PROVE  [Table!Next]_<<run, Catalog>>
<1>0. TypeOK /\ Started /\ TableInv /\ TableInv' /\ TypeOK' /\ run \in Nat
  BY ConstantsAssumption DEF Inv, TypeOK
<1>1. CASE StartRun
  BY <1>0, <1>1 DEF StartRun, goldVars, Catalog, Table!Next, Table!Begin
<1>2. CASE DropTable
  <2>0. stage = "drop" /\ run' = run /\ iceberg' = NoTable /\ Catalog'.gen = 0
    BY <1>2 DEF DropTable, Catalog
  <2>1. Catalog' = [gen |-> 0, table |-> NoTable]
    BY <2>0 DEF Catalog
  <2>2. CASE iceberg = NoTable
    BY <1>0, <2>0, <2>1, <2>2, CatalogIs
  <2>3. CASE iceberg # NoTable
    <3>1. Catalog.gen \in dataFiles /\ Catalog.table = iceberg
      BY <1>0, <2>3, CatalogIs
    <3>2. run \notin dataFiles /\ dataFiles \subseteq 1..run
      BY <1>0, <2>0, <2>3 DEF TableInv, Appending, TypeOK
    <3>3. \A g \in dataFiles : g < run
      BY <1>0, <3>2
    <3>4. Catalog.gen < run
      BY <3>1, <3>3
    <3>. QED
      BY <2>0, <2>1, <2>3, <3>1, <3>4 DEF Table!Next, Table!Withdraw, Table!None
  <2>. QED
    BY <2>2, <2>3
<1>3. CASE Purge
  <2>1. iceberg = NoTable /\ iceberg' = NoTable /\ run' = run
    BY <1>0, <1>3 DEF Purge, TableInv
  <2>. QED
    BY <2>1 DEF Catalog
<1>4. CASE CreateTable
  <2>1. /\ iceberg = NoTable /\ iceberg' = <<>>
        /\ dataFiles' = dataFiles \cup {run} /\ dataFiles \subseteq 1..run
        /\ run' = run /\ run \in 1..run
    BY <1>0, <1>4 DEF CreateTable, TableInv, Started, TypeOK
  <2>2. <<>> # NoTable
    BY ConstantsAssumption, EmptySeq
  <2>3. Max(dataFiles') = run
    BY <1>0, <2>1, NewestIsMine
  <2>4. Catalog' = [gen |-> run, table |-> <<>>]
    BY <2>1, <2>2, <2>3 DEF Catalog
  <2>5. Catalog.table = NoTable
    BY <2>1 DEF Catalog
  <2>. QED
    BY <2>1, <2>4, <2>5 DEF Table!Next, Table!Create
<1>5. CASE AppendFirst
  <2>1. OneMinute(warehouse) \in SUBSET GoldRows
    BY <1>0 DEF OneMinute, TypeOK
  <2>. QED
    BY <1>0, <1>5, <2>1, AppendIsCommit DEF AppendFirst, Appending, Table!Next
<1>6. CASE AppendRest
  <2>1. warehouse \ OneMinute(warehouse) \in SUBSET GoldRows
    BY <1>0 DEF TypeOK
  <2>. QED
    BY <1>0, <1>6, <2>1, AppendIsCommit DEF AppendRest, Appending, Table!Next
<1>7. CASE Fail
  <2>1. run' = run /\ iceberg' = iceberg
    BY <1>7 DEF Fail
  <2>2. iceberg # NoTable => dataFiles' = dataFiles
    BY <1>0, <1>7 DEF Fail, TableInv, Appending
  <2>. QED
    BY <2>1, <2>2 DEF Catalog
<1>8. CASE run' = run /\ iceberg' = iceberg /\ dataFiles' = dataFiles
  BY <1>8 DEF Catalog
<1>. QED
  BY <1>1, <1>2, <1>3, <1>4, <1>5, <1>6, <1>7, <1>8
  DEF Next, Steps, vars, goldVars, Deliver, DeliverFails, ReplayReturns, Drain, Clear,
      Write, RunProcessor, RunDbt, Finish

\* Readers of the gold table see the versioned table, for all fixtures and any
\* number of runs, whatever fails in between.
THEOREM PipelineImplementsTable == Spec => TableIsVersioned
<1>1. Init => Table!Init
  BY DEF Init, Table!Init, Table!None, Catalog
<1>2. Inv /\ Inv' /\ [Next]_vars => [Table!Next]_<<run, Catalog>>
  BY TableNextStep
<1>. QED
  BY PipelineInv, <1>1, <1>2, PTL DEF Spec, TableIsVersioned, Table!Spec

-----------------------------------------------------------------------------
(* What a run that completed leaves.                                       *)

Rebuilding == {"drop", "purge", "create", "append_first", "append_rest"}

Completed == stage = "idle" /\ completed = run /\ run > 0

\* Gold is that of the bronze directory, and the table has two snapshots of it,
\* or none when there is no gold.
Built ==
  /\ warehouse = Gold(lake["bronze"])
  /\ iceberg = IF warehouse = {} THEN <<>> ELSE <<OneMinute(warehouse), warehouse>>

\* From dbt to the last append the warehouse is the gold of the bronze directory,
\* after the first append the table has the one-minute part of it.
BuildInv ==
  /\ stage # "idle" => completed < run
  /\ stage \in Rebuilding => warehouse = Gold(lake["bronze"])
  /\ stage = "append_rest" =>
       iceberg = IF warehouse = {} THEN <<>> ELSE <<OneMinute(warehouse)>>
  /\ stage = "finish" => Built
  /\ Completed => Built /\ result = Summary

\* The first snapshot of a table is the one-minute part of its last one.
HeadInv ==
  iceberg \notin {NoTable, <<>>} =>
    /\ Current(iceberg) # {}
    /\ Head(iceberg) = OneMinute(Current(iceberg))

\* Gold with rows has rows of both window sizes.
LEMMA GoldLabels ==
  ASSUME NEW b, Gold(b) # {}
  PROVE  OneMinute(Gold(b)) # {} /\ Gold(b) \ OneMinute(Gold(b)) # {}
<1> DEFINE silver == {r \in b : r.ev.kind # "unusable"}
<1> DEFINE Of(label, size) ==
        {[label |-> label, win |-> r.ev.win \div size,
          from |-> {s \in silver : s.ev.win \div size = r.ev.win \div size}] :
            r \in silver}
<1>1. Gold(b) = Of("1m", 1) \cup Of("5m", Ratio)
  BY DEF Gold
<1>2. silver # {}
  BY <1>1
<1>3. PICK r \in silver : TRUE
  BY <1>2
<1> DEFINE row(label, size) ==
        [label |-> label, win |-> r.ev.win \div size,
         from |-> {s \in silver : s.ev.win \div size = r.ev.win \div size}]
<1>4. row("1m", 1) \in Of("1m", 1) /\ row("1m", 1).label = "1m"
  OBVIOUS
<1>5. row("5m", Ratio) \in Of("5m", Ratio) /\ row("5m", Ratio).label # "1m"
  OBVIOUS
<1>. QED
  BY <1>1, <1>4, <1>5 DEF OneMinute

LEMMA AppendOne ==
  ASSUME NEW a, NEW b
  PROVE  Append(<<a>>, b) = <<a, b>>
<1>1. Append(<<a>>, b) = [i \in 1..2 |-> IF i = 1 THEN a ELSE b]
  OBVIOUS
<1>2. <<a, b>> = [i \in 1..2 |-> IF i = 1 THEN a ELSE b]
  OBVIOUS
<1>. QED
  BY <1>1, <1>2

\* A table with two snapshots is one.
LEMMA TwoSnapshots ==
  ASSUME NEW a, NEW b, a \subseteq GoldRows, b \subseteq GoldRows
  PROVE  <<a, b>> # NoTable
<1>1. <<a, b>> \in Seq(SUBSET GoldRows)
  OBVIOUS
<1>. QED
  BY <1>1, ConstantsAssumption

\* Steps that touch neither bronze nor what is built from it.
LEMMA BuildInvKept ==
  ASSUME TypeOK, BuildInv, HeadInv,
         run' = run, warehouse' = warehouse, iceberg' = iceberg,
         completed' = completed, completed < run,
         lake'["bronze"] = lake["bronze"] \/ stage' \notin Rebuilding,
         stage' \in Rebuilding => stage' = stage,
         stage' # "finish"
  PROVE  BuildInv' /\ HeadInv'
<1>1. ~Completed'
  BY ConstantsAssumption DEF Completed, TypeOK
<1>. QED
  BY <1>1 DEF BuildInv, HeadInv, Rebuilding

LEMMA AppendFirstStep ==
  ASSUME TypeOK, TableInv, BuildInv, AppendFirst
  PROVE  BuildInv' /\ HeadInv'
<1> DEFINE new == OneMinute(warehouse)
<1>1. /\ iceberg = <<>> /\ stage' = "append_rest" /\ warehouse' = warehouse
      /\ warehouse = Gold(lake["bronze"]) /\ lake' = lake /\ run' = run
      /\ completed' = completed /\ completed < run
  BY DEF AppendFirst, TableInv, BuildInv, Rebuilding
<1>2. ~Completed' /\ stage' \in Rebuilding /\ stage' # "finish"
  BY <1>1 DEF Completed, Rebuilding
<1>3. CASE new = {}
  <2>1. iceberg' = <<>> /\ warehouse = {}
    BY <1>1, <1>3, GoldLabels DEF AppendFirst, AppendRows
  <2>. QED
    BY <1>1, <1>2, <2>1 DEF BuildInv, HeadInv
<1>4. CASE new # {}
  <2>1. new \in SUBSET GoldRows
    BY DEF TypeOK, OneMinute
  <2>2. iceberg' = <<new>> /\ warehouse # {}
    <3>1. iceberg' = Append(<<>>, Current(<<>>) \cup new)
      BY <1>1, <1>4 DEF AppendFirst, AppendRows
    <3>2. Current(<<>>) = {}
      BY DEF Current
    <3>3. Append(<<>>, new) = <<new>>
      OBVIOUS
    <3>4. warehouse # {}
      BY <1>4 DEF OneMinute
    <3>. QED
      BY <3>1, <3>2, <3>3, <3>4
  <2>3. Current(<<new>>) = new /\ Head(<<new>>) = new /\ OneMinute(new) = new
    BY DEF Current, Last, OneMinute
  <2>. QED
    BY <1>1, <1>2, <1>4, <2>2, <2>3 DEF BuildInv, HeadInv
<1>. QED
  BY <1>3, <1>4

LEMMA AppendRestStep ==
  ASSUME TypeOK, TableInv, BuildInv, AppendRest
  PROVE  BuildInv' /\ HeadInv'
<1> DEFINE first == OneMinute(warehouse)
           new == warehouse \ first
<1>1. /\ stage' = "finish" /\ warehouse' = warehouse
      /\ warehouse = Gold(lake["bronze"]) /\ lake' = lake /\ run' = run
      /\ completed' = completed /\ completed < run
      /\ iceberg = IF warehouse = {} THEN <<>> ELSE <<first>>
  BY DEF AppendRest, BuildInv, Rebuilding
<1>2. ~Completed' /\ stage' \notin Rebuilding /\ stage' # "append_rest"
  BY <1>1 DEF Completed, Rebuilding
<1>3. CASE warehouse = {}
  <2>1. iceberg' = <<>>
    BY <1>1, <1>3 DEF AppendRest, AppendRows
  <2>2. Built'
    BY <1>1, <1>3, <2>1 DEF Built
  <2>. QED
    BY <1>1, <1>2, <2>1, <2>2 DEF BuildInv, HeadInv
<1>4. CASE warehouse # {}
  <2>1. first # {} /\ new # {} /\ first \cup new = warehouse
    BY <1>1, <1>4, GoldLabels DEF OneMinute
  <2>2. iceberg' = Append(<<first>>, Current(<<first>>) \cup new)
    BY <1>1, <1>4, <2>1 DEF AppendRest, AppendRows
  <2>3. Current(<<first>>) = first
    BY DEF Current, Last
  <2>4. iceberg' = <<first, warehouse>>
    BY <2>1, <2>2, <2>3, AppendOne
  <2>5. Built'
    BY <1>1, <1>4, <2>4 DEF Built
  <2>6. Current(<<first, warehouse>>) = warehouse /\ Head(<<first, warehouse>>) = first
    BY DEF Current, Last
  <2>. QED
    BY <1>1, <1>2, <1>4, <2>4, <2>5, <2>6 DEF BuildInv, HeadInv
<1>. QED
  BY <1>3, <1>4

LEMMA BuildInvStep ==
  ASSUME Inv, Inv', BuildInv, HeadInv, [Next]_vars
  PROVE  BuildInv' /\ HeadInv'
<1> USE SinkStages
<1>0. /\ TypeOK /\ Started /\ TableInv /\ run \in Nat /\ completed \in 0..run
      /\ stage # "idle" => completed < run
  BY ConstantsAssumption DEF Inv, TypeOK, BuildInv
<1>1. CASE StartRun
  <2>1. /\ run' = run + 1 /\ completed' = completed /\ stage' = "replay"
        /\ iceberg' = iceberg
    BY <1>1 DEF StartRun, goldVars
  <2>2. completed' < run' /\ ~Completed'
    BY <1>0, <2>1 DEF Completed
  <2>. QED
    BY <2>1, <2>2 DEF BuildInv, HeadInv, Rebuilding
<1>2. CASE Deliver \/ DeliverFails
  BY <1>0, <1>2, BuildInvKept DEF Deliver, DeliverFails, goldVars, Rebuilding
<1>3. CASE ReplayReturns
  BY <1>0, <1>3, BuildInvKept DEF ReplayReturns, goldVars, Rebuilding
<1>4. ASSUME NEW d \in Dirs, Drain(d) \/ Clear(d) \/ Write(d)
      PROVE  BuildInv' /\ HeadInv'
  <2>1. stage # "idle" /\ stage' \notin Rebuilding \cup {"finish"}
    BY <1>4 DEF Drain, Clear, Write, Dirs, Rebuilding
  <2>2. run' = run /\ completed' = completed /\ warehouse' = warehouse /\ iceberg' = iceberg
    BY <1>4 DEF Drain, Clear, Write, goldVars
  <2>. QED
    BY <1>0, <2>1, <2>2, BuildInvKept
<1>5. CASE RunProcessor
  BY <1>0, <1>5, BuildInvKept DEF RunProcessor, goldVars, Rebuilding
<1>6. CASE RunDbt
  <2>1. /\ run' = run /\ completed' = completed /\ completed < run /\ lake' = lake
        /\ iceberg' = iceberg /\ stage' \in {"idle", "drop"}
        /\ stage' = "drop" => warehouse' = Gold(lake'["bronze"])
    BY <1>0, <1>6 DEF RunDbt
  <2>2. ~Completed'
    BY <1>0, <2>1 DEF Completed
  <2>. QED
    BY <2>1, <2>2 DEF BuildInv, HeadInv, Rebuilding
<1>7. CASE DropTable \/ Purge \/ CreateTable
  <2>1. /\ run' = run /\ completed' = completed /\ completed < run /\ lake' = lake
        /\ warehouse' = warehouse /\ warehouse = Gold(lake["bronze"])
        /\ stage' \in {"purge", "create", "append_first"}
        /\ iceberg' \in {NoTable, <<>>, iceberg}
    BY <1>0, <1>7 DEF DropTable, Purge, CreateTable, BuildInv, Rebuilding
  <2>2. ~Completed'
    BY <1>0, <2>1 DEF Completed
  <2>. QED
    BY <2>1, <2>2 DEF BuildInv, HeadInv, Rebuilding
<1>8. CASE AppendFirst
  BY <1>0, <1>8, AppendFirstStep
<1>9. CASE AppendRest
  BY <1>0, <1>9, AppendRestStep
<1>10. CASE Finish
  <2>1. /\ lake' = lake /\ warehouse' = warehouse /\ iceberg' = iceberg
        /\ fixture' = fixture /\ counts' = counts /\ run' = run
        /\ stage' = "idle" /\ result' = Summary /\ Built
    BY <1>10 DEF Finish, goldVars, replayVars, BuildInv
  <2>2. Built' /\ result' = Summary'
    BY <2>1 DEF Built, Summary
  <2>. QED
    BY <2>1, <2>2 DEF BuildInv, HeadInv, Rebuilding
<1>11. CASE Fail
  BY <1>0, <1>11, BuildInvKept DEF Fail, Rebuilding
<1>12. CASE UNCHANGED vars
  <2>1. Built' = Built /\ Summary' = Summary /\ Completed' = Completed
    BY <1>12 DEF vars, goldVars, replayVars, Built, Summary, Completed
  <2>. QED
    BY <1>12, <2>1 DEF vars, goldVars, replayVars, BuildInv, HeadInv
<1>. QED
  BY <1>1, <1>2, <1>3, <1>4, <1>5, <1>6, <1>7, <1>8, <1>9, <1>10, <1>11, <1>12
  DEF Next, Steps

\* From the dbt build on, and for good once the run has completed, the gold table
\* is built from the bronze directory, step by step.
THEOREM PipelineBuilds == Spec => [](BuildInv /\ HeadInv)
<1>1. Init => BuildInv /\ HeadInv
  BY DEF Init, BuildInv, HeadInv, Rebuilding, Completed
<1>2. Inv /\ Inv' /\ (BuildInv /\ HeadInv) /\ [Next]_vars => (BuildInv /\ HeadInv)'
  BY BuildInvStep
<1>. QED
  BY PipelineInv, <1>1, <1>2, PTL DEF Spec

\* The gold table of a run that completed is the gold of the bronze directory, and
\* its first snapshot is the one-minute part (iceberg.py:49-80).
THEOREM GoldIsBronzes == Spec => []GoldFollowsBronze
<1>1. ASSUME TypeOK, BuildInv, Completed
      PROVE  LET gold == Gold(lake["bronze"])
             IN /\ iceberg # NoTable
                /\ Current(iceberg) = gold
                /\ gold # {} => Head(iceberg) = OneMinute(gold)
  <2>1. Built
    BY <1>1 DEF BuildInv
  <2>2. CASE warehouse = {}
    <3>1. iceberg = <<>> /\ <<>> # NoTable
      BY <2>1, <2>2, ConstantsAssumption, EmptySeq DEF Built
    <3>. QED
      BY <2>1, <2>2, <3>1 DEF Built, Current
  <2>3. CASE warehouse # {}
    <3> DEFINE table == <<OneMinute(warehouse), warehouse>>
    <3>1. iceberg = table /\ Current(table) = warehouse /\ Head(table) = OneMinute(warehouse)
      BY <2>1, <2>3 DEF Built, Current, Last
    <3>2. OneMinute(warehouse) \subseteq GoldRows /\ warehouse \subseteq GoldRows
      BY <1>1 DEF TypeOK, OneMinute
    <3>3. table # NoTable
      BY <3>2, TwoSnapshots
    <3>. QED
      BY <2>1, <3>1, <3>3 DEF Built
  <2>. QED
    BY <2>2, <2>3
<1>2. TypeOK /\ BuildInv => GoldFollowsBronze
  BY <1>1 DEF GoldFollowsBronze, Completed
<1>. QED
  BY <1>2, PipelineTypes, PipelineBuilds, PTL

-----------------------------------------------------------------------------
(* The replay gate and the rejects.                                        *)

EventTopics == TopicNames \ {"metrics"}

\* Topic t holds its part of the first n events of the fixture.
Holds(t, n) ==
  /\ Len(topics[t]) = Cardinality(Bound(fixture, t, n))
  /\ \A i \in Bound(fixture, t, n) :
       topics[t][Cardinality(Bound(fixture, t, i))] = fixture[i]

\* The client's queue is the rest of the fixture, and while no message has failed
\* the topics hold what is no longer in it.
GateInv ==
  /\ Len(queue) <= Len(fixture)
  /\ \A j \in 1..Len(queue) : queue[j] = fixture[Len(fixture) - Len(queue) + j]
  /\ \A t \in EventTopics : \A k \in DOMAIN topics[t] :
       topics[t][k] \in ToSet(fixture) /\ TopicFor(topics[t][k]) = t
  /\ failures = 0 => \A t \in EventTopics : Holds(t, Len(fixture) - Len(queue))
  /\ Sinking => queue = <<>> /\ failures = 0

RejectedRows == Tag({e \in ToSet(fixture) : e.kind = "reject"})

\* The rows the quarantine sink holds are rejects of the fixture, of which it may
\* have missed some until it has counted them.
RejectInv ==
  /\ stage \in {"clear_quarantine", "write_quarantine"} => rows \subseteq RejectedRows
  /\ RejectsLanded

\* One more event: it belongs to one topic.
LEMMA BoundNext ==
  ASSUME NEW s, NEW t, NEW n \in Nat
  PROVE  /\ IsFiniteSet(Bound(s, t, n)) /\ Cardinality(Bound(s, t, n)) \in Nat
         /\ TopicFor(s[n + 1]) = t =>
              /\ Bound(s, t, n + 1) = Bound(s, t, n) \cup {n + 1}
              /\ Cardinality(Bound(s, t, n + 1)) = Cardinality(Bound(s, t, n)) + 1
         /\ TopicFor(s[n + 1]) # t => Bound(s, t, n + 1) = Bound(s, t, n)
<1>1. IsFiniteSet(1..n)
  BY FS_Interval
<1>2. IsFiniteSet(Bound(s, t, n))
  BY <1>1, FS_Subset DEF Bound
<1>3. Cardinality(Bound(s, t, n)) \in Nat
  BY <1>2, FS_CardinalityType
<1>4. Bound(s, t, n + 1) = IF TopicFor(s[n + 1]) = t THEN Bound(s, t, n) \cup {n + 1}
                                                     ELSE Bound(s, t, n)
  BY DEF Bound
<1>5. n + 1 \notin Bound(s, t, n)
  BY DEF Bound
<1>6. Cardinality(Bound(s, t, n) \cup {n + 1}) = Cardinality(Bound(s, t, n)) + 1
  BY <1>2, <1>5, FS_AddElement
<1>7. CASE TopicFor(s[n + 1]) = t
  BY <1>2, <1>3, <1>4, <1>6, <1>7
<1>8. CASE TopicFor(s[n + 1]) # t
  BY <1>2, <1>3, <1>4, <1>8
<1>. QED
  BY <1>7, <1>8

\* The k-th event of a topic comes before the later ones.
LEMMA BoundRank ==
  ASSUME NEW s, NEW t, NEW n \in Nat, NEW i \in Bound(s, t, n)
  PROVE  Cardinality(Bound(s, t, i)) \in 1..Cardinality(Bound(s, t, n))
<1>1. i \in Nat /\ i \in Bound(s, t, i) /\ Bound(s, t, i) \subseteq Bound(s, t, n)
  BY DEF Bound
<1>2. IsFiniteSet(Bound(s, t, n)) /\ Cardinality(Bound(s, t, n)) \in Nat
  BY BoundNext
<1>3. IsFiniteSet(Bound(s, t, i)) /\ Cardinality(Bound(s, t, i)) \in Nat
  BY <1>1, BoundNext
<1>4. Cardinality(Bound(s, t, i)) # 0
  BY <1>1, <1>3, FS_EmptySet
<1>5. Cardinality(Bound(s, t, i)) <= Cardinality(Bound(s, t, n))
  BY <1>1, <1>2, FS_Subset
<1>. QED
  BY <1>2, <1>3, <1>4, <1>5

\* The broker acknowledges event n + 1: it is the next one of its topic.
LEMMA HoldsNext ==
  ASSUME NEW t, NEW n \in Nat, Holds(t, n), topics[t] \in Seq(Events),
         fixture[n + 1] \in Events, fixture' = fixture,
         TopicFor(fixture[n + 1]) = t => topics'[t] = Append(topics[t], fixture[n + 1]),
         TopicFor(fixture[n + 1]) # t => topics'[t] = topics[t]
  PROVE  Holds(t, n + 1)'
<1>1. CASE TopicFor(fixture[n + 1]) = t
  <2>1. /\ Bound(fixture, t, n + 1) = Bound(fixture, t, n) \cup {n + 1}
        /\ Cardinality(Bound(fixture, t, n + 1)) = Cardinality(Bound(fixture, t, n)) + 1
    BY <1>1, BoundNext
  <2>2. /\ Len(topics'[t]) = Len(topics[t]) + 1
        /\ \A k \in 1..Len(topics[t]) : topics'[t][k] = topics[t][k]
        /\ topics'[t][Len(topics[t]) + 1] = fixture[n + 1]
    BY <1>1, AppendProperties
  <2>3. ASSUME NEW i \in Bound(fixture, t, n)
        PROVE  topics'[t][Cardinality(Bound(fixture, t, i))] = fixture[i]
    <3>1. Cardinality(Bound(fixture, t, i)) \in 1..Len(topics[t])
      BY BoundRank DEF Holds
    <3>. QED
      BY <2>2, <3>1 DEF Holds
  <2>4. topics'[t][Cardinality(Bound(fixture, t, n + 1))] = fixture[n + 1]
    BY <2>1, <2>2 DEF Holds
  <2>5. Len(topics'[t]) = Cardinality(Bound(fixture, t, n + 1))
    BY <2>1, <2>2 DEF Holds
  <2>. QED
    BY <2>1, <2>3, <2>4, <2>5 DEF Holds
<1>2. CASE TopicFor(fixture[n + 1]) # t
  <2>1. Bound(fixture, t, n + 1) = Bound(fixture, t, n)
    BY <1>2, BoundNext
  <2>. QED
    BY <1>2, <2>1 DEF Holds
<1>. QED
  BY <1>1, <1>2

LEMMA GateDeliver ==
  ASSUME TypeOK, GateInv, Deliver
  PROVE  GateInv'
<1> SUFFICES ASSUME NEW e, NEW t0, NEW n,
                    e = Head(queue), t0 = TopicFor(e), n = Len(fixture) - Len(queue)
             PROVE  GateInv'
  OBVIOUS
<1>0. /\ queue \in Seq(Events) /\ queue # <<>> /\ fixture \in Seq(Events)
      /\ \A t \in EventTopics : topics[t] \in Seq(Events)
      /\ DOMAIN topics = TopicNames
      /\ fixture' = fixture /\ failures' = failures /\ stage' = stage /\ stage = "replay"
      /\ queue' = Tail(queue) /\ topics' = [topics EXCEPT ![t0] = Append(@, e)]
  BY DEF Deliver, TypeOK, EventTopics
<1>1. /\ Len(queue) \in Nat \ {0} /\ Len(fixture) \in Nat /\ e = queue[1] /\ e \in Events
      /\ Len(queue') = Len(queue) - 1
      /\ \A j \in 1..Len(queue') : queue'[j] = queue[j + 1]
  BY <1>0, HeadTailProperties, LenProperties, EmptySeq
<1>2. n \in Nat /\ n + 1 \in 1..Len(fixture) /\ e = fixture[n + 1]
      /\ Len(fixture') - Len(queue') = n + 1
  BY <1>0, <1>1 DEF GateInv
<1>3. t0 \in EventTopics
  BY DEF TopicFor, EventTopics, TopicNames
<1>4. /\ \A t \in EventTopics \ {t0} : topics'[t] = topics[t]
      /\ topics'[t0] = Append(topics[t0], e)
      /\ EventTopics \subseteq DOMAIN topics
  BY <1>0, <1>3 DEF EventTopics
<1>5. /\ topics'[t0] \in Seq(Events)
      /\ Len(topics'[t0]) = Len(topics[t0]) + 1 /\ Len(topics[t0]) \in Nat
      /\ \A k \in 1..Len(topics[t0]) : topics'[t0][k] = topics[t0][k]
      /\ topics'[t0][Len(topics[t0]) + 1] = e
  BY <1>0, <1>1, <1>3, <1>4, AppendProperties, LenProperties
<1>6. \A j \in 1..Len(queue') : queue'[j] = fixture'[Len(fixture') - Len(queue') + j]
  <2>1. ASSUME NEW j \in 1..Len(queue') PROVE queue'[j] = fixture[n + 1 + j]
    <3>1. j + 1 \in 1..Len(queue) /\ n + (j + 1) = n + 1 + j
      BY <1>1, <1>2
    <3>2. queue[j + 1] = fixture[n + (j + 1)]
      BY <3>1 DEF GateInv
    <3>. QED
      BY <1>1, <3>1, <3>2
  <2>. QED
    BY <1>0, <1>2, <2>1
<1>7. \A t \in EventTopics : \A k \in DOMAIN topics'[t] :
        topics'[t][k] \in ToSet(fixture') /\ TopicFor(topics'[t][k]) = t
  <2>1. e \in ToSet(fixture)
    BY <1>0, <1>2 DEF ToSet
  <2>2. DOMAIN topics'[t0] = 1..(Len(topics[t0]) + 1) /\ DOMAIN topics[t0] = 1..Len(topics[t0])
    BY <1>0, <1>3, <1>5
  <2>3. \A k \in DOMAIN topics'[t0] : k = Len(topics[t0]) + 1 \/ k \in DOMAIN topics[t0]
    BY <1>5, <2>2
  <2>. QED
    BY <1>0, <1>4, <1>5, <2>1, <2>2, <2>3 DEF GateInv
<1>8. ASSUME failures' = 0, NEW t \in EventTopics
      PROVE  Holds(t, n + 1)'
  <2>1. Holds(t, n) /\ topics[t] \in Seq(Events) /\ fixture[n + 1] \in Events
    BY <1>0, <1>1, <1>2, <1>8 DEF GateInv
  <2>2. /\ TopicFor(fixture[n + 1]) = t => topics'[t] = Append(topics[t], fixture[n + 1])
        /\ TopicFor(fixture[n + 1]) # t => topics'[t] = topics[t]
    BY <1>2, <1>4
  <2>. QED
    BY <1>0, <1>2, <2>1, <2>2, HoldsNext
<1>. QED
  BY <1>0, <1>1, <1>2, <1>6, <1>7, <1>8 DEF GateInv, Sinking

LEMMA GateDeliverFails ==
  ASSUME TypeOK, GateInv, DeliverFails
  PROVE  GateInv'
<1>0. /\ queue \in Seq(Events) /\ queue # <<>> /\ fixture \in Seq(Events)
      /\ fixture' = fixture /\ failures' # 0 /\ stage' = stage /\ stage = "replay"
      /\ queue' = Tail(queue) /\ topics' = topics
  BY DEF DeliverFails, TypeOK
<1>1. /\ Len(queue) \in Nat \ {0} /\ Len(fixture) \in Nat
      /\ Len(queue') = Len(queue) - 1
      /\ \A j \in 1..Len(queue') : queue'[j] = queue[j + 1]
  BY <1>0, HeadTailProperties, LenProperties, EmptySeq
<1>. QED
  BY <1>0, <1>1 DEF GateInv, Sinking

LEMMA GateInvStep ==
  ASSUME TypeOK, GateInv, [Next]_vars
  PROVE  GateInv'
<1> USE SinkStages
<1>1. CASE StartRun
  <2>1. /\ fixture' = queue' /\ fixture' \in Seq(Events) /\ failures' = 0
        /\ topics' = EmptyTopics /\ stage' = "replay"
    BY <1>1, ConstantsAssumption DEF StartRun
  <2>2. Len(fixture') \in Nat /\ Len(fixture') - Len(queue') = 0
    BY <2>1, LenProperties
  <2>3. \A t \in EventTopics : topics'[t] = <<>>
    BY <2>1 DEF EmptyTopics, EventTopics
  <2>4. \A t : Bound(fixture, t, 0)' = {}
    BY DEF Bound
  <2>5. \A t \in EventTopics : Holds(t, 0)'
    BY <2>3, <2>4, FS_EmptySet, EmptySeq DEF Holds
  <2>6. \A t \in EventTopics : DOMAIN topics'[t] = {}
    BY <2>3
  <2>7. \A j \in 1..Len(queue') : queue'[j] = fixture'[Len(fixture') - Len(queue') + j]
    BY <2>1, <2>2
  <2>. QED
    BY <2>1, <2>2, <2>5, <2>6, <2>7 DEF GateInv, Sinking
<1>2. CASE Deliver
  BY <1>2, GateDeliver
<1>3. CASE DeliverFails
  BY <1>3, GateDeliverFails
<1>4. CASE /\ fixture' = fixture /\ queue' = queue /\ failures' = failures
           /\ \A t \in EventTopics : topics'[t] = topics[t]
           /\ Sinking' => Sinking \/ AllDelivered
  <2>1. \A t \in EventTopics : \A n : Holds(t, n)' <=> Holds(t, n)
    BY <1>4 DEF Holds
  <2>. QED
    BY <1>4, <2>1 DEF GateInv, AllDelivered
<1>5. CASE ReplayReturns
  BY <1>4, <1>5 DEF ReplayReturns, replayVars, Sinking
<1>6. ASSUME NEW d \in Dirs, Drain(d) \/ Clear(d) \/ Write(d)
      PROVE  GateInv'
  <2>1. Sinking
    BY <1>6 DEF Drain, Clear, Write, Dirs, Sinking
  <2>. QED
    BY <1>4, <1>6, <2>1 DEF Drain, Clear, Write, replayVars
<1>7. CASE RunProcessor
  <2>1. \A t \in EventTopics : topics'[t] = topics[t]
    BY <1>7 DEF RunProcessor, EventTopics, TypeOK
  <2>. QED
    BY <1>4, <1>7, <2>1 DEF RunProcessor, Sinking
<1>8. CASE RunDbt \/ DropTable \/ Purge \/ CreateTable
  BY <1>4, <1>8 DEF RunDbt, DropTable, Purge, CreateTable, replayVars, Sinking
<1>9. CASE AppendFirst \/ AppendRest \/ Finish \/ Fail
  BY <1>4, <1>9 DEF AppendFirst, AppendRest, Finish, Fail, replayVars, Sinking
<1>10. CASE UNCHANGED vars
  BY <1>4, <1>10 DEF vars, replayVars, Sinking
<1>. QED
  BY <1>1, <1>2, <1>3, <1>5, <1>6, <1>7, <1>8, <1>9, <1>10 DEF Next, Steps

LEMMA GateAlways == Spec => []GateInv
<1>1. Init => GateInv
  <2>1. ASSUME Init PROVE GateInv
    <3>1. \A t : Bound(fixture, t, 0) = {}
      BY DEF Bound
    <3>2. \A t \in EventTopics : topics[t] = <<>>
      BY <2>1 DEF Init, EmptyTopics, EventTopics
    <3>3. \A t \in EventTopics : Holds(t, 0)
      BY <3>1, <3>2, FS_EmptySet, EmptySeq DEF Holds
    <3>4. \A t \in EventTopics : DOMAIN topics[t] = {}
      BY <3>2
    <3>. QED
      BY <2>1, <3>3, <3>4, EmptySeq DEF Init, GateInv, Sinking
  <2>. QED
    BY <2>1
<1>2. TypeOK /\ GateInv /\ [Next]_vars => GateInv'
  BY GateInvStep
<1>. QED
  BY <1>1, <1>2, PipelineTypes, PTL DEF Spec

\* The replay gate holds what it promises, for fixtures of any length and any
\* number of messages that fail (replay.py:125-131).
THEOREM GateHolds == Spec => []ReplayComplete
<1>1. TypeOK /\ GateInv => ReplayComplete
  <2>1. ASSUME TypeOK, GateInv, Sinking, NEW t \in EventTopics
        PROVE  Holds(t, Len(fixture))
    <3>1. queue = <<>> /\ failures = 0 /\ Len(fixture) - Len(queue) = Len(fixture)
      BY <2>1, EmptySeq, LenProperties DEF GateInv, TypeOK
    <3>. QED
      BY <2>1, <3>1 DEF GateInv
  <2>. QED
    BY <2>1 DEF ReplayComplete, Holds, EventTopics
<1>. QED
  BY <1>1, GateAlways, PipelineTypes, PTL

\* As many rejected rows as there are rejects: none is missing.
LEMMA AllRejects ==
  ASSUME fixture \in Seq(Events), rows \subseteq RejectedRows,
         Cardinality(rows) = Cardinality(Rejects(fixture))
  PROVE  rows = RejectedRows
<1> DEFINE row == [i \in Rejects(fixture) |-> [run |-> run, ev |-> fixture[i]]]
<1>1. IsFiniteSet(Rejects(fixture))
  <2>1. Len(fixture) \in Nat /\ Rejects(fixture) \subseteq 1..Len(fixture)
    BY LenProperties DEF Rejects
  <2>2. IsFiniteSet(1..Len(fixture))
    BY <2>1, FS_Interval
  <2>. QED
    BY <2>1, <2>2, FS_Subset
<1>2. row \in Surjection(Rejects(fixture), RejectedRows)
  <2>1. \A i \in Rejects(fixture) : row[i] \in RejectedRows
    BY DEF Rejects, RejectedRows, Tag, ToSet
  <2>2. \A r \in RejectedRows : \E i \in Rejects(fixture) : row[i] = r
    BY DEF Rejects, RejectedRows, Tag, ToSet
  <2>. QED
    BY <2>1, <2>2 DEF Surjection
<1>3. IsFiniteSet(RejectedRows) /\ Cardinality(RejectedRows) <= Cardinality(Rejects(fixture))
  BY <1>1, <1>2, FS_Surjection
<1>4. /\ Cardinality(rows) <= Cardinality(RejectedRows)
      /\ Cardinality(RejectedRows) = Cardinality(rows) => RejectedRows = rows
  BY <1>3, FS_Subset
<1>5. Cardinality(RejectedRows) \in Nat /\ Cardinality(Rejects(fixture)) \in Nat
  BY <1>1, <1>3, FS_CardinalityType
<1>. QED
  BY <1>3, <1>4, <1>5

\* What the quarantine sink drains is rejected.
LEMMA DrainsRejects ==
  ASSUME TypeOK, GateInv, Drain("quarantine")
  PROVE  rows' \subseteq RejectedRows'
<1>1. run' = run /\ fixture' = fixture
  BY DEF Drain, replayVars
<1>2. topics["quarantine"] \in Seq(Events) /\ "quarantine" \in EventTopics
  BY DEF TypeOK, TopicNames, EventTopics
<1>3. \A k \in DOMAIN topics["quarantine"] :
        topics["quarantine"][k] \in {e \in ToSet(fixture) : e.kind = "reject"}
  BY <1>2 DEF GateInv, TopicFor
<1>4. \A p \in Prefixes(topics["quarantine"]) :
        ToSet(p) \subseteq {e \in ToSet(fixture) : e.kind = "reject"}
  <2>1. ASSUME NEW p \in Prefixes(topics["quarantine"])
        PROVE  ToSet(p) \subseteq {e \in ToSet(fixture) : e.kind = "reject"}
    <3>1. PICK l \in 0..Len(topics["quarantine"]) : p = SubSeq(topics["quarantine"], 1, l)
      BY DEF Prefixes
    <3>2. \A i \in DOMAIN p : i \in DOMAIN topics["quarantine"] /\ p[i] = topics["quarantine"][i]
      BY <1>2, <3>1, SubSeqProperties, LenProperties
    <3>. QED
      BY <1>3, <3>2 DEF ToSet
  <2>. QED
    BY <2>1
<1>5. PICK got \in [TopicsOf["quarantine"] ->
                      UNION {Prefixes(topics[t]) : t \in TopicsOf["quarantine"]}] :
        /\ \A t \in TopicsOf["quarantine"] : got[t] \in Prefixes(topics[t])
        /\ rows' = Tag(UNION {ToSet(got[t]) : t \in TopicsOf["quarantine"]})
  BY DEF Drain
<1>6. TopicsOf["quarantine"] = {"quarantine"}
  BY DEF TopicsOf
<1>7. UNION {ToSet(got[t]) : t \in TopicsOf["quarantine"]}
        \subseteq {e \in ToSet(fixture) : e.kind = "reject"}
  BY <1>4, <1>5, <1>6
<1>. QED
  BY <1>1, <1>5, <1>7 DEF RejectedRows, Tag

LEMMA RejectInvStep ==
  ASSUME TypeOK, SinkInv, GateInv, RejectInv, [Next]_vars
  PROVE  RejectInv'
<1> USE SinkStages
<1>0. RejectedRows = Tag({e \in ToSet(fixture) : e.kind = "reject"})
  BY DEF RejectedRows
<1>1. CASE StartRun
  BY <1>1 DEF StartRun, RejectInv, RejectsLanded, Sinking
<1>2. CASE Deliver \/ DeliverFails
  BY <1>2 DEF Deliver, DeliverFails, RejectInv, RejectsLanded, Sinking
<1>3. CASE ReplayReturns
  BY <1>3 DEF ReplayReturns, RejectInv, RejectsLanded, Sinking
<1>4. CASE /\ run' = run /\ fixture' = fixture /\ lake'["quarantine"] = lake["quarantine"]
           /\ Sinking
           /\ stage \notin {"drain_quarantine", "clear_quarantine", "write_quarantine"}
           /\ stage' \notin {"clear_quarantine", "write_quarantine"}
  <2>1. RejectedRows' = RejectedRows
    BY <1>4 DEF RejectedRows, Tag
  <2>. QED
    BY <1>0, <1>4, <2>1 DEF RejectInv, RejectsLanded, RejectedRows
<1>5. ASSUME NEW d \in Dirs \ {"quarantine"}, Drain(d) \/ Clear(d) \/ Write(d)
      PROVE  RejectInv'
  <2>1. /\ Sinking
        /\ stage \notin {"drain_quarantine", "clear_quarantine", "write_quarantine"}
        /\ stage' \notin {"clear_quarantine", "write_quarantine"}
    BY <1>5 DEF Drain, Clear, Write, Dirs, Sinking
  <2>2. run' = run /\ fixture' = fixture /\ lake'["quarantine"] = lake["quarantine"]
    BY <1>5 DEF Drain, Clear, Write, replayVars, Dirs, TypeOK
  <2>. QED
    BY <1>4, <2>1, <2>2
<1>6. CASE Drain("quarantine")
  <2>1. rows' \subseteq RejectedRows'
    BY <1>6, DrainsRejects
  <2>2. stage' = "clear_quarantine"
    BY <1>6 DEF Drain
  <2>. QED
    BY <2>1, <2>2 DEF RejectInv, RejectsLanded
<1>7. CASE Clear("quarantine")
  <2>1. /\ run' = run /\ fixture' = fixture /\ rows' = rows
        /\ stage = "clear_quarantine" /\ stage' = "write_quarantine"
    BY <1>7 DEF Clear, replayVars
  <2>2. RejectedRows' = RejectedRows
    BY <2>1 DEF RejectedRows, Tag
  <2>. QED
    BY <2>1, <2>2 DEF RejectInv, RejectsLanded
<1>8. CASE Write("quarantine")
  <2>1. /\ run' = run /\ fixture' = fixture /\ stage = "write_quarantine"
        /\ stage' \in {"drain_bronze", "idle"}
        /\ stage' # "idle" => Cardinality(rows) = Cardinality(Rejects(fixture))
    BY <1>8 DEF Write, replayVars, Reconciled
  <2>2. lake'["quarantine"] = rows
    <3>1. lake["quarantine"] = {}
      BY <2>1 DEF SinkInv, Dirs
    <3>2. lake' = [lake EXCEPT !["quarantine"] = lake["quarantine"] \cup rows]
      BY <1>8 DEF Write
    <3>3. "quarantine" \in DOMAIN lake
      BY DEF TypeOK, Dirs
    <3>. QED
      BY <3>1, <3>2, <3>3
  <2>3. stage' # "idle" => rows = RejectedRows
    BY <2>1, AllRejects DEF RejectInv, TypeOK
  <2>4. RejectedRows' = RejectedRows
    BY <2>1 DEF RejectedRows, Tag
  <2>. QED
    BY <2>1, <2>2, <2>3, <2>4 DEF RejectInv, RejectsLanded, Sinking, RejectedRows
<1>9. CASE RunProcessor \/ RunDbt \/ DropTable \/ Purge \/ CreateTable
  BY <1>4, <1>9
  DEF RunProcessor, RunDbt, DropTable, Purge, CreateTable, replayVars, Sinking,
      RejectInv, RejectsLanded
<1>10. CASE AppendFirst \/ AppendRest \/ Finish
  BY <1>4, <1>10
  DEF AppendFirst, AppendRest, Finish, replayVars, Sinking, RejectInv, RejectsLanded
<1>11. CASE Fail
  BY <1>11 DEF Fail, RejectInv, RejectsLanded, Sinking
<1>12. CASE UNCHANGED vars
  BY <1>12 DEF vars, replayVars, RejectInv, RejectsLanded, RejectedRows, Sinking, Tag
<1>13. ASSUME NEW d \in Dirs, Drain(d) \/ Clear(d) \/ Write(d)
       PROVE  RejectInv'
  BY <1>5, <1>6, <1>7, <1>8, <1>13
<1>. QED
  BY <1>1, <1>2, <1>3, <1>9, <1>10, <1>11, <1>12, <1>13 DEF Next, Steps

\* A run that goes on to bronze has landed its rejects, all of them and nothing
\* else, however short the drain was (pipeline.py:82-85).
THEOREM RejectsAreLanded == Spec => []RejectsLanded
<1>1. Init => RejectInv
  BY DEF Init, RejectInv, RejectsLanded, Sinking
<1>2. Inv /\ GateInv /\ RejectInv /\ [Next]_vars => RejectInv'
  BY RejectInvStep DEF Inv
<1>3. RejectInv => RejectsLanded
  BY DEF RejectInv
<1>. QED
  BY <1>1, <1>2, <1>3, PipelineInv, GateAlways, PTL DEF Spec
=============================================================================
