---------------------------- MODULE LakePipeline ----------------------------
(***************************************************************************)
(* The offline pipeline of src/tickstream/pipeline.py: run_pipeline, again *)
(* and again, over one lake.  Each run replays a fixture into topics of    *)
(* its own, drains the topics into three Parquet directories at fixed      *)
(* locations, rebuilds the dbt gold table and the Iceberg table from them, *)
(* and writes a summary.                                                   *)
(*                                                                         *)
(* The run is one process.  `stage' is the call it is in.  A drain reads   *)
(* until the topic has been idle for a while or a deadline passes, so it   *)
(* returns some prefix of each topic.  The process may die, or a call may  *)
(* raise, at every stage: what is on disk stays.                           *)
(*                                                                         *)
(* An event is a record [id, kind, win].  "reject" violates the contract   *)
(* and is quarantined; "unusable" passes it but silver filters it out (a   *)
(* ticker without quotes); win is the number of its one-minute window.     *)
(* A stored row is an event with the number of the run that wrote it.      *)
(***************************************************************************)
EXTENDS Integers, Sequences, SequencesExt, FiniteSets

CONSTANTS
  Fixtures,    \* the fixtures a run may replay: sequences of events
  Ratio,       \* one-minute windows in a five-minute one
  NoTable,     \* the Iceberg catalog has no row for the table
  MaxRuns      \* bound: runs of the pipeline

Events == [id : Nat, kind : {"trade", "ticker", "reject", "unusable"}, win : Nat]

\* Rows of bronze, and of the gold mart.
Stored == [run : Nat, ev : Events]
GoldRows == [label : {"1m", "5m"}, win : Nat, from : SUBSET Stored]

ASSUME ConstantsAssumption ==
  /\ Ratio \in Nat \ {0} /\ MaxRuns \in Nat
  /\ Fixtures \subseteq Seq(Events)
  /\ NoTable \notin Seq(SUBSET GoldRows)

\* pipeline_result.json before a run has written it, and when a write of it was
\* cut short.  A summary has the number of its run.
NoResult == [run |-> 0]
Torn == [run |-> -1]

VARIABLES
  run, stage,
  fixture,     \* what the current run replays
  queue,       \* the replay's Kafka client: messages not acknowledged yet
  failures,    \* DeliveryCounter.failed
  topics,      \* this run's topics
  rows,        \* the rows a sink holds in memory
  counts,      \* what the sinks of this run returned
  lake,        \* the Parquet directories
  warehouse,   \* gold_window_metrics in the DuckDB file
  iceberg,     \* the gold Iceberg table: its snapshots, oldest first
  dataFiles,   \* runs whose files lie in the Iceberg table directory
  result,      \* pipeline_result.json
  completed    \* the last run that returned a result

replayVars == <<fixture, queue, failures, topics>>
goldVars == <<warehouse, iceberg, dataFiles>>
vars == <<run, stage, replayVars, rows, counts, lake, goldVars, result, completed>>

Dirs == {"quarantine", "bronze", "windows"}
TopicNames == {"trades", "tickers", "quarantine", "metrics"}

TopicFor(e) ==
  CASE e.kind = "reject" -> "quarantine"
    [] e.kind = "trade"  -> "trades"
    [] OTHER             -> "tickers"

\* The rejects among events, and the first n that go to topic t, by position.
Rejects(events) == {i \in DOMAIN events : events[i].kind = "reject"}
Bound(events, t, n) == {i \in 1..n : TopicFor(events[i]) = t}

Tag(events) == {[run |-> run, ev |-> e] : e \in events}

\* What dbt builds from the bronze rows b: one row per window with a silver
\* row in it.  `from' stands for the row's metrics.
Gold(b) ==
  LET silver == {r \in b : r.ev.kind # "unusable"}
      Of(label, size) ==
        {[label |-> label, win |-> r.ev.win \div size,
          from |-> {s \in silver : s.ev.win \div size = r.ev.win \div size}] :
            r \in silver}
  IN Of("1m", 1) \cup Of("5m", Ratio)

OneMinute(gold) == {g \in gold : g.label = "1m"}

EmptyTopics == [t \in TopicNames |-> <<>>]

Init ==
  /\ run = 0 /\ stage = "idle"
  /\ fixture = <<>> /\ queue = <<>> /\ failures = 0 /\ topics = EmptyTopics
  /\ rows = {} /\ counts = [d \in Dirs |-> 0]
  /\ lake = [d \in Dirs |-> {}]
  /\ warehouse = {} /\ iceberg = NoTable /\ dataFiles = {}
  /\ result = NoResult /\ completed = 0

-----------------------------------------------------------------------------
(* Replay.                                                                 *)

\* run_pipeline isolates its topics and replays a fixture into them.
StartRun ==
  /\ stage = "idle" /\ run < MaxRuns
  /\ run' = run + 1
  /\ stage' = "replay"
  /\ \E f \in Fixtures : fixture' = f /\ queue' = f
  /\ failures' = 0
  /\ topics' = EmptyTopics
  /\ counts' = [d \in Dirs |-> 0]
  /\ UNCHANGED <<rows, lake, goldVars, result, completed>>

\* The client's sender thread: the broker acknowledges a message ...
Deliver ==
  /\ stage = "replay" /\ queue # <<>>
  /\ LET e == Head(queue)
     IN topics' = [topics EXCEPT ![TopicFor(e)] = Append(@, e)]
  /\ queue' = Tail(queue)
  /\ UNCHANGED <<run, stage, fixture, failures, rows, counts, lake, goldVars,
                 result, completed>>

\* ... or the delivery report is an error.
DeliverFails ==
  /\ stage = "replay" /\ queue # <<>>
  /\ queue' = Tail(queue)
  /\ failures' = failures + 1
  /\ UNCHANGED <<run, stage, fixture, topics, rows, counts, lake, goldVars,
                 result, completed>>

\* Mutant: flush() alone decides, as in publish_events.
AllDeliveredMutant == queue = <<>>

AllDelivered == queue = <<>> /\ failures = 0

\* Mutant: flush() without a timeout.
ReplayReturnsMutant ==
  /\ stage = "replay" /\ queue = <<>>
  /\ stage' = IF AllDelivered THEN "drain_quarantine" ELSE "idle"
  /\ UNCHANGED <<run, replayVars, rows, counts, lake, goldVars, result, completed>>

\* flush(30) returns, the queue empty or not; replay returns or raises.
ReplayReturns ==
  /\ stage = "replay"
  /\ stage' = IF AllDelivered THEN "drain_quarantine" ELSE "idle"
  /\ UNCHANGED <<run, replayVars, rows, counts, lake, goldVars, result, completed>>

-----------------------------------------------------------------------------
(* The sinks.                                                              *)

DrainOf == [quarantine |-> "drain_quarantine", bronze |-> "drain_bronze",
            windows |-> "drain_windows"]
ClearOf == [quarantine |-> "clear_quarantine", bronze |-> "clear_bronze",
            windows |-> "clear_windows"]
WriteOf == [quarantine |-> "write_quarantine", bronze |-> "write_bronze",
            windows |-> "write_windows"]
TopicsOf == [quarantine |-> {"quarantine"}, bronze |-> {"trades", "tickers"},
             windows |-> {"metrics"}]
AfterOf == [quarantine |-> "drain_bronze", bronze |-> "process", windows |-> "dbt"]

\* Poll the sink's topics from the start until they are idle or time is up.
\* Without rows write_bronze and land_windows return before they clear their
\* directory, land_quarantine clears it first.
Drain(d) ==
  /\ stage = DrainOf[d]
  /\ LET ts == TopicsOf[d]
     IN \E got \in [ts -> UNION {Prefixes(topics[t]) : t \in ts}] :
          /\ \A t \in ts : got[t] \in Prefixes(topics[t])
          /\ rows' = Tag(UNION {ToSet(got[t]) : t \in ts})
  /\ stage' = IF rows' = {} /\ d # "quarantine" THEN AfterOf[d] ELSE ClearOf[d]
  /\ UNCHANGED <<run, replayVars, counts, lake, goldVars, result, completed>>

\* Mutant: the directory is not cleared.
ClearMutant(d) ==
  /\ stage = ClearOf[d]
  /\ stage' = WriteOf[d]
  /\ UNCHANGED <<run, replayVars, rows, counts, lake, goldVars, result, completed>>

Clear(d) ==
  /\ stage = ClearOf[d]
  /\ lake' = [lake EXCEPT ![d] = {}]
  /\ stage' = WriteOf[d]
  /\ UNCHANGED <<run, replayVars, rows, counts, goldVars, result, completed>>

\* Mutant: what was landed is not compared with what replay quarantined.
ReconciledMutant(d) == TRUE

\* run_pipeline reconciles the quarantine only.
Reconciled(d) ==
  d = "quarantine" =>
    Cardinality(rows) = Cardinality(Rejects(fixture))

Write(d) ==
  /\ stage = WriteOf[d]
  /\ lake' = [lake EXCEPT ![d] = @ \cup rows]
  /\ counts' = [counts EXCEPT ![d] = Cardinality(rows)]
  /\ stage' = IF Reconciled(d) THEN AfterOf[d] ELSE "idle"
  /\ rows' = {}
  /\ UNCHANGED <<run, replayVars, goldVars, result, completed>>

\* The windows of a source topic that have an event which was on time and that a
\* later event has closed.  The events are of one symbol, and grace is left out.
Closed(events) ==
  UNION {LET Win(i) == events[i].win \div size[2]
             OnTime == {i \in DOMAIN events : \A j \in 1..i : Win(j) <= Win(i)}
         IN {[kind |-> events[i].kind, label |-> size[1], win |-> Win(i)] :
               i \in {i \in OnTime : \E j \in DOMAIN events : Win(j) > Win(i)}} :
          size \in {<<"1m", 1>>, <<"5m", Ratio>>}}

\* run_processor, until all is processed or bounded_timeout has passed.  It
\* raises on a ticker without quotes.
RunProcessor ==
  /\ stage = "process"
  /\ \E p \in Prefixes(topics["trades"]), q \in Prefixes(topics["tickers"]) :
       IF \E i \in DOMAIN q : q[i].kind = "unusable"
       THEN stage' = "idle" /\ UNCHANGED topics
       ELSE /\ stage' = "drain_windows"
            /\ topics' = [topics EXCEPT !["metrics"] =
                            SetToSeq(Closed(p) \cup Closed(q))]
  /\ UNCHANGED <<run, fixture, queue, failures, rows, counts, lake, goldVars,
                 result, completed>>

-----------------------------------------------------------------------------
(* build_marts: dbt, then materialize_gold in five steps.                  *)

\* Without bronze Parquet build_marts raises.
RunDbt ==
  /\ stage = "dbt"
  /\ IF lake["bronze"] = {}
     THEN stage' = "idle" /\ UNCHANGED warehouse
     ELSE stage' = "drop" /\ warehouse' = Gold(lake["bronze"])
  /\ UNCHANGED <<run, replayVars, rows, counts, lake, iceberg, dataFiles, result,
                 completed>>

\* Mutant: an existing table is kept and appended to.
DropTableMutant ==
  /\ stage = "drop"
  /\ stage' = "purge"
  /\ UNCHANGED <<run, replayVars, rows, counts, lake, goldVars, result, completed>>

DropTable ==
  /\ stage = "drop"
  /\ iceberg' = NoTable
  /\ stage' = "purge"
  /\ UNCHANGED <<run, replayVars, rows, counts, lake, warehouse, dataFiles, result,
                 completed>>

\* The rmtree of the table's directory.  Its errors are ignored, so any of the
\* files may stay.
Purge ==
  /\ stage = "purge"
  /\ dataFiles' \in SUBSET dataFiles
  /\ stage' = "create"
  /\ UNCHANGED <<run, replayVars, rows, counts, lake, warehouse, iceberg, result,
                 completed>>

CreateTable ==
  /\ stage = "create"
  /\ iceberg' = IF iceberg = NoTable THEN <<>> ELSE iceberg
  /\ dataFiles' = dataFiles \cup {run}
  /\ stage' = "append_first"
  /\ UNCHANGED <<run, replayVars, rows, counts, lake, warehouse, result, completed>>

Current(table) == IF table = <<>> THEN {} ELSE Last(table)

\* Mutant: overwrite() in place of append().
AppendRowsMutant(new) ==
  IF new = {} THEN UNCHANGED <<iceberg, dataFiles>>
  ELSE iceberg' = Append(iceberg, new) /\ dataFiles' = dataFiles \cup {run}

\* An append without rows is left out; one with rows commits a snapshot.
AppendRows(new) ==
  IF new = {} THEN UNCHANGED <<iceberg, dataFiles>>
  ELSE /\ iceberg' = Append(iceberg, Current(iceberg) \cup new)
       /\ dataFiles' = dataFiles \cup {run}

AppendFirst ==
  /\ stage = "append_first"
  /\ AppendRows(OneMinute(warehouse))
  /\ stage' = "append_rest"
  /\ UNCHANGED <<run, replayVars, rows, counts, lake, warehouse, result, completed>>

AppendRest ==
  /\ stage = "append_rest"
  /\ AppendRows(warehouse \ OneMinute(warehouse))
  /\ stage' = "finish"
  /\ UNCHANGED <<run, replayVars, rows, counts, lake, warehouse, result, completed>>

Summary ==
  [run |-> run,
   replayed |-> Cardinality(DOMAIN fixture \ Rejects(fixture)),
   rows |-> counts,
   gold |-> Cardinality(warehouse),
   snapshots |-> IF OneMinute(warehouse) # warehouse THEN 2 ELSE 1]

\* measure_sla only reads; the summary is written and returned.
Finish ==
  /\ stage = "finish"
  /\ result' = Summary
  /\ completed' = run
  /\ stage' = "idle"
  /\ UNCHANGED <<run, replayVars, rows, counts, lake, goldVars>>

-----------------------------------------------------------------------------
\* What a directory may hold after a step on its files was cut short.
LeftBehind(d) ==
  CASE stage = ClearOf[d] -> SUBSET lake[d]
    [] stage = WriteOf[d] -> {lake[d] \cup part : part \in SUBSET rows}
    [] OTHER -> {lake[d]}

\* A call raises, or the process dies.
Fail ==
  /\ stage # "idle"
  /\ stage' = "idle"
  /\ rows' = {}
  /\ \E q \in LeftBehind("quarantine"), b \in LeftBehind("bronze"),
        w \in LeftBehind("windows") :
       lake' = [quarantine |-> q, bronze |-> b, windows |-> w]
  /\ CASE stage = "purge" -> dataFiles' \in SUBSET dataFiles
       [] stage \in {"create", "append_first", "append_rest"} ->
            dataFiles' \in {dataFiles, dataFiles \cup {run}}
       [] OTHER -> UNCHANGED dataFiles
  /\ IF stage = "finish" THEN result' \in {result, Torn} ELSE UNCHANGED result
  /\ UNCHANGED <<run, replayVars, counts, warehouse, iceberg, completed>>

Steps ==
  \/ ReplayReturns
  \/ \E d \in Dirs : Drain(d) \/ Clear(d) \/ Write(d)
  \/ RunProcessor \/ RunDbt
  \/ DropTable \/ Purge \/ CreateTable \/ AppendFirst \/ AppendRest
  \/ Finish

Next == StartRun \/ Deliver \/ DeliverFails \/ Steps \/ Fail

Spec == Init /\ [][Next]_vars

\* Every call of the run returns or raises: each wait in it has a timeout.
FairSpec == Spec /\ WF_vars(Steps)

-----------------------------------------------------------------------------
Stages ==
  {"idle", "replay", "process", "dbt", "drop", "purge", "create",
   "append_first", "append_rest", "finish"}
    \cup Range(DrainOf) \cup Range(ClearOf) \cup Range(WriteOf)

TypeOK ==
  /\ run \in 0..MaxRuns /\ completed \in 0..run
  /\ stage \in Stages
  /\ fixture \in Seq(Events) /\ queue \in Seq(Events) /\ failures \in Nat
  /\ DOMAIN topics = TopicNames /\ DOMAIN lake = Dirs
  /\ \A t \in TopicNames \ {"metrics"} : topics[t] \in Seq(Events)
  /\ stage \in {ClearOf["bronze"], WriteOf["bronze"]} => rows \subseteq Stored
  /\ lake["bronze"] \subseteq Stored
  /\ warehouse \subseteq GoldRows
  /\ iceberg # NoTable => iceberg \in Seq(SUBSET GoldRows) /\ Len(iceberg) <= 2
  /\ dataFiles \subseteq 1..run

Sinking == stage \notin {"idle", "replay"}

\* replay's gate (replay.py:125-131): past it the topics of the run hold every
\* event of the fixture once, in order, each in the topic of its kind: the k-th of
\* a topic's events is its k-th message.  They do although messages fail after
\* flush() has stopped counting them.
ReplayComplete ==
  Sinking =>
    \A t \in TopicNames \ {"metrics"} :
      /\ Len(topics[t]) = Cardinality(Bound(fixture, t, Len(fixture)))
      /\ \A i \in Bound(fixture, t, Len(fixture)) :
           topics[t][Cardinality(Bound(fixture, t, i))] = fixture[i]

\* A run that goes on to bronze has landed all its rejects and nothing else, so
\* a truncated quarantine drain is never passed over (pipeline.py:82-85).
RejectsLanded ==
  Sinking /\ stage \notin {DrainOf["quarantine"], ClearOf["quarantine"],
                           WriteOf["quarantine"]}
    => lake["quarantine"] = Tag({e \in ToSet(fixture) : e.kind = "reject"})

\* The gold rows of all snapshots of the Iceberg table.
TableRows == IF iceberg = NoTable THEN {} ELSE UNION Range(iceberg)

\* Rows of two runs never lie in one directory, not after a crash in the middle
\* of a clear or a write either (bronze.py:95-98, windows.py:94-98), and neither
\* the gold mart nor the snapshots of the Iceberg table mix the rows of two runs,
\* although the table's directory may keep files of older ones (iceberg.py:54-72).
OneGeneration ==
  /\ \A d \in Dirs : \A r, s \in lake[d] : r.run = s.run
  /\ \A gold \in {warehouse, TableRows} :
       \A g, h \in gold : \A r \in g.from, s \in h.from : r.run = s.run

\* After a run that completed, whatever crashed runs came before it, the Iceberg
\* table is the gold mart of the bronze directory, and its first snapshot holds
\* the one-minute windows only (iceberg.py:49-80).
GoldFollowsBronze ==
  stage = "idle" /\ completed = run /\ run > 0 =>
    LET gold == Gold(lake["bronze"])
    IN /\ iceberg # NoTable
       /\ Current(iceberg) = gold
       /\ gold # {} => Head(iceberg) = OneMinute(gold)

\* The row of the catalog, with the run that made the table.
Catalog == [gen   |-> IF iceberg = NoTable THEN 0 ELSE Max(dataFiles),
            table |-> iceberg]

Table == INSTANCE VersionedTable WITH epoch <- run, catalog <- Catalog

\* Whatever fails in between, readers of the gold table see the versioned table:
\* a rebuild withdraws the old one as a whole, no run adds to the table of
\* another, and snapshots only grow (iceberg.py:54-72).
TableIsVersioned == Table!Spec

\* Every run ends, completed or not, although the broker may never answer.
PipelineEnds == (stage # "idle") ~> (stage = "idle")

\* pipeline.py:10-11: the lake outputs are "cleared each run", so the lake a
\* completed run leaves is its own.
LakeIsFresh ==
  stage = "idle" /\ completed = run =>
    \A d \in Dirs : \A r \in lake[d] : r.run = run
=============================================================================
