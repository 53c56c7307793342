---------------------------- MODULE GoldReaders ----------------------------
(***************************************************************************)
(* The readers of the gold Iceberg table beside the pipeline that rebuilds *)
(* it: query_gold and read_gold, time_travel (src/tickstream/query/duck.py)*)
(* and the dashboard (src/tickstream/ui/dashboard.py).  Nothing locks the  *)
(* table: a reader loads the catalog's row, which pins a metadata file,    *)
(* and scans the data files that file lists later.  In between a run may   *)
(* drop the table, purge its directory and build another one.              *)
(*                                                                         *)
(* A reader is the list of its reads still to do.  Metadata and data files *)
(* have names that are never used again, so a pinned table is its          *)
(* generation (the run that made it) and its snapshots, and a scan returns *)
(* the pinned rows or raises.                                              *)
(***************************************************************************)
EXTENDS LakePipeline

CONSTANT Unread   \* the value of a read not made yet

VARIABLES
  kind,     \* the reader: what kind it is,
  todo,     \* ... the reads it has not made,
  pin,      \* ... the table it loaded last,
  got,      \* ... what it has read,
  raised,   \* ... whether an exception ended it
  seen,     \* the tables the catalog has had since the reader began
  quiet     \* no step of the pipeline since the reader began

reader == <<kind, todo, pin, got, raised>>
readerVars == <<reader, seen, quiet>>

\* What each reader reads, in order.  "load" loads the table and is followed by
\* a scan of it; "snaps" loads it for its snapshot ids only.
Reads ==
  [query       |-> <<"load", "gold">>,
   time_travel |-> <<"snaps", "load", "current", "load", "first">>,
   dashboard   |-> <<"load", "gold", "snaps", "result",
                     "load", "current", "load", "first">>]

Nothing == [x \in {"gold", "snaps", "result", "current", "first"} |-> Unread]

ReadersInit ==
  /\ Init
  /\ kind = "query" /\ todo = <<>> /\ pin = Unread /\ got = Nothing /\ raised = FALSE
  /\ seen = {} /\ quiet = FALSE

-----------------------------------------------------------------------------
Begin(k) ==
  /\ todo = <<>>
  /\ kind' = k /\ todo' = Reads[k]
  /\ pin' = Unread /\ got' = Nothing /\ raised' = FALSE
  /\ seen' = {Catalog}
  /\ quiet' = TRUE

Turn(step) == todo # <<>> /\ Head(todo) = step

Got(x, value) ==
  /\ got' = [got EXCEPT ![x] = value]
  /\ UNCHANGED <<kind, pin, raised>>

\* The exception ends the reader; load_data turns it into the demo.
Raise ==
  /\ todo' = <<>> /\ raised' = TRUE
  /\ UNCHANGED <<kind, pin, got>>

\* Mutant: the version is guessed from the files of the directory.
PinnedMutant ==
  {[gen |-> g, table |-> t] :
     g \in dataFiles, t \in IF iceberg = NoTable THEN {} ELSE Prefixes(iceberg)}

\* load_table follows the metadata_location of the catalog's row.
Pinned == IF iceberg = NoTable THEN {} ELSE {Catalog}

Load ==
  /\ Turn("load")
  /\ IF Pinned = {} THEN Raise
     ELSE pin' \in Pinned /\ todo' = Tail(todo) /\ UNCHANGED <<kind, got, raised>>

\* gold_snapshots.  Without a snapshot there is no first one to read.
ListSnapshots ==
  /\ Turn("snaps")
  /\ IF iceberg = NoTable THEN Raise
     ELSE /\ Got("snaps", Catalog)
          /\ LET rest == Tail(todo)
             IN todo' = IF iceberg = <<>> THEN SubSeq(rest, 1, Len(rest) - 2) ELSE rest

\* Mutant: the dashboard takes an empty table for a live one.
UsableMutant(gold) == TRUE

\* _load_live raises on an empty gold table.
Usable(gold) == kind = "dashboard" => gold # {}

\* to_arrow reads no file of a table without snapshots; DuckDB's query reads the
\* pinned metadata file.
Readable == pin.gen \in dataFiles \/ (pin.table = <<>> /\ kind # "query")

\* The files of a table that was dropped may be gone, or some of them.
Scan(x) ==
  /\ Turn(x)
  /\ LET gold == Current(pin.table)
     IN \/ /\ Readable
           /\ IF x = "gold" /\ ~Usable(gold) THEN Raise
              ELSE Got(x, gold) /\ todo' = Tail(todo)
        \/ /\ pin.gen # Catalog.gen
           /\ Raise

\* Mutant: the first snapshot of whatever table is there now.
SnapshotFoundMutant(id) == pin.table # <<>>

\* "Snapshot not found" when the id is not one of the pinned table's.
SnapshotFound(id) == pin.gen = id.gen

\* read_gold(snapshot_id=snaps[0]).
ScanFirst ==
  /\ Turn("first")
  /\ LET found == SnapshotFound(got.snaps)
     IN \/ /\ found /\ pin.gen \in dataFiles
           /\ Got("first", Head(pin.table)) /\ todo' = Tail(todo)
        \/ /\ ~found \/ pin.gen # Catalog.gen
           /\ Raise

\* The summary, if there is one; json.loads raises on one that is cut short,
\* and while the pipeline is writing it.
ReadResult ==
  /\ Turn("result")
  /\ \/ result # Torn /\ Got("result", result) /\ todo' = Tail(todo)
     \/ (result = Torn \/ stage = "finish") /\ Raise

ReaderStep ==
  /\ \/ Load \/ ListSnapshots \/ ScanFirst \/ ReadResult
     \/ \E x \in {"gold", "current"} : Scan(x)
  /\ UNCHANGED <<seen, quiet>>

\* A step of the pipeline, which knows nothing of readers.
PipelineStep ==
  /\ Next
  /\ seen' = IF todo = <<>> THEN seen ELSE seen \cup {Catalog'}
  /\ quiet' = FALSE
  /\ UNCHANGED reader

ReadersNext ==
  \/ (\E k \in DOMAIN Reads : Begin(k)) /\ UNCHANGED vars
  \/ ReaderStep /\ UNCHANGED vars
  \/ PipelineStep

ReadersSpec == ReadersInit /\ [][ReadersNext]_<<vars, readerVars>>

-----------------------------------------------------------------------------
\* A scan returns what were the current rows of the table at some moment since
\* its reader began: never two generations, nor a version older than the reader
\* (duck.py:54, iceberg.py:54-56).
NeverStale ==
  \A x \in {"gold", "current"} :
    got[x] # Unread =>
      \E t \in seen : t.table # NoTable /\ got[x] = Current(t.table)

\* When time travel answers, the first snapshot is the one-minute part of the
\* current table, although the two are loaded separately and the table may be
\* rebuilt between them: a rebuild in between makes the last read raise
\* (duck.py:80-93, dashboard.py:47-56).
TimeTravelConsistent ==
  got.first # Unread =>
    /\ got.current # {}
    /\ got.first = OneMinute(got.current)

\* A dashboard load during which no run was under way and none began is live
\* unless there is no table, no gold or only the torn summary of a run that was
\* killed.  Its panels are then of one table and of the last run that completed,
\* which is the run of the table, with the counts it reports, unless a later run
\* failed (dashboard.py:38-75).
PanelsAgree ==
  (kind = "dashboard" /\ todo = <<>> /\ quiet /\ stage = "idle") =>
    IF iceberg = NoTable \/ Current(iceberg) = {} \/ result = Torn THEN raised
    ELSE /\ ~raised
         /\ got.gold = Current(iceberg) /\ got.current = got.gold
         /\ got.snaps = Catalog /\ got.result.run = completed
         /\ completed = run =>
              /\ got.result.gold = Cardinality(got.gold)
              /\ got.result.snapshots = Len(got.snaps.table)
=============================================================================
