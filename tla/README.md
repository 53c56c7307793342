# Verification of Tickstream

Tickstream ingests crypto market data, publishes it to Kafka, folds it into
event-time windows, and builds a small lakehouse (bronze, silver, gold,
Iceberg) from it. This directory holds TLA+ models of that system, the TLC
configurations that check them, and TLAPS proofs about all of them: every safety
property of every model is a theorem, for any values of its constants.
Paths below are relative to the repository; `src/tickstream` is abbreviated to
`tickstream`.

Run a model with `tlc -config X.cfg M` and the proofs with
`tlapm M.tla` for SumTheorems and each module whose name ends in `Proofs`.

## 1. The system

| Component | State | Operations | What is hard about it |
|---|---|---|---|
| Live producer `tickstream/producer/service.py`, `backoff.py`, `exchanges/` | counters, backoff generator, the Kafka client's queue | connect, handle a frame, reconnect with backoff, stop | one asyncio task that blocks in `flush`, a sender thread, signals that cancel it at an `await`, two limits, a bounded queue |
| Normalizer `producer/normalize.py` | none | frame to events and rejects | one bad record among good ones, snapshots that repeat history |
| Publisher, Kafka helpers `producer/publisher.py`, `kafka_utils.py` | topics on the broker, client queue | `ensure_topics`, `publish_events`, delivery reports | several processes create the same topics; list and create are two requests |
| Replay `producer/replay.py` | client queue, `DeliveryCounter` | produce a fixture, flush, gate | a rejected message leaves the queue and `flush` cannot tell |
| Stream processor `processing/app.py` | consumed and committed offsets, watermarks, window store, state directory, output queue | one record, checkpoint, crash, restart, bounded stop | late records, a checkpoint of three parts without changelog topics, a state directory that is lost separately from the offsets |
| Reference `processing/metrics.py` | none | `compute_windows`, `closed_windows` | it is the oracle of two other implementations |
| Sinks `lake/bronze.py`, `lake/windows.py`, `quality/quarantine.py` | three Parquet directories | drain, clear, write | a drain may return any prefix; clear and write are separate |
| Pipeline `pipeline.py` | a run's topics, the lake, the summary | ten calls in sequence, again and again | failing between any two of them on fixed locations |
| Marts `lake/marts.py`, `dbt/models`, `dbt/macros` | silver and gold in DuckDB | dbt build | dedup, full outer join, three implementations of one aggregation |
| Gold table `lake/iceberg.py` | catalog row, snapshots, files | drop, purge, create, two appends | no step is atomic with the next |
| SLA and contract `quality/sla.py`, `contract.py` | none | measure, validate | the baseline re-implements silver's filters |
| Recorder `producer/record.py`, `recording.py` | a fixture file | record, rewrite, replay | fallback between exchanges; a window that must end a silent capture; the file is truncated first |
| Readers `query/duck.py`, `ui/dashboard.py`, `lake/iceberg.py` | a pinned metadata file | read gold, time travel, load the page | they load the table several times, without a lock, while it is rebuilt |
| CLI, config, logging, demo, consume helper | settings | start the others | nothing of their own |

How they interact: the producer, replay and publisher append to the raw and
quarantine topics; the processor consumes the raw topics and produces
`metrics.windowed`; the sinks drain topics into directories; dbt and
`materialize_gold` turn bronze into gold; the SLA, the dashboard and the query
layer read it. Live, the parts are containers that docker-compose restarts
(`restart: unless-stopped`, docker-compose.yml:98-112). Offline,
`run_pipeline` calls them in sequence in one process, in topics with a fresh
suffix.

What makes each part correct is stated by the properties of section 3; every
hazard of the code, at its line, is in `PROJECT.json`.

## 2. The modules

**WindowProcessor** is the processor. `Process` is one record passing through
the operators of its topic: the sum and the count are updated in the windows
that are still open, or `_on_late` reports it; the watermark of the record's
key moves; the windows of that key that reached `end + grace` are finalized,
queued and deleted (`closing_strategy="key"`). `ProcessFails` is the record
whose operands are null: `price * size` or `best_ask - best_bid` raises and
the application stops. A checkpoint is `CommitOffsets` (the producer has been
flushed) followed by `FlushState`, with a crash possible in between, because
`use_changelog_topics=False` leaves nothing to repair the window store from.
`Crash`, `LoseStateDir` (container recreated) and `Restart` are the rest of
its life; `IdleStop` is the end of a bounded run. `intact` is a history
variable: it is false from the first restart that pairs offsets and window
store of two checkpoints. Quix Streams itself is not in the repository; its
actions are modelled from how app.py configures it and are marked external in
the map. `OnTime` and `ClosedBy` say what the output should be from the log
alone, without the processor's state.

**LiveProducer** is `run_producer`. Between two awaits nothing else runs in
the task, so a frame is one step, and `Cancel` is enabled only where the task
awaits. Of the snapshots that repeat history only those of trades are skipped
(`Fresh`); a ticker snapshot is published like any quote, under an envelope that
is new and so makes it a new sub-record. The sender thread (`Deliver`, `DeliverFails`) runs at any time, also
while the task is blocked in `flush(5)` or `flush(10)`. A full local queue
ends the run in the middle of a frame (`BufferError` is caught nowhere). The
graceful end of a stream and the exception share the action `Reconnect`, as
they share the code. `factor` is the power `2.0 ** attempt` of the backoff
generator, which overflows above `FactorMax` and ends the run. The messages of a
frame are a sequence that is given by what is in it: `InOrder` is the one
ascending enumeration of a set of sub-records.

**Publisher** is several processes in `publish_events` on one broker. Listing
the topics and creating the missing ones are separate steps, the broker
answers every creation request by itself, and may answer after the client
stopped waiting.

**LakePipeline** is `run_pipeline` over one lake, run after run. `stage` is the
call the run is in, and `Fail` may end it in any of them: what a half-done
`rmtree` or write leaves on disk is any subset of what was there or should have
been. Drains return any prefix of each topic. `materialize_gold` is five
steps. Its purge ignores errors, so `Purge` may leave any of the old files, and
the run builds the new table beside them. Aggregated values are abstracted to the
set of rows a window was made from. `RunProcessor` abstracts the stream to one
symbol without grace and to which windows come out; it raises on a ticker without
quotes, as the operators of app.py do.

**GoldReaders** puts the readers of the gold table beside LakePipeline, which
it extends: a query over a DuckDB view, `time_travel` and a dashboard load are
lists of reads (`Reads`), and between two reads the pipeline takes any number
of steps, failures included. `Load` follows the catalog's row to a metadata
file and pins it; `Scan` reads the pinned files later, which a purge may have
removed, all or some of them, so that the scan raises, unless a table without
snapshots has no files to miss; `SnapshotFound` is the
look-up of a snapshot id of one load in the table of another. `Raise` is the
exception that ends the reader, which the dashboard turns into its demo.
`seen` and `quiet` are history variables for the properties.

**Recorder** is `record`, again and again over one fixture file, with the
`write_fixture` and `read_fixture` that it and replay use. A candidate may
refuse, fail half-way, send nothing, or send without end. The write truncates
the file first and proceeds line by line; a crash may leave a torn line. `Replay`
hands the lines to the client up to the one that does not parse, where it raises
before it has flushed.

**WindowFeed** and **VersionedTable** are abstract specifications, of what a
consumer of `metrics.windowed` and what a reader of the gold table may rely
on. WindowFeed: a window has no result, then one that never changes, until
state is lost (`healthy` becomes false). VersionedTable: a table belongs to the
epoch that created it, only that epoch commits to it, every snapshot keeps the
rows of the one before, and a later epoch withdraws the table as a whole.
WindowProcessor implements the first (`FeedIsWriteOnce`, the results of a
window being what was published of it, duplicates collapsed) and LakePipeline
the second (`TableIsVersioned`, the epoch being the run and the catalog the row
with the run whose files it points at).

**Marts** is the batch arithmetic: the silver and gold SQL, `compute_windows`,
the SLA baseline and the contract as operators over a bronze table that grows row
by row in any order. A quotient is a pair. Beside them stand the trade windows of
the stream (`StreamWindows`): a symbol's trades in the order of bronze, which is
that of their partition, with `Grace`, and without the trades that come late.
`Symbols` are the symbols that are configured when the contract is applied.

**MCWindowProcessor**, **MCLakePipeline**, **MCGoldReaders**, **MCRecorder** and
**MCMarts** give the constants their values. **WindowProcessorProofs**,
**LiveProducerProofs**, **PublisherProofs**, **LakePipelineProofs**,
**GoldReadersProofs**, **RecorderProofs** and **MartsProofs** hold the proofs,
**SumTheorems** what two of them need to know of sums over finite sets.

LakePipeline's `Gold` is the abstraction of Marts' `Gold` that keeps only which
rows make which window. Neither this nor the one between `RunProcessor` and
WindowProcessor is proved (section 7).

Operators whose name ends in `Mutant` are wrong variants of the definition
after them. No specification uses them; each shows that some property notices
that mistake.

## 3. The runs

| Run | Checks | Bounds, and why they are enough |
|---|---|---|
| ProcessorCrash | `TypeOK`, `ExactWindows`, `CommittedWindowsPublished`, `RecordsConserved`, `NeverOvercounted`, `OncePerIncarnation`, `VolumeExact`, `ClosedWindowsAppear`, `FeedIsWriteOnce` | one topic, one symbol, windows of width 2, grace 1, event times 0..4, three records, two crashes. A late record needs two records before it; losing state and resuming needs two crashes; a window, its grace and the first time after it fit in 0..4. Sizes 0 and 1 tell a window without volume from one with. |
| ProcessorTopics | `MatchesReference` | two topics, two symbols (symmetric), widths 1 and 2, null quotes, one crash, a bounded run. Two records per topic are enough for one symbol to close another's window if it could, and for one topic's checkpoint to commit the other's offsets. |
| ProcessorNullQuote | `NullOperandsSkipped` is violated | see section 6 |
| ProcessorLate | `MatchesReferenceAlways` is violated | see section 6 |
| Producer | `TypeOK`, `RoutedOnce`, `RawOrdered`, `PublishedAccounted`, `LimitsRespected`, `NoHotLoop`, `AlwaysReconnects`, `EndsAfterStop` | three sub-records of three kinds, frames of up to two, a queue of two (so it overruns), `max_messages` 2, `max_reconnects` 4 with five dropped connections, backoff 1, 2, 3 (capped), and a float that overflows after the third unproductive connection (`FactorMax` 4 in place of 2 ** 1023). |
| ProducerMalformed | `MalformedNeverFatal` is violated | see section 6 |
| PublishRace | `TypeOK`, `TopicsReady`, `RaceIsBenign` | two processes, two topics, any of which may exist already. |
| PipelineRuns | `TypeOK`, `ReplayComplete`, `RejectsLanded`, `OneGeneration`, `GoldFollowsBronze`, `PipelineEnds`, `TableIsVersioned` | two runs, so every state a failed or completed run leaves meets a second one; fixtures with two five-minute windows, with a reject, and one that silver drops entirely. |
| PipelineStale | `LakeIsFresh` is violated | see section 6 |
| GoldReaders | `NeverStale`, `TimeTravelConsistent`, `PanelsAgree` | one reader of any of the three kinds, again and again, beside two runs: a rebuild needs a table of an earlier run to replace, and a third would replace the second as the second did the first. Readers do not affect each other. One fixture that makes gold and one that leaves it empty, so a table without snapshots occurs. |
| Recorder | `TypeOK`, `ReplaysOneCapture`, `FixtureSurvives`, `RecordEnds` | two calls, two exchanges in any order, up to three messages, limits 1, 2 and none, one crash: the limit lies below what an exchange sends, a first capture can fail with messages, and a second call can find a file that a crash has cut. |
| MartsBuild | `GoldMatchesOracle`, `RedeliveryIdempotent`, `CompletenessIsFull`, `ContractGuardsGold`, `GoldAgreesWithStream` | every bronze table of up to four of eleven rows (of thirteen two never pass the schema): two configured symbols that share trade ids and one that is not configured, trades without id or size and of size zero, tickers without quotes, a crossed book, a price of zero; two window sizes and grace 1, with times that close a window, so that of three trades the last may be late. |

What the passing runs show:

- **Processor.** While state and offsets belong together, an emitted window
  holds exactly the records that came in time, whatever crashed and however
  often it is emitted again (`ExactWindows`); a window whose closing records
  are committed is already published (`CommittedWindowsPublished`); a consumed
  record is in a window or was reported late, not both (`RecordsConserved`);
  closed windows appear in the end (`ClosedWindowsAppear`). When state and
  offsets do not belong together counts can only be too small
  (`NeverOvercounted`): the order of the checkpoint is what ensures this.
  `OncePerIncarnation` bounds the duplicates consumers of `metrics.windowed`
  see, and `FeedIsWriteOnce` says they are harmless. Without late records the
  result is that of the reference (`MatchesReference`).
- **Producer.** Every sub-record of a handled frame is routed once and to its
  topic, whatever its siblings are; raw topics stay ordered and free of
  duplicates across reconnects; the reported count is the delivered, the
  failed and the still queued messages; a server that accepts and closes at
  once does not shrink the backoff; the process ends after a signal although
  the broker is away.
- **Publisher.** Losing the race for a topic fails nobody, and nothing is
  produced before the topics exist.
- **Pipeline.** Past the replay gate the topics hold the fixture exactly. A
  run that completes leaves gold and its two snapshots, which agree with the
  bronze directory whatever an earlier run left behind. Rows of two runs are
  never mixed in a directory of the lake, in the gold mart or in the snapshots of
  the table (`OneGeneration`); the table's directory may keep files of older
  runs, since the purge ignores its errors.
- **Readers.** A read returns what were the rows of the table at a moment since
  its reader began, or raises (`NeverStale`). `time_travel` may load snapshot
  ids, the table and the snapshot from different generations, but then the
  look-up of the id fails; when it answers, both row sets are of one
  generation (`TimeTravelConsistent`). A dashboard load that no run disturbs is
  live exactly when there is a table with rows and a summary that parses; all its
  gold panels are then of one table, the summary is that of the last run that
  completed, and if no run has failed since, its counts are those of the table
  (`PanelsAgree`). With a run in between, the gold panel and the time-travel
  panel may be of different runs; nothing in the code promises otherwise.
- **Recorder.** A call never captures more than its limit (`TypeOK`). Whatever is
  cut short, a replay hands the client the beginning of one
  capture of one exchange (`ReplaysOneCapture`): a crash in the rewrite can lose
  messages, never mix captures. A call that fails, finds nothing, or dies before
  it has messages leaves the fixture as it was (`FixtureSurvives`), and every
  call ends, also with an exchange that accepts and sends nothing.
- **Marts.** The SQL, `compute_windows` and the SLA's pandas baseline compute
  the same windows, and a trade that lands again changes nothing in gold, behind
  all rows, where it is appended, or before any of them. What silver keeps can
  break the batch contract by its symbol only, which silver does not look at, and
  what else the contract rejects are trades that silver has dropped
  (`ContractGuardsGold`). A window the stream publishes is in gold, which adds to
  it the trades that were late (`GoldAgreesWithStream`). `CompletenessIsFull` cuts both ways: as the SLA measures gold against the
  bronze that was landed, a drain that ends too early is not visible in it.

Deadlock is not checked. Every run stops where its bounds are used up, and
the producer, the publisher, the recorder and a bounded processor really end.

### Fairness

- *WindowProcessor*: weak fairness of `Process`, `ProcessFails` (the consumer
  keeps polling), `Deliver` (the client's thread keeps sending, the broker
  answers), `FlushState` (a checkpoint under way is finished unless the process
  is killed) and `Restart` (`restart: unless-stopped`). None of `CommitOffsets`:
  no property needs checkpoints to happen.
- *LiveProducer*: weak fairness of what has a timeout: `flush(5)`, `flush(10)`,
  the backoff sleep and the opening handshake. None of the sender thread, the
  broker or the exchange, so the liveness properties hold with all of them
  away.
- *LakePipeline*: weak fairness of the run's own steps; `flush(30)`, the drain
  deadlines and `bounded_timeout` end every wait. None of the broker.

- *Recorder*: weak fairness of the next candidate, of the end of the window
  (`asyncio.timeout`) and of the file system. None of the exchange.
- *GoldReaders* has no liveness property and no fairness.

## 4. The proofs

WindowProcessorProofs proves, for all topics, symbols, widths, grace and
bounds: `TypeCorrect`, `ProcessorNeverOvercounts`, `ProcessorNullMetric`,
`ProcessorEmitsExactWindows`, `ProcessorLosesNoWindow`,
`ProcessorConservesRecords`, `ProcessorMatchesReference`, and `InvHolds`, the
invariant they follow from; then `ProcessorSumsExactly`,
`ProcessorEmitsOncePerIncarnation` and `ProcessorImplementsFeed`. The only
assumptions are those of `ConstantsAssumption`, which TLC evaluates in every run
of the module.

    Inv == TypeOK /\ SafeInv /\ (intact => IntactInv)

`SafeInv` needs nothing of the crashes: offsets are ordered (saved, committed,
consumed, end of log), the members of a window are its records, the count is
their number and the sum is zero only if all of them are zero, in the window
store, in the saved store and in the outputs. It gives `NeverOvercounted` and
`NullMetricMeansNoVolume`. That a record is not folded in twice depends on
`saved.pos <= committed`, the order of the two halves of a checkpoint.

`IntactInv` says what state and offsets have to do with each other: the
watermark is the largest event time among the consumed records, an open window
holds `OnTime` of them, a closed one is gone, and the same of the saved store
at the committed offsets unless the process is between the halves of a
checkpoint; every window that is closed at the committed offsets is in
`metrics`, every one closed at the consumed offsets in `metrics` or the queue;
only late records are reported late. None of the properties is inductive alone:
`ExactWindows` says nothing of a window that is still open, and
`CommittedWindowsPublished` nothing of the queue that a crash empties. The step that
carries the weight is `ProcessWindow`, what one record does to one window; and
for `Produce`, `ClosedForGood`: a record appended to the log belongs to no
window that is closed already.

`SafeInv` knows of a sum only when it is zero. `VolumeInv` says it in full: in
the store, in the saved store and in every output, queued or published, the sum
is that of the values of the members. The step is that one record adds its value
to the sum of a set it is not in, which SumTheorems states for any finite set;
that it is not in the set yet is `SafeInv` again. With `ExactWindows` it gives
`VolumeExact`.

`OncePerIncarnation` needs an invariant that does not mention `intact`, for the
bound has to hold also when state and offsets have been torn apart. `OnceInv`
says that a window that has expired by the store's own watermark is not in the
store, that the same is true of the saved store and the saved watermark, and
that a window has been emitted at most `crashes + 1` times, the last of them only
if it has expired by now. So emitting needs a window that is in the store, which
therefore had not expired, so that it has been emitted `crashes` times at most.

The same module proves that the processor implements WindowFeed
(`ProcessorImplementsFeed`). From `Inv` it follows that, while `intact`, two
published outputs of a window have the same members, hence the same count and
the same metric (`InvSingleResult`); and no step takes a published output back
(`PublishedGrows`). A step of the processor is then a report of windows without
a result, a degradation, or a stutter.

PublisherProofs proves every property of the run PublishRace for any number of
processes, topics and events. Its invariant adds to them that a future which
says a topic is there is right about it, also for the topics that a client saw
in the list and did not ask for (`AnswersTrue`); that two futures never both
say "created" (`OneCreator`), so `ensure_topics`, which returns what its futures
said (`CreatedOwn`), reports a topic to one caller at most (`TopicCreatedOnce`);
and that queue and delivery reports add up to the events (`EventsAccounted`),
which also bounds the counters in `TypeOK` and gives `ReportsForAllEvents`.

LakePipelineProofs proves `PipelineTypes`, `RunsNeverMix` and
`PipelineImplementsTable` for all fixtures and any number of runs, each failing
anywhere. The invariant:

    Inv == TypeOK /\ Started /\ SinkInv /\ OneRunPerDirectory /\ OneRunInGold
             /\ TableInv /\ SnapshotInv

`OneGeneration` is not inductive: it does not say that a sink which is about to
write finds its directory empty, nor that the rows it holds are of this run
(`SinkInv`), and these are what a clear that was cut short could break.
`TableInv` relates catalog and files: a table has files beside it, none of this
run until `materialize_gold` has dropped it and created the next one, whose files
are of this run; those of older runs may lie beside them. Between drop and create
there is no table. `SnapshotInv` says that the rows of its snapshots are of one
run, and while they are appended of the mart that was just built. That is why
a drop maps to `Withdraw`, `CreateTable` to `Create`, an append with rows to
`Commit`, and everything else, failures and what they leave in the directory
included, to a stutter. The type of the rows has to be carried from the topics
to the table for one reason: a table with rows must differ from `NoTable`, which
`ConstantsAssumption` assumes of no table of gold rows.

The same module proves what a run that goes through achieves, with one conjunct
per stage. `BuildInv` says which part of `materialize_gold` is done: from the dbt
build on, the warehouse is the gold of the bronze directory, before the second
append the table holds the one-minute part of it (or nothing, if there is none),
and before the summary all of it. `HeadInv` says that in any table that has a
snapshot the first is the one-minute part of the current one. Both together give
`GoldIsBronzes`. `GateHolds` needs to know what the broker has while messages
are still under way: the client's queue is the rest of the fixture, and if
nothing has failed so far each topic holds the records for it among those
produced before, in their order (`GateInv`). `RejectsAreLanded` follows from
the gate and from the reconciliation of `land_quarantine`: the rows a drain
returned are rejects of this run, so as many as the fixture has are all of them
(`RejectInv`).

GoldReadersProofs proves `NeverStale`, `TimeTravelConsistent` and `PanelsAgree`
for any number of runs. It first shows that the composition implements the
pipeline's specification (`ReadersOnlyRead`), so the invariants of
LakePipelineProofs hold beside readers. The rest stands on the refinement: the
versioned table only moves forward, from a table to a longer one of the same
epoch, or to one of a later epoch. `SeenInv` says that every table a reader has
seen is behind the catalog in that order; since snapshots are only ever added to
a generation, whatever a pinned metadata file lists is still part of the table
while the epoch is the same, and what a scan finds of it is the rows of a table
that existed since the reader began, or the scan raises. `PinInv` and `TravelInv`
keep what a reader has read so far, by the reads still to do; `QuietInv` relates
an undisturbed dashboard to the table and the summary, which is that of the last
run that completed unless it is torn (`ResultInv`).

RecorderProofs proves the safety properties of the run Recorder for any
exchanges, limits, streams and number of calls and crashes. Its invariant says
that the captured messages are the current candidate's, numbered from the first
one (`CaptureInv`: what the exchange before it sent is dropped), and that the
file is the beginning of one recording with at most its last line torn, and
while it is being written the beginning of the capture (`FileInv`).

LiveProducerProofs proves every safety property and the action property of the
run Producer, for frames, queues and streams of any size, any limits, and any
number of dropped connections:

    ProducerInv == TypeOK /\ KnownInv /\ OrderInv /\ RoutedInv /\ LimitInv
                     /\ BackoffInv /\ QueueInv /\ PublishedAccounted

`RawOrdered` speaks of the broker's topics, and is not inductive: the order is
made where messages join the queue. `OrderInv` adds that, per topic, the queue is
ascending and everything that has left it is below what is in it, and that no
message has both arrived and failed; `KnownInv` that all messages are about
sub-records the exchange has sent, so that a new frame is above all of them,
and in the topic of their kind. `RoutedInv` is the converse: whatever was handled
is somewhere. Together they make `Copies` one or zero. What a frame adds is a
lemma of its own (`OutgoingIs`), and so is the beginning of it that fits into a
queue that overruns (`PrefixIs`). Skipping snapshots is what the step needs:
their sub-records would be below the last ones. `NoHotLoop` follows from
`2 * ceiling <= Base * factor` (`BackoffInv`): the delay that comes next may be
twice the last one.

MartsProofs proves the five properties of the run MartsBuild, for any rows,
labels, widths and length of the bronze table. The state adds little to it: the
only invariant is that the table holds rows that passed `BasicContract`
(`MartsLandOnlyEvents`). The rest is about operators that add up, count and
fold, and the difficulty is induction, as the library's induction theorems take
an operator that the provers cannot instantiate. SumTheorems therefore states
induction over the subsets of a finite set for a claim that is given as a set,
the set of the subsets it holds of (`SubsetInduction`, from the well-foundedness
of the strict subset order), and the same for numbers (`SetInduction`). From
them it follows that `SumFunction` is the sum whichever element the fold takes
first, that a sum may be split at any element, and that it is the same along a
bijection. On these rest:

- `SlaCompleteness`. `OneIsKept`: of the rows of one trade the dedup keeps one,
  as its order has a least element in every finite set; by `TradeIdsAssumption`
  that one is in the window of those it replaces, so silver and the SLA's
  baseline have the same windows, and the outer join has one row for each
  (`GoldRows`).
- `ContractProtectsGold`. A row silver keeps passes the batch contract if its
  symbol is configured, a ticker fails it for no other reason, a sum of
  spreads that are not negative is not negative, and a sum of price times size
  is zero only if every size is.
- `RedeliveryChangesNoGold`. Silver after the redelivery is silver before it with
  the row numbers behind the copy shifted: the second copy comes later in the order of the dedup
  than the row it repeats, so what is kept is the same. `Embeds` is that shift as
  an injection that keeps the columns gold reads, and `EmbeddedGold` says that
  two tables related by one have the same gold.
- `GoldIsTheOracle`. `compute_windows` is a fold over a sequence that updates one
  accumulator per event, gold is a sum per bucket. `PassIs` says by induction on
  the length of the sequence that the accumulator of a bucket is the totals of
  the events in it; `Enumerated` is a bijection between the events and the rows
  of silver, so the totals are those of gold.
- `GoldIsTheStream`. When every trade is usable and comes once, silver drops none
  of them (`SilverKeepsAll`), so the trades of a window in gold are those the
  stream counted and those that were late; a sum over both parts is the sum of the
  two (`LateAddsUp`, from `SumSplit`).

The assumptions are `ConstantsAssumption`, `NullAssumption` (a null is neither a
number nor a quotient) and, for `SlaCompleteness` only, `TradeIdsAssumption`; TLC
evaluates all three in the run MartsBuild.

Only model-checked: the liveness properties `ClosedWindowsAppear`,
`AlwaysReconnects`, `EndsAfterStop`, `PipelineEnds` and `RecordEnds`, because
liveness under fairness is out of the prover's reach; and the four runs of
section 6, which are counterexamples.

## 5. Abstractions and assumptions

- A raw topic has one partition (`default_partitions` in config.py).
- Bronze holds a symbol's trades in the order of their partition, which is the one
  the stream consumes them in.
- Event times are small integers and never negative. Numbers are integers;
  decimal and float rounding, timestamp parsing, latency percentiles and the
  out-of-order count are not modelled.
- A trade id names one trade of one symbol, the contract that
  dbt/tests/assert_silver_trades_unique_trade_id.sql states: what comes again
  under the same id and symbol has the same event time (`TradeIdsAssumption`).
  Silver does not look at the exchange, so two exchanges that use one id for one
  symbol break it; then silver has fewer windows than the SLA expects.
- The idempotent producer delivers a message once and in order, or fails it.
- `measure_sla`, `wait_for_broker` and `end_offset_total` only read; the pacing
  of a replay does not change what is produced.
- Snapshot ids, metadata files and data files have names that are never used
  again (pyiceberg draws them at random), so a generation of the table stands
  for its names.
- The recorder's messages are numbered; a line of the fixture is whole, torn or
  absent.

### Not modelled

- The demo, CLI, configuration and logging: they start the other parts or format
  text and keep no state.
- `consume.py`: the sinks' drain loop with a message limit, used by the demo. The
  timing inside a drain (idle time, deadline, group join) is abstracted to "any
  prefix", which contains every outcome.
- The page of the dashboard, the texts of the SQL queries in `duck.py`, and the
  pacing of a replay: they change no state.
- Number, timestamp and symbol parsing in the normalizers, the subscription
  messages of the clients, the latency percentile of the SLA and the out-of-order
  count of the contract: single-step arithmetic that unit tests reach.

## 6. Where the code and its words part

Shown by a run, and listed as findings in `PROJECT.json`:

- *ProcessorNullQuote.* app.py:14 says the aggregation matches metrics.py
  exactly. metrics.py skips an event with a null operand; the stream raises on
  it, restarts, reads it again, and publishes nothing more.
- *ProcessorLate.* metrics.py:138-139 says closed windows are exactly what the
  stream emits. They are when nothing is late; late records are in the
  reference and not in the stream.
- *ProducerMalformed.* service.py:10-11 says a malformed message never crashes
  the stream. One that is no JSON object of the expected shape raises what is
  not in `NORMALIZE_ERRORS`.
- *PipelineStale.* pipeline.py:10-11 says lake outputs are cleared each run.
  `write_bronze` and `land_windows` return before they clear when a drain
  yields nothing, and gold is then built from an earlier run.

Met while modelling, without a run of their own:

- publisher.py:40 says that `flush` waits until all messages are acknowledged.
  A rejected message has left the queue too, and `publish_events` returns.
  The theorem `ReportsForAllEvents` says what does hold.
- assert_gold_vwap_positive.sql:1 says a window with trades has a positive
  VWAP. A window whose trades all have size zero, which schema and silver
  accept, has none, and `dbt build` fails; `ContractGuardsGold` says that this
  is the only such case.
- gold_window_metrics.sql:4-5 says gold and the stream agree window for
  window. They do where no trade of a window is late and none is delivered twice:
  the stream drops late trades, which gold counts (`GoldAgreesWithStream` says by
  how much they differ), and counts duplicates, which silver removes.
- contract.py:63 rejects symbols that are not configured; silver has no such
  filter, so windows of a symbol that was taken out of the configuration stay in
  gold as long as bronze has its events.
- A gold table without rows has no snapshot, and the summary says 1.
- service.py:6-7 has every connection that ends go through the reconnect path.
  `factor**attempt` (backoff.py:31) is a float power: the 1025th delay in a row
  without a productive connection raises `OverflowError`, cap or not, after
  about four hours at delays of 15 s on average. Nothing catches it, so a
  producer without `max_reconnects` ends (outcome "overflow"); under
  docker-compose it is restarted.

## 7. Plan

Every part of the system that keeps state is modelled, and all safety properties
that the runs check are theorems. What could be added:

1. `consume.py` as a module: a drain with its idle time, deadline and message
   limit, shown to implement the "any prefix" that LakePipeline assumes.
2. Two exchanges in Marts without `TradeIdsAssumption`: which windows the SLA
   then misses.
3. The remaining steps between the abstractions: that a prefix of each topic
   gives LakePipeline's `RunProcessor` what WindowProcessor emits at the end of a
   bounded run.
