-------------------------- MODULE WindowProcessor --------------------------
(***************************************************************************)
(* The stream processor of src/tickstream/processing/app.py: a Quix        *)
(* Streams application that folds the records of the raw topics into       *)
(* event-time tumbling windows per symbol, emits every window once it has  *)
(* closed to metrics.windowed, drops the records that arrive after their   *)
(* window closed, and is restarted by docker-compose when it dies.         *)
(*                                                                         *)
(* The raw topics have one partition each (config.py, default_partitions), *)
(* so a topic is one log read at one offset.  The window operator and the  *)
(* checkpoint belong to Quix Streams and are modelled from the way app.py  *)
(* configures them: .final(closing_strategy="key"), on_late, at-least-once *)
(* processing and use_changelog_topics=False.                              *)
(*                                                                         *)
(* A checkpoint first flushes the producer, then commits the offsets, then *)
(* flushes the window state to disk.  Without changelog topics nothing     *)
(* repairs the state when the process dies between the last two steps, or  *)
(* when the container's state directory is lost: `intact' remembers        *)
(* whether every restart so far found state and offsets of the same        *)
(* checkpoint.                                                             *)
(***************************************************************************)
EXTENDS Integers, Sequences, FiniteSets, Functions

CONSTANTS
  Topics,       \* the raw topics the processor consumes
  TradeTopics,  \* those of them that carry trades; the others carry tickers
  Keys,         \* message keys, i.e. symbols
  Labels,       \* window labels, "1m" and "5m" in the code
  Width,        \* the width of the windows of each label
  Grace,        \* how long a window accepts records after its end
  Sizes,        \* values a record can contribute (trade size, ticker spread)
  Null,         \* the value of a record one of whose operands is null
  NullTopics,   \* topics whose records may carry a null operand
  Bounded,      \* TRUE when run_processor was given a bounded_timeout
  MaxTs,        \* bound: event times are 0..MaxTs
  MaxLog,       \* bound: records per raw topic
  MaxCrashes,   \* bound: crashes and losses of the state directory
  MaxMetrics    \* bound: batches in metrics.windowed

ASSUME ConstantsAssumption ==
  /\ TradeTopics \subseteq Topics
  /\ NullTopics \subseteq Topics
  /\ Width \in [Labels -> Nat \ {0}]
  /\ Grace \in Nat
  /\ Sizes \subseteq Nat
  /\ Null \notin Nat
  /\ Bounded \in BOOLEAN
  /\ MaxTs \in Nat
  /\ MaxLog \in Nat
  /\ MaxCrashes \in Nat
  /\ MaxMetrics \in Nat

VARIABLES
  log,        \* [Topics -> Seq(Recs)]: the raw topics
  pos,        \* [Topics -> Nat]: records consumed by this incarnation
  wm,         \* latest event time seen, per topic and key
  acc,        \* the window store: the accumulator of each window
  dropped,    \* <<topic, offset, label>> reported by the on_late hook
  outbox,     \* batches of closed windows still in the producer's queue
  metrics,    \* batches of closed windows in metrics.windowed
  committed,  \* [Topics -> Nat]: offsets committed to the broker
  saved,      \* the state directory: [pos, wm, acc] of the last flush
  status,     \* what the process is doing
  crashes,    \* how often it was killed or lost its state directory
  intact      \* TRUE while no restart mixed two checkpoints

vars == <<log, pos, wm, acc, dropped, outbox, metrics, committed, saved,
          status, crashes, intact>>

-----------------------------------------------------------------------------
(* Records and windows.                                                    *)

Recs == [key : Keys, ts : 0..MaxTs, val : Sizes \cup {Null}]

\* Epoch-aligned tumbling window: floor(ts / W) * W.
WindowStart(ts, l) == ts - (ts % Width[l])

Windows ==
  UNION {[topic : Topics, key : Keys, label : {l},
          start : {WindowStart(ts, l) : ts \in 0..MaxTs}] : l \in Labels}

WindowEnd(w) == w.start + Width[w.label]

\* A window is expired once its key's watermark reaches end + grace.
Expired(w, latest) == latest >= WindowEnd(w) + Grace

\* The record is one of window w's, whether or not it comes in time.
InWindow(r, w) == r.key = w.key /\ WindowStart(r.ts, w.label) = w.start

WindowOf(t, r, l) ==
  [topic |-> t, key |-> r.key, label |-> l, start |-> WindowStart(r.ts, l)]

\* Count() and Sum() of the aggregation; `members' are the offsets folded in,
\* kept only to state properties.
Accs == [count : Nat, sum : Nat, members : SUBSET Nat]

NoAcc == [count |-> 0, sum |-> 0, members |-> {}]

\* Mutant: the sum keeps the last value only.
FoldMutant(a, i, v) ==
  [count |-> a.count + 1, sum |-> v, members |-> a.members \cup {i}]

Fold(a, i, v) ==
  [count |-> a.count + 1, sum |-> a.sum + v, members |-> a.members \cup {i}]

\* _finalize_trade_window / _finalize_ticker_window: a trade window without
\* volume has no VWAP.
Finalize(w, a) ==
  [win |-> w, count |-> a.count, sum |-> a.sum, members |-> a.members,
   metric |-> IF w.topic \in TradeTopics /\ ~(a.sum > 0)
              THEN "null" ELSE "value"]

Outputs == [win : Windows, count : Nat, sum : Nat, members : SUBSET Nat,
            metric : {"value", "null"}]

-----------------------------------------------------------------------------
(* One record through the window operators of its topic.  The operators    *)
(* take the topic t whose next record is processed.                        *)

Next1(t) == log[t][pos[t] + 1]

\* Mutant: the grace is taken off the watermark.
LatestMutant(t) == Next1(t).ts - Grace

\* The watermark of the record's key, its own time included.
Latest(t) ==
  LET r == Next1(t) IN IF r.ts > wm[t][r.key] THEN r.ts ELSE wm[t][r.key]

\* Mutant: a window that is gone is opened again for a late record.
LateLabelsMutant(t) == {}

LateLabels(t) == {l \in Labels : Expired(WindowOf(t, Next1(t), l), Latest(t))}

\* Mutant: the on_late hook reports the record, which is folded in as well.
FoldedMutant(t) ==
  [w \in Windows |->
     IF w.topic = t /\ InWindow(Next1(t), w)
     THEN Fold(acc[w], pos[t] + 1, Next1(t).val)
     ELSE acc[w]]

\* The window store after the record is folded into its windows.
Folded(t) ==
  [w \in Windows |->
     IF /\ w.topic = t
        /\ InWindow(Next1(t), w)
        /\ w.label \notin LateLabels(t)
     THEN Fold(acc[w], pos[t] + 1, Next1(t).val)
     ELSE acc[w]]

\* Mutant: closing_strategy="partition", any key's time closes every key's
\* windows.
ClosingMutant(t) ==
  {w \in Windows : /\ w.topic = t
                   /\ Folded(t)[w].count > 0
                   /\ Expired(w, Latest(t))}

\* closing_strategy="key": the windows of the record's key that have expired.
Closing(t) ==
  {w \in Windows : /\ w.topic = t
                   /\ w.key = Next1(t).key
                   /\ Folded(t)[w].count > 0
                   /\ Expired(w, Latest(t))}

-----------------------------------------------------------------------------
NoState == [pos |-> [t \in Topics |-> 0],
            wm  |-> [t \in Topics |-> [k \in Keys |-> 0]],
            acc |-> [w \in Windows |-> NoAcc]]

Init ==
  /\ log = [t \in Topics |-> <<>>]
  /\ pos = NoState.pos
  /\ wm = NoState.wm
  /\ acc = NoState.acc
  /\ dropped = {}
  /\ outbox = <<>>
  /\ metrics = <<>>
  /\ committed = NoState.pos
  /\ saved = NoState
  /\ status = "running"
  /\ crashes = 0
  /\ intact = TRUE

\* The producer appends a record: any symbol, any event time, out of order.
Produce(t, r) ==
  /\ Len(log[t]) < MaxLog
  /\ r.val = Null => t \in NullTopics
  /\ log' = [log EXCEPT ![t] = Append(@, r)]
  /\ UNCHANGED <<pos, wm, acc, dropped, outbox, metrics, committed, saved,
                 status, crashes, intact>>

\* One record: fold it or report it late, advance the watermark, emit and
\* delete the windows of its key that have expired.
Process(t) ==
  /\ status = "running"
  /\ pos[t] < Len(log[t])
  /\ Next1(t).val # Null
  /\ pos' = [pos EXCEPT ![t] = @ + 1]
  /\ wm' = [wm EXCEPT ![t][Next1(t).key] = Latest(t)]
  /\ acc' = [w \in Windows |->
               IF w \in Closing(t) THEN NoAcc ELSE Folded(t)[w]]
  /\ dropped' = dropped \cup {<<t, pos[t] + 1, l>> : l \in LateLabels(t)}
  /\ outbox' = IF Closing(t) = {} THEN outbox
               ELSE Append(outbox,
                           {Finalize(w, Folded(t)[w]) : w \in Closing(t)})
  /\ UNCHANGED <<log, metrics, committed, saved, status, crashes, intact>>

\* The producer's queue dies with the process, except for the part of its
\* first batch that the broker already has.
LoseQueue ==
  /\ outbox' = <<>>
  /\ \E part \in IF outbox = <<>> \/ Len(metrics) >= MaxMetrics THEN {{}}
                 ELSE SUBSET Head(outbox) :
       metrics' = IF part = {} THEN metrics ELSE Append(metrics, part)

\* price * size, or best_ask - best_bid, on a null operand raises: the
\* application stops without a checkpoint.
ProcessFails(t) ==
  /\ status = "running"
  /\ pos[t] < Len(log[t])
  /\ Next1(t).val = Null
  /\ status' = "down"
  /\ LoseQueue
  /\ UNCHANGED <<log, pos, wm, acc, dropped, committed, saved, crashes, intact>>

\* The client library delivers the oldest queued batch.
Deliver ==
  /\ status # "down"
  /\ outbox # <<>>
  /\ Len(metrics) < MaxMetrics
  /\ metrics' = Append(metrics, Head(outbox))
  /\ outbox' = Tail(outbox)
  /\ UNCHANGED <<log, pos, wm, acc, dropped, committed, saved, status,
                 crashes, intact>>

\* Mutant: the checkpoint does not wait for the producer's queue.
CommitOffsetsMutant ==
  /\ status = "running"
  /\ pos # committed
  /\ committed' = pos
  /\ status' = "checkpointing"
  /\ UNCHANGED <<log, pos, wm, acc, dropped, outbox, metrics, saved, crashes,
                 intact>>

\* First half of a checkpoint: the producer has been flushed, the consumed
\* offsets are committed.
CommitOffsets ==
  /\ status = "running"
  /\ pos # committed
  /\ outbox = <<>>
  /\ committed' = pos
  /\ status' = "checkpointing"
  /\ UNCHANGED <<log, pos, wm, acc, dropped, outbox, metrics, saved, crashes,
                 intact>>

\* Second half: the window stores are written to the state directory.
FlushState ==
  /\ status = "checkpointing"
  /\ saved' = [pos |-> pos, wm |-> wm, acc |-> acc]
  /\ status' = "running"
  /\ UNCHANGED <<log, pos, wm, acc, dropped, outbox, metrics, committed,
                 crashes, intact>>

\* A bounded run stops after its last checkpoint when nothing arrived for
\* bounded_timeout; a slow broker can make that happen before the log's end.
IdleStop ==
  /\ Bounded
  /\ status = "running"
  /\ pos = committed
  /\ status' = "stopped"
  /\ UNCHANGED <<log, pos, wm, acc, dropped, outbox, metrics, committed,
                 saved, crashes, intact>>

\* The process is killed.
Crash ==
  /\ status \in {"running", "checkpointing"}
  /\ crashes < MaxCrashes
  /\ crashes' = crashes + 1
  /\ status' = "down"
  /\ LoseQueue
  /\ UNCHANGED <<log, pos, wm, acc, dropped, committed, saved, intact>>

\* The container is recreated: its state directory is gone, the consumer
\* group's offsets are not.
LoseStateDir ==
  /\ status = "down"
  /\ crashes < MaxCrashes
  /\ crashes' = crashes + 1
  /\ saved' = NoState
  /\ UNCHANGED <<log, pos, wm, acc, dropped, outbox, metrics, committed,
                 status, intact>>

\* Mutant: the consumer resumes at the last record of the checkpoint.
RestartAgainMutant ==
  /\ status = "down"
  /\ pos' = [t \in Topics |-> IF committed[t] > 0 THEN committed[t] - 1 ELSE 0]
  /\ wm' = saved.wm
  /\ acc' = saved.acc
  /\ intact' = (intact /\ saved.pos = committed)
  /\ status' = "running"
  /\ UNCHANGED <<log, dropped, outbox, metrics, committed, saved, crashes>>

\* Mutant: the consumer resumes at the end of the topics ("latest").
RestartLatestMutant ==
  /\ status = "down"
  /\ pos' = [t \in Topics |-> Len(log[t])]
  /\ wm' = saved.wm
  /\ acc' = saved.acc
  /\ intact' = (intact /\ saved.pos = committed)
  /\ status' = "running"
  /\ UNCHANGED <<log, dropped, outbox, metrics, committed, saved, crashes>>

\* restart: unless-stopped.  The consumer resumes at the committed offsets
\* with the state found on disk.
Restart ==
  /\ status = "down"
  /\ pos' = committed
  /\ wm' = saved.wm
  /\ acc' = saved.acc
  /\ intact' = (intact /\ saved.pos = committed)
  /\ status' = "running"
  /\ UNCHANGED <<log, dropped, outbox, metrics, committed, saved, crashes>>

Next ==
  \/ \E t \in Topics, r \in Recs : Produce(t, r)
  \/ \E t \in Topics : Process(t) \/ ProcessFails(t)
  \/ Deliver
  \/ CommitOffsets
  \/ FlushState
  \/ IdleStop
  \/ Crash
  \/ LoseStateDir
  \/ Restart

Spec == Init /\ [][Next]_vars

\* The processor keeps consuming, checkpoints every few seconds, is restarted
\* whenever it is down, and the client library keeps sending.
Fairness ==
  /\ \A t \in Topics : WF_vars(Process(t)) /\ WF_vars(ProcessFails(t))
  /\ WF_vars(Deliver)
  /\ WF_vars(FlushState)
  /\ WF_vars(Restart)

FairSpec == Spec /\ Fairness

-----------------------------------------------------------------------------
(* What the output should be, stated on the logs alone.                    *)

\* Among the first n records of w's topic one of w's key closes w.
ClosedBy(w, n) ==
  \E j \in 1..n : /\ log[w.topic][j].key = w.key
                   /\ Expired(w, log[w.topic][j].ts)

\* The records of w among the first n that arrived before w was closed.
OnTime(w, n) ==
  {i \in 1..n : InWindow(log[w.topic][i], w) /\ ~ClosedBy(w, i)}

Published == UNION {metrics[b] : b \in DOMAIN metrics}

Queued == UNION {outbox[b] : b \in DOMAIN outbox}

-----------------------------------------------------------------------------
(* Properties.                                                             *)

TypeOK ==
  /\ log \in [Topics -> Seq(Recs)]
  /\ pos \in [Topics -> Nat]
  /\ wm \in [Topics -> [Keys -> Nat]]
  /\ acc \in [Windows -> Accs]
  /\ dropped \subseteq Topics \X Nat \X Labels
  /\ outbox \in Seq(SUBSET Outputs)
  /\ metrics \in Seq(SUBSET Outputs)
  /\ committed \in [Topics -> Nat]
  /\ saved \in [pos : [Topics -> Nat], wm : [Topics -> [Keys -> Nat]],
                acc : [Windows -> Accs]]
  /\ status \in {"running", "checkpointing", "down", "stopped"}
  /\ crashes \in 0..MaxCrashes
  /\ intact \in BOOLEAN

\* Every window record the processor emits, before or after a crash, the first
\* time or again, covers exactly the records that reached the topic before the
\* symbol's time passed the end of the window plus the grace: nothing missing,
\* no late record folded in, and no record that comes later can change it.
\* (app.py: tumbling_window(grace_ms, on_late).final(closing_strategy="key").)
ExactWindows ==
  intact =>
    \A o \in Published \cup Queued :
      /\ ClosedBy(o.win, Len(log[o.win.topic]))
      /\ o.members = OnTime(o.win, Len(log[o.win.topic]))
      /\ o.count = Cardinality(o.members)

\* Once the offsets of the records that close a window are committed, the
\* window is in metrics.windowed: no crash can lose it any more, although the
\* restarted processor will not read those records again.
CommittedWindowsPublished ==
  intact =>
    \A w \in Windows :
      (ClosedBy(w, committed[w.topic]) /\ OnTime(w, committed[w.topic]) # {})
        => \E o \in Published : o.win = w

\* A consumed record is accounted for in each window size: it is in the open
\* window or in an emitted one, or it was reported late, and then it is in
\* neither (README.md:132, "logged and dropped, never silently merged").  Open
\* and emitted at once only happens while a restarted processor replays.
RecordsConserved ==
  (intact /\ status # "down") =>
    \A t \in Topics, l \in Labels : \A i \in 1..pos[t] :
      LET w       == WindowOf(t, log[t][i], l)
          open    == i \in acc[w].members
          emitted == \E o \in Published \cup Queued :
                        o.win = w /\ i \in o.members
          late    == <<t, i, l>> \in dropped
      IN /\ open \/ emitted \/ late
         /\ ~(late /\ (open \/ emitted))

\* Even when a restart pairs the committed offsets with an older window store,
\* no record is counted twice in a window, and none in a window of another
\* symbol or time: lost state can only make counts too small.
NeverOvercounted ==
  \A o \in Published \cup Queued :
    /\ o.count = Cardinality(o.members)
    /\ \A i \in o.members : /\ i \in 1..Len(log[o.win.topic])
                            /\ InWindow(log[o.win.topic][i], o.win)

\* A window is emitted at most once per incarnation of the processor: without
\* a crash exactly-once, with n crashes at most n + 1 times
\* (tests/test_processing.py:67, "Each closed window must be emitted exactly
\* once").  Stated for topics without null operands, where only crashes stop
\* the processor.
OncePerIncarnation ==
  NullTopics = {} =>
    \A w \in Windows :
      LET batches == metrics \o outbox
      IN Cardinality({b \in DOMAIN batches : \E o \in batches[b] : o.win = w})
           <= 1 + crashes

\* The volume of every emitted window is the sum of the sizes of its on-time
\* records (app.py:154, agg.Sum), also after crashes.
VolumeExact ==
  intact => \A o \in Published \cup Queued :
    o.sum = SumFunction([i \in OnTime(o.win, Len(log[o.win.topic])) |->
                           log[o.win.topic][i].val])

\* A trade window has no VWAP exactly when all its trades have size zero.
NullMetricMeansNoVolume ==
  \A o \in Published \cup Queued :
    o.metric = "null" <=>
      /\ o.win.topic \in TradeTopics
      /\ \A i \in o.members : log[o.win.topic][i].val = 0

\* The reference of metrics.py: compute_windows buckets every event, and
\* closed_windows keeps the windows the watermark has passed.
ReferenceMembers(w) ==
  {i \in 1..Len(log[w.topic]) : InWindow(log[w.topic][i], w)}

ReferenceWindows ==
  {w \in Windows : /\ ReferenceMembers(w) # {}
                   /\ ClosedBy(w, Len(log[w.topic]))}

Drained == /\ \A t \in Topics : pos[t] = Len(log[t])
           /\ outbox = <<>>
           /\ status # "down"

NothingLate == \A w \in Windows : \A n \in 1..Len(log[w.topic]) :
                 InWindow(log[w.topic][n], w) => ~ClosedBy(w, n)

\* On a log without late records, the set of windows emitted once all records
\* are consumed, and the events in each, are those of the reference.
MatchesReference ==
  (intact /\ Drained /\ NothingLate) =>
    /\ {o.win : o \in Published} = ReferenceWindows
    /\ \A o \in Published : o.members = ReferenceMembers(o.win)

\* metrics.py:138-139 claims it of every log: the closed windows of the
\* reference are "exactly the set a streaming engine emits via .final()".
MatchesReferenceAlways ==
  (intact /\ Drained) =>
    /\ {o.win : o \in Published} = ReferenceWindows
    /\ \A o \in Published : o.members = ReferenceMembers(o.win)

\* A window some on-time record of which is in the topic, and which a later
\* record of the same symbol closes, is eventually published, whatever crashes
\* happen in between, unless window state was lost.
ClosedWindowsAppear ==
  \A w \in Windows :
    (ClosedBy(w, Len(log[w.topic])) /\ OnTime(w, Len(log[w.topic])) # {})
      ~> (~intact \/ \E o \in Published : o.win = w)

\* The results published for a window, the sum of sizes aside.
ResultsOf(w) ==
  {[count |-> o.count, members |-> o.members, metric |-> o.metric] :
     o \in {o \in Published : o.win = w}}

Feed == INSTANCE WindowFeed WITH
          results <- [w \in Windows |-> ResultsOf(w)],
          healthy <- intact

\* What a consumer of metrics.windowed sees is a write-once feed: crashes and
\* replays may publish a window again, never with another result (app.py:160,
\* .final()), until window state has been lost.
FeedIsWriteOnce == Feed!Spec

\* app.py:14 claims that the aggregation "matches tickstream.processing.metrics
\* exactly"; compute_windows skips an event with a null operand
\* (metrics.py:87-97), so a window with other on-time events must still appear.
NullOperandsSkipped ==
  \A w \in Windows :
    (/\ ClosedBy(w, Len(log[w.topic]))
     /\ \E i \in OnTime(w, Len(log[w.topic])) : log[w.topic][i].val # Null)
      ~> (~intact \/ \E o \in Published : o.win = w)
=============================================================================
