----------------------- MODULE WindowProcessorProofs -----------------------
(***************************************************************************)
(* Proofs about WindowProcessor, for every set of topics, symbols and      *)
(* window widths, every grace and every bound: its safety properties, and  *)
(* that it implements the write-once feed of WindowFeed.                   *)
(***************************************************************************)
EXTENDS WindowProcessor, SumTheorems, SequenceTheorems, FiniteSetTheorems, TLAPS

-----------------------------------------------------------------------------
(* The inductive invariant.                                                *)

\* Offsets: what is on disk is not ahead of what is committed, what is
\* committed not ahead of what was consumed, and nothing ahead of the log.
OffsetsOK ==
  \A t \in Topics : /\ saved.pos[t] <= committed[t]
                    /\ committed[t] <= pos[t]
                    /\ pos[t] <= Len(log[t])

PhaseOK ==
  /\ status = "checkpointing" => pos = committed /\ outbox = <<>>
  /\ status = "down" => outbox = <<>>

\* `members' are records of window w among the first n, and the aggregates
\* are those of the members.
CountsOK(w, n, members, count, sum) ==
  /\ IsFiniteSet(members)
  /\ count = Cardinality(members)
  /\ \A i \in members : /\ i \in 1..n
                        /\ InWindow(log[w.topic][i], w)
                        /\ log[w.topic][i].val \in Nat
  /\ sum = 0 <=> \A i \in members : log[w.topic][i].val = 0

StoreCountsOK(p, a) ==
  \A w \in Windows :
    CountsOK(w, p[w.topic], a[w].members, a[w].count, a[w].sum)

OutputOK(o) ==
  /\ CountsOK(o.win, Len(log[o.win.topic]), o.members, o.count, o.sum)
  /\ o.metric = "null" <=> o.win.topic \in TradeTopics /\ o.sum = 0
  /\ o.members # {}

OutputsOK == \A o \in Published \cup Queued : OutputOK(o)

\* The watermark m of a key is the largest of its event times among the first
\* n records.
WatermarkOK(t, k, n, m) ==
  /\ \A i \in 1..n : log[t][i].key = k => log[t][i].ts <= m
  /\ m = 0 \/ \E i \in 1..n : log[t][i].key = k /\ log[t][i].ts = m

\* Watermarks and window store are what the first p[t] records of each topic
\* make them: a closed window is gone, an open one holds its records.
StateOK(p, m, a) ==
  /\ \A t \in Topics : \A k \in Keys : WatermarkOK(t, k, p[t], m[t][k])
  /\ \A w \in Windows :
       a[w].members = IF ClosedBy(w, p[w.topic]) THEN {}
                      ELSE OnTime(w, p[w.topic])

\* Every window closed by the first p[t] records is among the outputs S.
Covered(p, S) ==
  \A w \in Windows :
    (ClosedBy(w, p[w.topic]) /\ OnTime(w, p[w.topic]) # {})
      => \E o \in S : o.win = w

ExactOutputs ==
  \A o \in Published \cup Queued :
    /\ ClosedBy(o.win, Len(log[o.win.topic]))
    /\ o.members = OnTime(o.win, Len(log[o.win.topic]))

\* The late reports are exactly the late records, as far as consumed.
LateReported(p) ==
  \A t \in Topics, l \in Labels : \A i \in 1..p[t] :
    ClosedBy(WindowOf(t, log[t][i], l), i) => <<t, i, l>> \in dropped

OnlyLateReported ==
  \A d \in dropped :
    /\ d[2] \in 1..Len(log[d[1]])
    /\ ClosedBy(WindowOf(d[1], log[d[1]][d[2]], d[3]), d[2])

SafeInv ==
  /\ OffsetsOK
  /\ PhaseOK
  /\ StoreCountsOK(pos, acc)
  /\ StoreCountsOK(saved.pos, saved.acc)
  /\ OutputsOK

IntactInv ==
  /\ status # "down" => /\ StateOK(pos, wm, acc)
                        /\ Covered(pos, Published \cup Queued)
                        /\ LateReported(pos)
  /\ StateOK(saved.pos, saved.wm, saved.acc)
  /\ Covered(committed, Published)
  /\ LateReported(committed)
  /\ ExactOutputs
  /\ OnlyLateReported

Inv == TypeOK /\ SafeInv /\ (intact => IntactInv)

-----------------------------------------------------------------------------
(* Windows and records.                                                    *)

\* A window starts at an event time, so its end plus the grace is positive:
\* the initial watermark 0 expires no window.
LEMMA WindowFacts ==
  ASSUME NEW w \in Windows
  PROVE  /\ w.topic \in Topics
         /\ w.key \in Keys
         /\ w.label \in Labels
         /\ w.start \in Nat
         /\ WindowEnd(w) \in Nat
         /\ WindowEnd(w) + Grace > 0
<1>1. PICK l \in Labels :
        w \in [topic : Topics, key : Keys, label : {l},
              start : {WindowStart(ts, l) : ts \in 0..MaxTs}]
  BY DEF Windows
<1>2. PICK ts \in 0..MaxTs : w.start = WindowStart(ts, l)
  BY <1>1
<1>3. Width[l] \in Nat \ {0} /\ Width[l] > 0 /\ MaxTs \in Nat /\ Grace \in Nat
  BY ConstantsAssumption
<1>4. ts % Width[l] \in Nat /\ ts % Width[l] <= ts
  <2>1. ts \in Nat
    BY <1>3
  <2>. QED
    BY <1>3, <2>1, SMT
<1>5. w.label = l
  BY <1>1
<1>. QED
  BY <1>1, <1>2, <1>3, <1>4, <1>5 DEF WindowStart, WindowEnd

\* The window a record falls into is one of the windows.
LEMMA WindowOfType ==
  ASSUME NEW t \in Topics, NEW r \in Recs, NEW l \in Labels
  PROVE  WindowOf(t, r, l) \in Windows
BY DEF WindowOf, Windows, Recs

\* Fold and Finalize keep their types.
LEMMA FoldType ==
  ASSUME NEW a \in Accs, NEW i \in Nat, NEW v \in Nat
  PROVE  Fold(a, i, v) \in Accs
BY DEF Fold, Accs

LEMMA FinalizeType ==
  ASSUME NEW w \in Windows, NEW a \in Accs
  PROVE  Finalize(w, a) \in Outputs
BY DEF Finalize, Outputs, Accs

-----------------------------------------------------------------------------
(* Type correctness.                                                       *)

\* What one record does to the watermark and the window store has their types.
LEMMA ProcessTypes ==
  ASSUME TypeOK, NEW t \in Topics, pos[t] < Len(log[t]), Next1(t).val # Null
  PROVE  /\ Next1(t) \in Recs
         /\ Next1(t).val \in Nat
         /\ Latest(t) \in Nat
         /\ Folded(t) \in [Windows -> Accs]
<1>1. pos[t] + 1 \in 1..Len(log[t]) /\ pos[t] + 1 \in Nat
  BY DEF TypeOK
<1>2. Next1(t) \in Recs
  BY <1>1 DEF TypeOK, Next1
<1>3. Next1(t).val \in Nat
  BY <1>2, ConstantsAssumption DEF Recs
<1>4. Latest(t) \in Nat
  BY <1>2, ConstantsAssumption DEF TypeOK, Latest, Recs
<1>5. Folded(t) \in [Windows -> Accs]
  BY <1>1, <1>3, FoldType DEF TypeOK, Folded
<1>. QED
  BY <1>2, <1>3, <1>4, <1>5

\* The queue that dies with the process leaves outputs in metrics.windowed.
LEMMA LoseQueueType ==
  ASSUME TypeOK, LoseQueue
  PROVE  /\ outbox' = <<>>
         /\ outbox' \in Seq(SUBSET Outputs)
         /\ metrics' \in Seq(SUBSET Outputs)
<1>1. PICK part \in IF outbox = <<>> \/ Len(metrics) >= MaxMetrics THEN {{}}
                    ELSE SUBSET Head(outbox) :
        metrics' = IF part = {} THEN metrics ELSE Append(metrics, part)
  BY DEF LoseQueue
<1>2. part \in SUBSET Outputs
  <2>1. CASE outbox = <<>>
    BY <1>1, <2>1
  <2>2. CASE outbox # <<>>
    <3>1. Head(outbox) \in SUBSET Outputs
      BY <2>2 DEF TypeOK
    <3>. QED
      BY <1>1, <3>1
  <2>. QED
    BY <2>1, <2>2
<1>. QED
  BY <1>1, <1>2 DEF TypeOK, LoseQueue

LEMMA InitType == Init => TypeOK
BY ConstantsAssumption DEF Init, NoState, NoAcc, Accs, TypeOK

LEMMA NextType == TypeOK /\ [Next]_vars => TypeOK'
<1> SUFFICES ASSUME TypeOK, [Next]_vars PROVE TypeOK'
  OBVIOUS
<1>1. CASE UNCHANGED vars
  BY <1>1 DEF vars, TypeOK
<1>2. ASSUME NEW t \in Topics, NEW r \in Recs, Produce(t, r) PROVE TypeOK'
  BY <1>2 DEF TypeOK, Produce
<1>3. ASSUME NEW t \in Topics, Process(t) PROVE TypeOK'
  <2>. USE <1>3
  <2>1. /\ Next1(t) \in Recs
        /\ Latest(t) \in Nat
        /\ Folded(t) \in [Windows -> Accs]
    BY ProcessTypes DEF Process
  <2>2. pos' \in [Topics -> Nat]
    BY DEF TypeOK, Process
  <2>3. wm' \in [Topics -> [Keys -> Nat]]
    BY <2>1 DEF TypeOK, Process, Recs
  <2>4. acc' \in [Windows -> Accs]
    BY <2>1 DEF TypeOK, Process, NoAcc, Accs
  <2>5. dropped' \subseteq Topics \X Nat \X Labels
    BY DEF TypeOK, Process, LateLabels
  <2>6. outbox' \in Seq(SUBSET Outputs)
    <3>1. {Finalize(w, Folded(t)[w]) : w \in Closing(t)} \in SUBSET Outputs
      BY <2>1, FinalizeType DEF Closing
    <3>. QED
      BY <3>1 DEF TypeOK, Process
  <2>. QED
    BY <2>2, <2>3, <2>4, <2>5, <2>6 DEF TypeOK, Process
<1>4. ASSUME NEW t \in Topics, ProcessFails(t) PROVE TypeOK'
  BY <1>4, LoseQueueType DEF TypeOK, ProcessFails
<1>5. CASE Deliver
  <2>1. Head(outbox) \in SUBSET Outputs /\ Tail(outbox) \in Seq(SUBSET Outputs)
    BY <1>5 DEF TypeOK, Deliver
  <2>. QED
    BY <1>5, <2>1 DEF TypeOK, Deliver
<1>6. CASE CommitOffsets
  BY <1>6 DEF TypeOK, CommitOffsets
<1>7. CASE FlushState
  BY <1>7 DEF TypeOK, FlushState
<1>8. CASE IdleStop
  BY <1>8 DEF TypeOK, IdleStop
<1>9. CASE Crash
  <2>1. outbox' \in Seq(SUBSET Outputs) /\ metrics' \in Seq(SUBSET Outputs)
    BY <1>9, LoseQueueType DEF Crash
  <2>2. crashes' \in 0..MaxCrashes
    BY <1>9, ConstantsAssumption DEF TypeOK, Crash
  <2>. QED
    BY <1>9, <2>1, <2>2 DEF TypeOK, Crash
<1>10. CASE LoseStateDir
  BY <1>10, ConstantsAssumption DEF TypeOK, LoseStateDir, NoState, NoAcc, Accs
<1>11. CASE Restart
  BY <1>11 DEF TypeOK, Restart
<1>. QED
  BY <1>1, <1>2, <1>3, <1>4, <1>5, <1>6, <1>7, <1>8, <1>9, <1>10, <1>11
  DEF Next

\* Every variable keeps its type in every step of the processor.
THEOREM TypeCorrect == Spec => []TypeOK
BY InitType, NextType, PTL DEF Spec

-----------------------------------------------------------------------------
(* What the output should be: how it depends on the log.                   *)

\* Every output's batch.
Flat(s) == UNION {s[b] : b \in DOMAIN s}

LEMMA FlatAppend ==
  ASSUME NEW s \in Seq(SUBSET Outputs), NEW batch \in SUBSET Outputs
  PROVE  Flat(Append(s, batch)) = Flat(s) \cup batch
<1>1. /\ DOMAIN Append(s, batch) = 1..(Len(s) + 1)
      /\ DOMAIN s = 1..Len(s)
      /\ \A b \in 1..Len(s) : Append(s, batch)[b] = s[b]
      /\ Append(s, batch)[Len(s) + 1] = batch
      /\ Len(s) \in Nat
  OBVIOUS
<1>2. 1..(Len(s) + 1) = 1..Len(s) \cup {Len(s) + 1}
  BY <1>1
<1>3. ASSUME NEW o PROVE o \in Flat(Append(s, batch)) <=> o \in Flat(s) \cup batch
  <2>1. o \in Flat(Append(s, batch))
          <=> \E b \in 1..Len(s) \cup {Len(s) + 1} : o \in Append(s, batch)[b]
    BY <1>1, <1>2 DEF Flat
  <2>2. o \in Flat(s) <=> \E b \in 1..Len(s) : o \in s[b]
    BY <1>1 DEF Flat
  <2>. QED
    BY <1>1, <2>1, <2>2
<1>. QED
  BY <1>3

LEMMA FlatHeadTail ==
  ASSUME NEW s \in Seq(SUBSET Outputs), s # <<>>
  PROVE  Flat(s) = Head(s) \cup Flat(Tail(s))
<1>1. /\ Len(s) \in Nat \ {0}
      /\ DOMAIN s = 1..Len(s)
      /\ DOMAIN Tail(s) = 1..(Len(s) - 1)
      /\ Head(s) = s[1]
      /\ \A b \in 1..(Len(s) - 1) : Tail(s)[b] = s[b + 1]
  OBVIOUS
<1>2. ASSUME NEW o PROVE o \in Flat(s) <=> o \in Head(s) \cup Flat(Tail(s))
  <2>1. ASSUME NEW b \in 1..Len(s), o \in s[b]
        PROVE  o \in Head(s) \cup Flat(Tail(s))
    <3>1. CASE b = 1
      BY <1>1, <2>1, <3>1
    <3>2. CASE b # 1
      <4>1. b - 1 \in 1..(Len(s) - 1) /\ Tail(s)[b - 1] = s[b]
        BY <1>1, <3>2
      <4>. QED
        BY <1>1, <2>1, <4>1 DEF Flat
    <3>. QED
      BY <3>1, <3>2
  <2>2. ASSUME NEW b \in 1..(Len(s) - 1), o \in Tail(s)[b]
        PROVE  o \in Flat(s)
    <3>1. b + 1 \in 1..Len(s) /\ o \in s[b + 1]
      BY <1>1, <2>2
    <3>. QED
      BY <1>1, <3>1 DEF Flat
  <2>3. o \in Head(s) => o \in Flat(s)
    BY <1>1 DEF Flat
  <2>. QED
    BY <1>1, <2>1, <2>2, <2>3 DEF Flat
<1>. QED
  BY <1>2

\* A window that is closed stays closed, and no later record is on time.
LEMMA ClosedForGood ==
  ASSUME NEW w \in Windows, NEW n \in Nat, NEW m \in Nat, n <= m, ClosedBy(w, n)
  PROVE  ClosedBy(w, m) /\ OnTime(w, m) = OnTime(w, n)
<1>1. \A i \in Nat : n <= i => ClosedBy(w, i)
  BY DEF ClosedBy
<1>2. \A i \in 1..m : ~ClosedBy(w, i) => i \in 1..n
  BY <1>1
<1>3. 1..n \subseteq 1..m
  OBVIOUS
<1>. QED
  BY <1>1, <1>2, <1>3 DEF OnTime

\* The producer appends to the logs and leaves their prefixes alone.
LEMMA ProduceExtends ==
  ASSUME TypeOK, NEW t \in Topics, NEW r \in Recs, Produce(t, r),
         NEW u \in Topics
  PROVE  /\ Len(log[u]) \in Nat
         /\ Len(log'[u]) \in Nat
         /\ Len(log[u]) <= Len(log'[u])
         /\ \A i \in 1..Len(log[u]) : log'[u][i] = log[u][i]
BY DEF TypeOK, Produce

LEMMA ProduceKeepsHistory ==
  ASSUME TypeOK, NEW t \in Topics, NEW r \in Recs, Produce(t, r),
         NEW w \in Windows, NEW n \in Nat, n <= Len(log[w.topic])
  PROVE  /\ ClosedBy(w, n)' <=> ClosedBy(w, n)
         /\ OnTime(w, n)' = OnTime(w, n)
<1>1. w.topic \in Topics
  BY WindowFacts
<1>2. \A i \in 1..n : log'[w.topic][i] = log[w.topic][i]
  <2>1. Len(log[w.topic]) \in Nat /\ 1..n \subseteq 1..Len(log[w.topic])
    BY <1>1, ProduceExtends
  <2>. QED
    BY <1>1, <2>1, ProduceExtends
<1>3. \A m \in 1..n : ClosedBy(w, m)' <=> ClosedBy(w, m)
  <2>. SUFFICES ASSUME NEW m \in 1..n PROVE ClosedBy(w, m)' <=> ClosedBy(w, m)
    OBVIOUS
  <2>1. \A j \in 1..m : log'[w.topic][j] = log[w.topic][j]
    BY <1>2
  <2>. QED
    BY <2>1 DEF ClosedBy
<1>4. ClosedBy(w, n)' <=> ClosedBy(w, n)
  BY <1>2 DEF ClosedBy
<1>5. OnTime(w, n)' = OnTime(w, n)
  BY <1>2, <1>3 DEF OnTime
<1>. QED
  BY <1>4, <1>5

\* A window the log has closed is not changed by what is appended.
LEMMA ProduceKeepsClosed ==
  ASSUME TypeOK, NEW t \in Topics, NEW r \in Recs, Produce(t, r),
         NEW w \in Windows, ClosedBy(w, Len(log[w.topic]))
  PROVE  /\ ClosedBy(w, Len(log[w.topic]))'
         /\ OnTime(w, Len(log[w.topic]))' = OnTime(w, Len(log[w.topic]))
<1> DEFINE n == Len(log[w.topic])
           m == Len(log'[w.topic])
<1>1. n \in Nat /\ m \in Nat /\ n <= m
  BY WindowFacts, ProduceExtends
<1>2. \A i \in 1..n : log'[w.topic][i] = log[w.topic][i]
  BY WindowFacts, ProduceExtends
<1>3. PICK j \in 1..n : /\ log[w.topic][j].key = w.key
                       /\ Expired(w, log[w.topic][j].ts)
  BY DEF ClosedBy
<1>4. /\ j \in 1..m
      /\ log'[w.topic][j].key = w.key
      /\ Expired(w, log'[w.topic][j].ts)
  BY <1>1, <1>2, <1>3
<1>5. ClosedBy(w, Len(log[w.topic]))'
  BY <1>4 DEF ClosedBy, Expired, WindowEnd
<1>6. ASSUME NEW i \in 1..m, i \notin 1..n PROVE ClosedBy(w, i)'
  <2>1. j \in 1..i
    BY <1>1, <1>3, <1>6
  <2>. QED
    BY <1>4, <2>1 DEF ClosedBy, Expired, WindowEnd
<1>8. \A i \in 1..n : ClosedBy(w, i)' <=> ClosedBy(w, i)
  BY <1>1, ProduceKeepsHistory
<1>9. OnTime(w, Len(log[w.topic]))' = OnTime(w, Len(log[w.topic]))
  <2>1. 1..n \subseteq 1..m
    BY <1>1
  <2>. QED
    BY <1>2, <1>6, <1>8, <2>1 DEF OnTime, InWindow
<1>. QED
  BY <1>5, <1>9

-----------------------------------------------------------------------------
(* How the steps move outputs.                                             *)

LEMMA FlatOutputs == Published = Flat(metrics) /\ Queued = Flat(outbox)
BY DEF Published, Queued, Flat

LEMMA FlatOutputsPrime == Published' = Flat(metrics') /\ Queued' = Flat(outbox')
BY DEF Published, Queued, Flat

LEMMA FlatEmpty == Flat(<<>>) = {}
BY DEF Flat

LEMMA OutputsType ==
  ASSUME TypeOK PROVE Published \cup Queued \subseteq Outputs
<1>1. ASSUME NEW s \in Seq(SUBSET Outputs) PROVE Flat(s) \subseteq Outputs
  BY DEF Flat
<1>. QED
  BY <1>1, FlatOutputs DEF TypeOK

LEMMA LoseQueueMoves ==
  ASSUME TypeOK, LoseQueue
  PROVE  /\ Published \subseteq Published'
         /\ Published' \subseteq Published \cup Queued
         /\ Queued' = {}
<1>1. PICK part \in IF outbox = <<>> \/ Len(metrics) >= MaxMetrics THEN {{}}
                    ELSE SUBSET Head(outbox) :
        metrics' = IF part = {} THEN metrics ELSE Append(metrics, part)
  BY DEF LoseQueue
<1>2. Queued' = {}
  BY FlatOutputsPrime, FlatEmpty DEF LoseQueue
<1>3. CASE part = {}
  BY <1>1, <1>2, <1>3, FlatOutputs, FlatOutputsPrime
<1>4. CASE part # {}
  <2>1. outbox # <<>> /\ part \subseteq Head(outbox)
    BY <1>1, <1>4
  <2>2. Head(outbox) \in SUBSET Outputs
    BY <2>1 DEF TypeOK
  <2>3. Flat(metrics') = Flat(metrics) \cup part
    BY <1>1, <1>4, <2>1, <2>2, FlatAppend DEF TypeOK
  <2>4. part \subseteq Flat(outbox)
    BY <2>1, FlatHeadTail DEF TypeOK
  <2>. QED
    BY <1>2, <2>3, <2>4, FlatOutputs, FlatOutputsPrime
<1>. QED
  BY <1>3, <1>4

LEMMA DeliverMoves ==
  ASSUME TypeOK, Deliver
  PROVE  /\ Published \subseteq Published'
         /\ Published' \cup Queued' = Published \cup Queued
<1>1. outbox # <<>> /\ metrics' = Append(metrics, Head(outbox))
                    /\ outbox' = Tail(outbox)
  BY DEF Deliver
<1>2. Head(outbox) \in SUBSET Outputs
  BY <1>1 DEF TypeOK
<1>3. Flat(metrics') = Flat(metrics) \cup Head(outbox)
  BY <1>1, <1>2, FlatAppend DEF TypeOK
<1>4. Flat(outbox) = Head(outbox) \cup Flat(outbox')
  BY <1>1, FlatHeadTail DEF TypeOK
<1>. QED
  BY <1>3, <1>4, FlatOutputs, FlatOutputsPrime

LEMMA ProcessMoves ==
  ASSUME TypeOK, NEW t \in Topics, Process(t)
  PROVE  /\ Published' = Published
         /\ Queued' = Queued \cup {Finalize(w, Folded(t)[w]) : w \in Closing(t)}
<1> DEFINE batch == {Finalize(w, Folded(t)[w]) : w \in Closing(t)}
<1>1. Published' = Published
  BY FlatOutputs, FlatOutputsPrime DEF Process
<1>2. batch \in SUBSET Outputs
  BY ProcessTypes, FinalizeType DEF Process, Closing
<1>3. CASE Closing(t) = {}
  <2>1. batch = {} /\ outbox' = outbox
    BY <1>3 DEF Process
  <2>. QED
    BY <1>1, <2>1, FlatOutputs, FlatOutputsPrime
<1>4. CASE Closing(t) # {}
  <2>1. outbox' = Append(outbox, batch)
    BY <1>4 DEF Process
  <2>2. Flat(outbox') = Flat(outbox) \cup batch
    BY <1>2, <2>1, FlatAppend DEF TypeOK
  <2>. QED
    BY <1>1, <2>2, FlatOutputs, FlatOutputsPrime
<1>. QED
  BY <1>3, <1>4

-----------------------------------------------------------------------------
(* One record through the window store.                                    *)

\* A record that was not counted yet is counted once.
LEMMA FoldCounts ==
  ASSUME NEW w \in Windows, NEW n \in Nat, NEW a \in Accs,
         CountsOK(w, n, a.members, a.count, a.sum),
         InWindow(log[w.topic][n + 1], w), log[w.topic][n + 1].val \in Nat
  PROVE  LET b == Fold(a, n + 1, log[w.topic][n + 1].val)
         IN  CountsOK(w, n + 1, b.members, b.count, b.sum)
<1> DEFINE v == log[w.topic][n + 1].val
           b == Fold(a, n + 1, v)
<1>1. /\ b.members = a.members \cup {n + 1}
      /\ b.count = a.count + 1
      /\ b.sum = a.sum + v
  BY DEF Fold
<1>2. n + 1 \notin a.members
  BY DEF CountsOK
<1>3. IsFiniteSet(b.members) /\ b.count = Cardinality(b.members)
  BY <1>1, <1>2, FS_AddElement DEF CountsOK
<1>4. \A i \in b.members : /\ i \in 1..(n + 1)
                           /\ InWindow(log[w.topic][i], w)
                           /\ log[w.topic][i].val \in Nat
  BY <1>1 DEF CountsOK
<1>5. b.sum = 0 <=> \A i \in b.members : log[w.topic][i].val = 0
  <2>1. a.sum \in Nat
    BY DEF Accs
  <2>2. b.sum = 0 <=> a.sum = 0 /\ v = 0
    <3>1. \A x, y \in Nat : x + y = 0 <=> x = 0 /\ y = 0
      OBVIOUS
    <3>2. v \in Nat
      OBVIOUS
    <3>3. a.sum + v = 0 <=> a.sum = 0 /\ v = 0
      BY <2>1, <3>1, <3>2
    <3>. QED
      BY <1>1, <3>3
  <2>3. (\A i \in b.members : log[w.topic][i].val = 0)
          <=> (\A i \in a.members : log[w.topic][i].val = 0) /\ v = 0
    BY <1>1
  <2>. QED
    BY <2>2, <2>3 DEF CountsOK
<1>. HIDE DEF b
<1>. QED
  BY <1>3, <1>4, <1>5 DEF CountsOK, b, v

LEMMA NoAccCounts ==
  ASSUME NEW w, NEW n
  PROVE  CountsOK(w, n, NoAcc.members, NoAcc.count, NoAcc.sum)
BY FS_EmptySet DEF CountsOK, NoAcc

\* Counts that are right for the first n records are right for more.
LEMMA CountsMonotone ==
  ASSUME NEW w, NEW n \in Nat, NEW m \in Nat, n <= m, NEW S, NEW c, NEW s,
         CountsOK(w, n, S, c, s)
  PROVE  CountsOK(w, m, S, c, s)
BY DEF CountsOK

\* Folding the next record leaves every window's aggregates those of its
\* members.
LEMMA FoldedCounts ==
  ASSUME TypeOK, NEW t \in Topics, pos[t] < Len(log[t]), Next1(t).val # Null,
         StoreCountsOK(pos, acc), NEW w \in Windows
  PROVE  LET n == IF w.topic = t THEN pos[t] + 1 ELSE pos[w.topic]
             b == Folded(t)[w]
         IN  CountsOK(w, n, b.members, b.count, b.sum)
<1>1. CountsOK(w, pos[w.topic], acc[w].members, acc[w].count, acc[w].sum)
  BY DEF StoreCountsOK
<1>2. w.topic \in Topics /\ pos[w.topic] \in Nat /\ pos[t] \in Nat
      /\ acc[w] \in Accs
  BY WindowFacts DEF TypeOK
<1>3. CASE w.topic = t /\ InWindow(Next1(t), w) /\ w.label \notin LateLabels(t)
  <2>1. Folded(t)[w] = Fold(acc[w], pos[t] + 1, Next1(t).val)
    BY <1>3 DEF Folded
  <2>2. Next1(t) = log[w.topic][pos[w.topic] + 1] /\ Next1(t).val \in Nat
    BY <1>3, ProcessTypes DEF Next1
  <2>. QED
    BY <1>1, <1>2, <1>3, <2>1, <2>2, FoldCounts
<1>4. CASE ~(w.topic = t /\ InWindow(Next1(t), w) /\ w.label \notin LateLabels(t))
  <2>1. Folded(t)[w] = acc[w]
    BY <1>4 DEF Folded
  <2>2. pos[w.topic] <= pos[w.topic] + 1 /\ pos[w.topic] + 1 \in Nat
    BY <1>2
  <2>3. CountsOK(w, pos[w.topic] + 1, acc[w].members, acc[w].count, acc[w].sum)
    BY <1>1, <1>2, <2>2, CountsMonotone
  <2>. QED
    BY <1>1, <2>1, <2>3
<1>. QED
  BY <1>3, <1>4

-----------------------------------------------------------------------------
(* The part of the invariant that holds whatever is lost.                  *)

LEMMA InitSafe == Init => SafeInv
<1> SUFFICES ASSUME Init PROVE SafeInv
  OBVIOUS
<1>1. OffsetsOK
  BY DEF Init, NoState, OffsetsOK
<1>2. PhaseOK
  BY DEF Init, PhaseOK
<1>3. StoreCountsOK(pos, acc) /\ StoreCountsOK(saved.pos, saved.acc)
  BY NoAccCounts DEF Init, NoState, StoreCountsOK
<1>4. OutputsOK
  BY FlatOutputs, FlatEmpty DEF Init, OutputsOK
<1>. QED
  BY <1>1, <1>2, <1>3, <1>4 DEF SafeInv

LEMMA SafeProduce ==
  ASSUME TypeOK, SafeInv, NEW t \in Topics, NEW r \in Recs, Produce(t, r)
  PROVE  SafeInv'
<1>1. \A u \in Topics :
        /\ Len(log[u]) \in Nat /\ Len(log'[u]) \in Nat
        /\ Len(log[u]) <= Len(log'[u])
        /\ \A i \in 1..Len(log[u]) : log'[u][i] = log[u][i]
  BY ProduceExtends
<1>2. UNCHANGED <<pos, wm, acc, dropped, outbox, metrics, committed, saved,
                  status, crashes, intact>>
  BY DEF Produce
<1>3. OffsetsOK'
  BY <1>1, <1>2 DEF TypeOK, SafeInv, OffsetsOK
<1>4. PhaseOK'
  BY <1>2 DEF SafeInv, PhaseOK
<1>5. ASSUME NEW w \in Windows, NEW n \in Nat, n <= Len(log[w.topic]),
             NEW S, \A i \in S : i \in 1..n
      PROVE  \A i \in S : log'[w.topic][i] = log[w.topic][i]
  BY <1>1, <1>5, WindowFacts
<1>6. StoreCountsOK(pos, acc)'
  <2> SUFFICES ASSUME NEW w \in Windows
               PROVE  CountsOK(w, pos[w.topic], acc[w].members, acc[w].count, acc[w].sum)'
    BY DEF StoreCountsOK
  <2>1. CountsOK(w, pos[w.topic], acc[w].members, acc[w].count, acc[w].sum)
    BY DEF SafeInv, StoreCountsOK
  <2>2. pos[w.topic] \in Nat /\ pos[w.topic] <= Len(log[w.topic])
    BY WindowFacts DEF TypeOK, SafeInv, OffsetsOK
  <2>3. \A i \in acc[w].members : log'[w.topic][i] = log[w.topic][i]
    BY <1>5, <2>1, <2>2 DEF CountsOK
  <2>. QED
    BY <1>2, <2>1, <2>3 DEF CountsOK, InWindow
<1>7. StoreCountsOK(saved.pos, saved.acc)'
  <2> SUFFICES ASSUME NEW w \in Windows
               PROVE  CountsOK(w, saved.pos[w.topic], saved.acc[w].members,
                               saved.acc[w].count, saved.acc[w].sum)'
    BY DEF StoreCountsOK
  <2>1. CountsOK(w, saved.pos[w.topic], saved.acc[w].members,
                 saved.acc[w].count, saved.acc[w].sum)
    BY DEF SafeInv, StoreCountsOK
  <2>2. saved.pos[w.topic] \in Nat /\ saved.pos[w.topic] <= Len(log[w.topic])
    <3>1. /\ w.topic \in Topics
          /\ saved.pos[w.topic] \in Nat
          /\ committed[w.topic] \in Nat
          /\ pos[w.topic] \in Nat
          /\ Len(log[w.topic]) \in Nat
      BY <1>1, WindowFacts DEF TypeOK
    <3>. QED
      BY <3>1 DEF SafeInv, OffsetsOK
  <2>3. \A i \in saved.acc[w].members : log'[w.topic][i] = log[w.topic][i]
    BY <1>5, <2>1, <2>2 DEF CountsOK
  <2>. QED
    BY <1>2, <2>1, <2>3 DEF CountsOK, InWindow
<1>8. OutputsOK'
  <2> SUFFICES ASSUME NEW o \in Published \cup Queued PROVE OutputOK(o)'
    BY <1>2 DEF OutputsOK, Published, Queued
  <2>1. OutputOK(o) /\ o.win \in Windows
    BY OutputsType DEF SafeInv, OutputsOK, Outputs
  <2>2. \A i \in o.members : log'[o.win.topic][i] = log[o.win.topic][i]
    BY <1>1, <2>1, <1>5, WindowFacts DEF OutputOK, CountsOK
  <2>3. 1..Len(log[o.win.topic]) \subseteq 1..Len(log'[o.win.topic])
    BY <1>1, <2>1, WindowFacts
  <2>. QED
    BY <2>1, <2>2, <2>3 DEF OutputOK, CountsOK, InWindow
<1>. QED
  BY <1>3, <1>4, <1>6, <1>7, <1>8 DEF SafeInv

LEMMA SafeProcess ==
  ASSUME TypeOK, SafeInv, NEW t \in Topics, Process(t)
  PROVE  SafeInv'
<1>1. /\ log' = log /\ saved' = saved /\ committed' = committed
      /\ status = "running" /\ status' = status
      /\ pos[t] < Len(log[t]) /\ Next1(t).val # Null
      /\ pos' = [pos EXCEPT ![t] = @ + 1]
      /\ acc' = [w \in Windows |->
                   IF w \in Closing(t) THEN NoAcc ELSE Folded(t)[w]]
  BY DEF Process
<1>2. OffsetsOK'
  BY <1>1 DEF TypeOK, SafeInv, OffsetsOK
<1>3. PhaseOK'
  BY <1>1 DEF PhaseOK
<1>4. \A w \in Windows :
        CountsOK(w, pos'[w.topic], Folded(t)[w].members, Folded(t)[w].count,
                 Folded(t)[w].sum)
  <2> SUFFICES ASSUME NEW w \in Windows
               PROVE  CountsOK(w, pos'[w.topic], Folded(t)[w].members,
                               Folded(t)[w].count, Folded(t)[w].sum)
    OBVIOUS
  <2>1. pos'[w.topic] = IF w.topic = t THEN pos[t] + 1 ELSE pos[w.topic]
    BY <1>1, WindowFacts DEF TypeOK
  <2>. QED
    BY <1>1, <2>1, FoldedCounts DEF SafeInv
<1>5. StoreCountsOK(pos, acc)'
  <2> SUFFICES ASSUME NEW w \in Windows
               PROVE  CountsOK(w, pos[w.topic], acc[w].members, acc[w].count, acc[w].sum)'
    BY DEF StoreCountsOK
  <2>1. CASE w \in Closing(t)
    BY <1>1, <2>1, FS_EmptySet DEF CountsOK, NoAcc
  <2>2. CASE w \notin Closing(t)
    BY <1>1, <1>4, <2>2 DEF CountsOK, InWindow
  <2>. QED
    BY <2>1, <2>2
<1>6. StoreCountsOK(saved.pos, saved.acc)'
  BY <1>1 DEF SafeInv, StoreCountsOK, CountsOK, InWindow
<1>7. OutputsOK'
  <2> SUFFICES ASSUME NEW o \in Published' \cup Queued' PROVE OutputOK(o)'
    BY DEF OutputsOK
  <2>1. CASE o \in Published \cup Queued
    BY <1>1, <2>1 DEF SafeInv, OutputsOK, OutputOK, CountsOK, InWindow
  <2>2. CASE o \notin Published \cup Queued
    <3>1. PICK w \in Closing(t) : o = Finalize(w, Folded(t)[w])
      BY <2>2, ProcessMoves
    <3>2. w \in Windows /\ w.topic \in Topics /\ w.topic = t
      BY WindowFacts DEF Closing
    <3>3. /\ o.win = w
          /\ o.members = Folded(t)[w].members
          /\ o.count = Folded(t)[w].count
          /\ o.sum = Folded(t)[w].sum
          /\ o.metric = "null" <=> w.topic \in TradeTopics /\ ~(o.sum > 0)
      BY <3>1 DEF Finalize
    <3>4. o.sum \in Nat
      BY <1>1, <3>2, <3>3, ProcessTypes DEF Accs
    <3>5. pos'[t] \in Nat /\ Len(log[t]) \in Nat /\ pos'[t] <= Len(log[t])
      BY <1>1 DEF TypeOK
    <3>6. CountsOK(w, Len(log[t]), o.members, o.count, o.sum)
      BY <1>4, <3>2, <3>3, <3>5, CountsMonotone
    <3>7. CountsOK(o.win, Len(log[o.win.topic]), o.members, o.count, o.sum)'
      BY <1>1, <3>2, <3>3, <3>6 DEF CountsOK, InWindow
    <3>8. o.members # {}
      <4>1. o.count > 0
        BY <3>3 DEF Closing
      <4>. QED
        BY <3>6, <4>1, FS_EmptySet DEF CountsOK
    <3>. QED
      BY <3>3, <3>4, <3>7, <3>8 DEF OutputOK
  <2>. QED
    BY <2>1, <2>2
<1>. QED
  BY <1>2, <1>3, <1>5, <1>6, <1>7 DEF SafeInv

\* Steps that only move outputs from the queue to metrics.windowed, or lose
\* them, leave every output right.
LEMMA OutputsOnlyMove ==
  ASSUME OutputsOK, log' = log,
         Published' \cup Queued' \subseteq Published \cup Queued
  PROVE  OutputsOK'
BY DEF OutputsOK, OutputOK, CountsOK, InWindow

LEMMA SafeNext == TypeOK /\ SafeInv /\ [Next]_vars => SafeInv'
<1> SUFFICES ASSUME TypeOK, SafeInv, [Next]_vars PROVE SafeInv'
  OBVIOUS
<1> USE DEF SafeInv
<1>1. CASE UNCHANGED vars
  BY <1>1 DEF vars, OffsetsOK, PhaseOK, StoreCountsOK, OutputsOK, OutputOK,
              CountsOK, InWindow, Published, Queued
<1>2. ASSUME NEW t \in Topics, NEW r \in Recs, Produce(t, r) PROVE SafeInv'
  BY <1>2, SafeProduce
<1>3. ASSUME NEW t \in Topics, Process(t) PROVE SafeInv'
  BY <1>3, SafeProcess
<1>4. ASSUME LoseQueue, status' = "down",
             UNCHANGED <<log, pos, acc, committed, saved>>
      PROVE  SafeInv'
  <2>1. OffsetsOK' /\ StoreCountsOK(pos, acc)' /\ StoreCountsOK(saved.pos, saved.acc)'
    BY <1>4 DEF OffsetsOK, StoreCountsOK, CountsOK, InWindow
  <2>2. PhaseOK'
    BY <1>4 DEF PhaseOK, LoseQueue
  <2>3. OutputsOK'
    BY <1>4, LoseQueueMoves, OutputsOnlyMove
  <2>. QED
    BY <2>1, <2>2, <2>3
<1>5. CASE Deliver
  <2>1. OffsetsOK' /\ StoreCountsOK(pos, acc)' /\ StoreCountsOK(saved.pos, saved.acc)'
    BY <1>5 DEF Deliver, OffsetsOK, StoreCountsOK, CountsOK, InWindow
  <2>2. PhaseOK'
    BY <1>5 DEF Deliver, PhaseOK
  <2>3. OutputsOK'
    BY <1>5, DeliverMoves, OutputsOnlyMove DEF Deliver
  <2>. QED
    BY <2>1, <2>2, <2>3
<1>6. CASE CommitOffsets
  <2>1. OffsetsOK'
    <3>1. \A t \in Topics : saved.pos[t] \in Nat /\ committed[t] \in Nat /\ pos[t] \in Nat
      BY DEF TypeOK
    <3>. QED
      BY <1>6, <3>1 DEF CommitOffsets, OffsetsOK
  <2>2. StoreCountsOK(pos, acc)' /\ StoreCountsOK(saved.pos, saved.acc)'
    BY <1>6 DEF CommitOffsets, StoreCountsOK, CountsOK, InWindow
  <2>3. PhaseOK'
    BY <1>6 DEF CommitOffsets, PhaseOK
  <2>4. OutputsOK'
    BY <1>6, OutputsOnlyMove DEF CommitOffsets, Published, Queued
  <2>. QED
    BY <2>1, <2>2, <2>3, <2>4
<1>7. CASE FlushState
  <2>1. /\ log' = log /\ pos' = pos /\ acc' = acc /\ committed' = committed
        /\ saved'.pos = pos /\ saved'.acc = acc /\ pos = committed
        /\ outbox' = outbox /\ metrics' = metrics /\ status' = "running"
    BY <1>7 DEF FlushState, PhaseOK
  <2>2. OffsetsOK'
    BY <2>1 DEF TypeOK, OffsetsOK
  <2>3. StoreCountsOK(pos, acc)' /\ StoreCountsOK(saved.pos, saved.acc)'
    BY <2>1 DEF StoreCountsOK, CountsOK, InWindow
  <2>4. PhaseOK'
    BY <2>1 DEF PhaseOK
  <2>5. OutputsOK'
    BY <2>1, OutputsOnlyMove DEF Published, Queued
  <2>. QED
    BY <2>2, <2>3, <2>4, <2>5
<1>8. CASE IdleStop
  BY <1>8 DEF IdleStop, OffsetsOK, PhaseOK, StoreCountsOK, OutputsOK, OutputOK,
              CountsOK, InWindow, Published, Queued
<1>9. CASE LoseStateDir
  <2>1. /\ log' = log /\ pos' = pos /\ acc' = acc /\ committed' = committed
        /\ saved' = NoState /\ outbox' = outbox /\ metrics' = metrics
        /\ status' = status
    BY <1>9 DEF LoseStateDir
  <2>2. OffsetsOK'
    <3>1. \A t \in Topics : committed[t] \in Nat /\ NoState.pos[t] = 0
      BY DEF TypeOK, NoState
    <3>. QED
      BY <2>1, <3>1 DEF OffsetsOK
  <2>3. StoreCountsOK(pos, acc)'
    BY <2>1 DEF StoreCountsOK, CountsOK, InWindow
  <2>4. StoreCountsOK(saved.pos, saved.acc)'
    BY <2>1, FS_EmptySet DEF NoState, NoAcc, StoreCountsOK, CountsOK
  <2>5. PhaseOK'
    BY <2>1 DEF PhaseOK
  <2>6. OutputsOK'
    BY <2>1, OutputsOnlyMove DEF Published, Queued
  <2>. QED
    BY <2>2, <2>3, <2>4, <2>5, <2>6
<1>10. CASE Restart
  <2>1. /\ log' = log /\ pos' = committed /\ acc' = saved.acc
        /\ committed' = committed /\ saved' = saved /\ outbox' = outbox
        /\ metrics' = metrics /\ status' = "running"
    BY <1>10 DEF Restart
  <2>2. \A t \in Topics :
          /\ saved.pos[t] \in Nat /\ committed[t] \in Nat /\ pos[t] \in Nat
          /\ Len(log[t]) \in Nat
    BY DEF TypeOK
  <2>3. OffsetsOK'
    BY <2>1, <2>2 DEF OffsetsOK
  <2>4. ASSUME NEW w \in Windows
        PROVE  CountsOK(w, committed[w.topic], saved.acc[w].members,
                        saved.acc[w].count, saved.acc[w].sum)
    <3>1. /\ saved.pos[w.topic] \in Nat
          /\ committed[w.topic] \in Nat
          /\ saved.pos[w.topic] <= committed[w.topic]
      BY <2>2, WindowFacts DEF OffsetsOK
    <3>. QED
      BY <3>1, CountsMonotone DEF StoreCountsOK
  <2>5. StoreCountsOK(pos, acc)'
    BY <2>1, <2>4 DEF StoreCountsOK, CountsOK, InWindow
  <2>6. StoreCountsOK(saved.pos, saved.acc)'
    BY <2>1 DEF StoreCountsOK, CountsOK, InWindow
  <2>7. PhaseOK'
    BY <2>1 DEF PhaseOK
  <2>8. OutputsOK'
    BY <2>1, OutputsOnlyMove DEF Published, Queued
  <2>. QED
    BY <2>3, <2>5, <2>6, <2>7, <2>8
<1>. QED
  BY <1>1, <1>2, <1>3, <1>4, <1>5, <1>6, <1>7, <1>8, <1>9, <1>10
  DEF Next, ProcessFails, Crash

\* Whatever crashes, and whatever state is lost, no output counts a record
\* twice or a record of another window.
THEOREM ProcessorNeverOvercounts == Spec => []NeverOvercounted
<1>1. SafeInv => NeverOvercounted
  BY DEF SafeInv, OutputsOK, OutputOK, CountsOK, NeverOvercounted
<1>. QED
  BY InitType, NextType, InitSafe, SafeNext, <1>1, PTL DEF Spec

\* The VWAP of a trade window is null exactly when its trades have no volume.
THEOREM ProcessorNullMetric == Spec => []NullMetricMeansNoVolume
<1>1. SafeInv => NullMetricMeansNoVolume
  BY DEF SafeInv, OutputsOK, OutputOK, CountsOK, NullMetricMeansNoVolume
<1>. QED
  BY InitType, NextType, InitSafe, SafeNext, <1>1, PTL DEF Spec

-----------------------------------------------------------------------------
(* The part of the invariant that holds while no state was lost.           *)

\* No record closes a window or is on time in an empty log.
LEMMA NothingYet ==
  ASSUME NEW w PROVE ~ClosedBy(w, 0) /\ OnTime(w, 0) = {}
BY DEF ClosedBy, OnTime

LEMMA NoStateOK == StateOK(NoState.pos, NoState.wm, NoState.acc)
<1>1. \A t \in Topics : NoState.pos[t] = 0
  BY DEF NoState
<1>2. \A t \in Topics : \A k \in Keys : NoState.wm[t][k] = 0
  BY DEF NoState
<1>3. \A w \in Windows : NoState.acc[w].members = {} /\ w.topic \in Topics
  BY WindowFacts DEF NoState, NoAcc
<1>4. \A t \in Topics : \A k \in Keys :
        WatermarkOK(t, k, NoState.pos[t], NoState.wm[t][k])
  BY <1>1, <1>2 DEF WatermarkOK
<1>5. ASSUME NEW w \in Windows
      PROVE  NoState.acc[w].members =
               IF ClosedBy(w, NoState.pos[w.topic]) THEN {}
               ELSE OnTime(w, NoState.pos[w.topic])
  BY <1>1, <1>3, NothingYet
<1>. QED
  BY <1>4, <1>5 DEF StateOK

LEMMA InitIntact == Init => IntactInv
<1> SUFFICES ASSUME Init PROVE IntactInv
  OBVIOUS
<1>1. pos = NoState.pos /\ wm = NoState.wm /\ acc = NoState.acc /\ saved = NoState
      /\ committed = NoState.pos
  BY DEF Init
<1>2. \A t \in Topics : NoState.pos[t] = 0
  BY DEF NoState
<1>3. StateOK(pos, wm, acc) /\ StateOK(saved.pos, saved.wm, saved.acc)
  BY <1>1, NoStateOK
<1>4. Covered(pos, Published \cup Queued) /\ Covered(committed, Published)
  BY <1>1, <1>2, WindowFacts, NothingYet DEF Covered
<1>5. LateReported(pos) /\ LateReported(committed)
  BY <1>1, <1>2 DEF LateReported
<1>6. ExactOutputs /\ OnlyLateReported
  BY FlatOutputs, FlatEmpty DEF Init, ExactOutputs, OnlyLateReported
<1>. QED
  BY <1>3, <1>4, <1>5, <1>6 DEF IntactInv

-----------------------------------------------------------------------------
(* One record and the windows it closes.                                   *)

\* The watermark that the record leaves is the largest event time of its key.
LEMMA LatestWatermark ==
  ASSUME TypeOK, NEW t \in Topics, pos[t] < Len(log[t]), Next1(t).val # Null,
         WatermarkOK(t, Next1(t).key, pos[t], wm[t][Next1(t).key])
  PROVE  WatermarkOK(t, Next1(t).key, pos[t] + 1, Latest(t))
<1> DEFINE n == pos[t]  k == Next1(t).key  m == wm[t][k]
<1>1. n \in Nat /\ k \in Keys /\ m \in Nat /\ Next1(t).ts \in Nat
  <2>1. Next1(t) \in Recs
    BY ProcessTypes
  <2>2. k \in Keys /\ Next1(t).ts \in Nat
    BY <2>1, ConstantsAssumption DEF Recs
  <2>. QED
    BY <2>2 DEF TypeOK
<1>2. 1..(n + 1) = 1..n \cup {n + 1}
  BY <1>1
<1>3. /\ Next1(t) = log[t][n + 1]
      /\ Latest(t) = IF Next1(t).ts > m THEN Next1(t).ts ELSE m
  BY DEF Next1, Latest
<1>4. \A i \in 1..n : log[t][i].ts \in Nat
  <2>1. 1..n \subseteq 1..Len(log[t])
    BY <1>1 DEF TypeOK
  <2>2. \A i \in 1..n : log[t][i] \in Recs
    BY <2>1 DEF TypeOK
  <2>. QED
    BY <2>2, ConstantsAssumption DEF Recs
<1>5. ASSUME NEW i \in 1..(n + 1), log[t][i].key = k
      PROVE  log[t][i].ts <= Latest(t)
  <2>1. CASE i = n + 1
    BY <1>1, <1>3, <2>1
  <2>2. CASE i # n + 1
    <3>1. i \in 1..n /\ log[t][i].ts <= m
      BY <1>2, <1>5, <2>2 DEF WatermarkOK
    <3>. QED
      BY <1>1, <1>3, <1>4, <3>1
  <2>. QED
    BY <2>1, <2>2
<1>6. Latest(t) = 0 \/ \E i \in 1..(n + 1) :
                        log[t][i].key = k /\ log[t][i].ts = Latest(t)
  <2>1. CASE Next1(t).ts > m
    BY <1>1, <1>2, <1>3, <2>1
  <2>2. CASE ~(Next1(t).ts > m)
    BY <1>1, <1>2, <1>3, <2>2 DEF WatermarkOK
  <2>. QED
    BY <2>1, <2>2
<1>. QED
  BY <1>5, <1>6 DEF WatermarkOK

\* A watermark tells which windows are closed.
LEMMA WatermarkCloses ==
  ASSUME TypeOK, NEW w \in Windows, NEW n \in Nat, n <= Len(log[w.topic]),
         NEW m \in Nat, WatermarkOK(w.topic, w.key, n, m)
  PROVE  Expired(w, m) <=> ClosedBy(w, n)
<1>1. WindowEnd(w) + Grace > 0 /\ WindowEnd(w) + Grace \in Int /\ w.topic \in Topics
  BY WindowFacts, ConstantsAssumption
<1>2. \A i \in 1..n : log[w.topic][i].ts \in Nat
  <2>1. 1..n \subseteq 1..Len(log[w.topic])
    BY <1>1 DEF TypeOK
  <2>2. \A i \in 1..n : log[w.topic][i] \in Recs
    BY <1>1, <2>1 DEF TypeOK
  <2>. QED
    BY <2>2, ConstantsAssumption DEF Recs
<1>3. ASSUME Expired(w, m) PROVE ClosedBy(w, n)
  <2>1. m # 0
    BY <1>1, <1>3 DEF Expired
  <2>. QED
    BY <1>3, <2>1 DEF WatermarkOK, ClosedBy
<1>4. ASSUME ClosedBy(w, n) PROVE Expired(w, m)
  <2>1. PICK j \in 1..n : /\ log[w.topic][j].key = w.key
                         /\ Expired(w, log[w.topic][j].ts)
    BY <1>4 DEF ClosedBy
  <2>2. log[w.topic][j].ts <= m /\ log[w.topic][j].ts \in Nat
    BY <1>2, <2>1 DEF WatermarkOK
  <2>. QED
    BY <1>1, <2>1, <2>2 DEF Expired
<1>. QED
  BY <1>3, <1>4

\* Consuming one more record adds it to its window if it is on time, and
\* closes windows of its own key only.
LEMMA OneMoreRecord ==
  ASSUME NEW w \in Windows, NEW n \in Nat
  PROVE  /\ ClosedBy(w, n) => ClosedBy(w, n + 1)
         /\ log[w.topic][n + 1].key # w.key
              => (ClosedBy(w, n + 1) <=> ClosedBy(w, n))
         /\ OnTime(w, n + 1) =
              OnTime(w, n) \cup
              (IF InWindow(log[w.topic][n + 1], w) /\ ~ClosedBy(w, n + 1)
               THEN {n + 1} ELSE {})
<1>1. 1..(n + 1) = 1..n \cup {n + 1}
  OBVIOUS
<1>. QED
  BY <1>1 DEF ClosedBy, OnTime

\* What one record does to a window of its topic.
LEMMA ProcessWindow ==
  ASSUME TypeOK, SafeInv, StateOK(pos, wm, acc), NEW t \in Topics, Process(t),
         NEW w \in Windows, w.topic = t
  PROVE  LET n == pos[t]
             b == Folded(t)[w]
         IN  /\ w.key = Next1(t).key
                  => (Expired(w, Latest(t)) <=> ClosedBy(w, n + 1))
             /\ b.members = IF ClosedBy(w, n) THEN {}
                            ELSE OnTime(w, n + 1)
             /\ b.count > 0 <=> b.members # {}
             /\ w \in Closing(t) <=> ClosedBy(w, n + 1) /\ b.members # {}
<1> DEFINE n == pos[t]
           r == Next1(t)
           b == Folded(t)[w]
<1>1. /\ pos[t] < Len(log[t]) /\ Next1(t).val # Null
      /\ n \in Nat /\ n + 1 \in Nat /\ n + 1 <= Len(log[t])
      /\ r = log[w.topic][n + 1]
  BY DEF Process, TypeOK, Next1
<1>2. r \in Recs /\ Latest(t) \in Nat /\ b \in Accs
  BY <1>1, ProcessTypes
<1>3. w.key = r.key => (Expired(w, Latest(t)) <=> ClosedBy(w, n + 1))
  <2> SUFFICES ASSUME w.key = r.key
               PROVE  Expired(w, Latest(t)) <=> ClosedBy(w, n + 1)
    OBVIOUS
  <2>1. r.key \in Keys
    BY <1>2 DEF Recs
  <2>2. WatermarkOK(t, r.key, n, wm[t][r.key])
    BY <2>1 DEF StateOK
  <2>3. WatermarkOK(t, r.key, n + 1, Latest(t))
    BY <1>1, <2>2, LatestWatermark
  <2>. QED
    BY <1>1, <1>2, <2>3, WatermarkCloses
<1>4. InWindow(r, w) => (w.label \in LateLabels(t) <=> ClosedBy(w, n + 1))
  <2> SUFFICES ASSUME InWindow(r, w)
               PROVE  w.label \in LateLabels(t) <=> ClosedBy(w, n + 1)
    OBVIOUS
  <2>1. w.key = r.key /\ w.start = WindowStart(r.ts, w.label) /\ w.label \in Labels
    BY WindowFacts DEF InWindow
  <2>2. w.label \in LateLabels(t) <=> Expired(w, Latest(t))
    BY <2>1 DEF LateLabels, WindowOf, Expired, WindowEnd
  <2>. QED
    BY <1>3, <2>1, <2>2
<1>5. b.members = acc[w].members \cup
        (IF InWindow(r, w) /\ ~ClosedBy(w, n + 1) THEN {n + 1} ELSE {})
  BY <1>4 DEF Folded, Fold
<1>6. acc[w].members = IF ClosedBy(w, n) THEN {} ELSE OnTime(w, n)
  BY DEF StateOK
<1>7. b.members = IF ClosedBy(w, n) THEN {} ELSE OnTime(w, n + 1)
  <2>1. /\ ClosedBy(w, n) => ClosedBy(w, n + 1)
        /\ OnTime(w, n + 1) = OnTime(w, n) \cup
             (IF InWindow(r, w) /\ ~ClosedBy(w, n + 1) THEN {n + 1} ELSE {})
    <3>1. \A m \in Nat :
            /\ ClosedBy(w, m) => ClosedBy(w, m + 1)
            /\ OnTime(w, m + 1) = OnTime(w, m) \cup
                 (IF InWindow(log[w.topic][m + 1], w) /\ ~ClosedBy(w, m + 1)
                  THEN {m + 1} ELSE {})
      BY OneMoreRecord
    <3>. QED
      BY <1>1, <3>1 DEF InWindow
  <2>2. CASE ClosedBy(w, n)
    BY <1>5, <1>6, <2>1, <2>2
  <2>3. CASE ~ClosedBy(w, n)
    BY <1>5, <1>6, <2>1, <2>3
  <2>. QED
    BY <2>2, <2>3
<1>8. b.count > 0 <=> b.members # {}
  <2>1. CountsOK(w, n + 1, b.members, b.count, b.sum)
    BY <1>1, FoldedCounts DEF SafeInv
  <2>2. b.count \in Nat
    BY <1>2 DEF Accs
  <2>. QED
    BY <2>1, <2>2, FS_EmptySet DEF CountsOK
<1>9. w \in Closing(t) <=> ClosedBy(w, n + 1) /\ b.members # {}
  <2>1. w \in Closing(t) <=> w.key = r.key /\ b.members # {} /\ Expired(w, Latest(t))
    BY <1>8 DEF Closing
  <2>2. ClosedBy(w, n + 1) /\ b.members # {} => w.key = r.key
    BY <1>1, <1>7, OneMoreRecord
  <2>. QED
    BY <1>3, <2>1, <2>2
<1>. QED
  BY <1>3, <1>7, <1>8, <1>9

\* The window store after one more record.
LEMMA ProcessState ==
  ASSUME TypeOK, SafeInv, StateOK(pos, wm, acc), NEW t \in Topics, Process(t)
  PROVE  StateOK(pos, wm, acc)'
<1>1. /\ log' = log
      /\ pos' = [pos EXCEPT ![t] = @ + 1]
      /\ wm' = [wm EXCEPT ![t][Next1(t).key] = Latest(t)]
      /\ acc' = [w \in Windows |->
                   IF w \in Closing(t) THEN NoAcc ELSE Folded(t)[w]]
      /\ pos[t] < Len(log[t]) /\ Next1(t).val # Null /\ pos[t] \in Nat
  BY DEF Process, TypeOK
<1>2. Next1(t) \in Recs /\ Next1(t).key \in Keys
  <2>1. Next1(t) \in Recs
    BY <1>1, ProcessTypes
  <2>. QED
    BY <2>1 DEF Recs
<1>3. ASSUME NEW u \in Topics, NEW k \in Keys
      PROVE  WatermarkOK(u, k, pos'[u], wm'[u][k])
  <2>0. WatermarkOK(u, k, pos[u], wm[u][k])
    BY DEF StateOK
  <2>1. CASE u # t
    <3>1. pos'[u] = pos[u] /\ wm'[u][k] = wm[u][k]
      BY <1>1, <2>1 DEF TypeOK
    <3>. QED
      BY <2>0, <3>1
  <2>2. CASE u = t /\ k # Next1(t).key
    <3>1. pos'[u] = pos[u] + 1 /\ wm'[u][k] = wm[u][k]
      BY <1>1, <2>2 DEF TypeOK
    <3>2. 1..(pos[u] + 1) = 1..pos[u] \cup {pos[u] + 1}
      BY <1>1, <2>2
    <3>. QED
      BY <2>0, <2>2, <3>1, <3>2 DEF WatermarkOK, Next1
  <2>3. CASE u = t /\ k = Next1(t).key
    <3>1. pos'[u] = pos[u] + 1 /\ wm'[u][k] = Latest(t)
      BY <1>1, <2>3 DEF TypeOK
    <3>2. WatermarkOK(u, k, pos[u] + 1, Latest(t))
      BY <1>1, <2>0, <2>3, LatestWatermark
    <3>. QED
      BY <3>1, <3>2
  <2>. QED
    BY <2>1, <2>2, <2>3
<1>4. ASSUME NEW w \in Windows
      PROVE  acc'[w].members = IF ClosedBy(w, pos'[w.topic]) THEN {}
                               ELSE OnTime(w, pos'[w.topic])
  <2>1. CASE w.topic # t
    <3>1. pos'[w.topic] = pos[w.topic] /\ acc'[w] = acc[w]
      BY <1>1, <2>1, WindowFacts DEF TypeOK, Closing, Folded
    <3>. QED
      BY <3>1 DEF StateOK
  <2>2. CASE w.topic = t
    <3>1. pos'[w.topic] = pos[t] + 1
      BY <1>1, <2>2 DEF TypeOK
    <3>2. /\ Folded(t)[w].members = IF ClosedBy(w, pos[t]) THEN {}
                                     ELSE OnTime(w, pos[t] + 1)
          /\ w \in Closing(t) <=> ClosedBy(w, pos[t] + 1)
                                   /\ Folded(t)[w].members # {}
      BY <2>2, ProcessWindow
    <3>3. ClosedBy(w, pos[t]) => ClosedBy(w, pos[t] + 1)
      BY <1>1, OneMoreRecord
    <3>4. CASE w \in Closing(t)
      BY <1>1, <3>1, <3>2, <3>4 DEF NoAcc
    <3>5. CASE w \notin Closing(t)
      <4>1. acc'[w] = Folded(t)[w]
        BY <1>1, <3>5
      <4>. QED
        BY <3>1, <3>2, <3>3, <3>5, <4>1
    <3>. QED
      BY <3>4, <3>5
  <2>. QED
    BY <2>1, <2>2
<1>5. \A t_1 \in Topics : \A k \in Keys : WatermarkOK(t_1, k, pos[t_1], wm[t_1][k])'
  BY <1>1, <1>3 DEF WatermarkOK
<1>6. \A w \in Windows :
        (acc[w].members = IF ClosedBy(w, pos[w.topic]) THEN {}
                          ELSE OnTime(w, pos[w.topic]))'
  BY <1>1, <1>4 DEF ClosedBy, OnTime, InWindow
<1>. QED
  BY <1>5, <1>6 DEF StateOK

\* Steps that touch neither the log nor the state directory leave the latter
\* consistent.
LEMMA SavedUntouched ==
  ASSUME log' = log, saved' = saved, StateOK(saved.pos, saved.wm, saved.acc)
  PROVE  StateOK(saved.pos, saved.wm, saved.acc)'
<1>1. \A t \in Topics : \A k \in Keys :
        WatermarkOK(t, k, saved.pos[t], saved.wm[t][k])'
  BY DEF StateOK, WatermarkOK
<1>2. \A w \in Windows :
        (saved.acc[w].members = IF ClosedBy(w, saved.pos[w.topic]) THEN {}
                                ELSE OnTime(w, saved.pos[w.topic]))'
  BY DEF StateOK, ClosedBy, OnTime, InWindow
<1>. QED
  BY <1>1, <1>2 DEF StateOK

LEMMA IntactProcess ==
  ASSUME TypeOK, SafeInv, IntactInv, NEW t \in Topics, Process(t)
  PROVE  IntactInv'
<1> DEFINE n == pos[t]
<1>1. /\ log' = log /\ saved' = saved /\ committed' = committed
      /\ status = "running" /\ status' = status
      /\ n < Len(log[t]) /\ n \in Nat /\ Len(log[t]) \in Nat
      /\ pos' = [pos EXCEPT ![t] = @ + 1]
      /\ dropped' = dropped \cup {<<t, n + 1, l>> : l \in LateLabels(t)}
      /\ Next1(t).val # Null /\ Next1(t) = log[t][n + 1]
  BY DEF Process, TypeOK, Next1
<1>2. /\ StateOK(pos, wm, acc)
      /\ Covered(pos, Published \cup Queued)
      /\ LateReported(pos)
  BY <1>1 DEF IntactInv
<1>3. StateOK(pos, wm, acc)'
  BY <1>2, ProcessState
<1>4. /\ Published' = Published
      /\ Queued' = Queued \cup {Finalize(w, Folded(t)[w]) : w \in Closing(t)}
  BY ProcessMoves
<1>5. ASSUME NEW w \in Windows, w.topic = t
      PROVE  /\ Folded(t)[w].members = IF ClosedBy(w, n) THEN {}
                                       ELSE OnTime(w, n + 1)
             /\ w \in Closing(t) <=> ClosedBy(w, n + 1)
                                     /\ Folded(t)[w].members # {}
             /\ w.key = Next1(t).key
                  => (Expired(w, Latest(t)) <=> ClosedBy(w, n + 1))
  BY <1>2, <1>5, ProcessWindow
<1>6. ASSUME NEW w \in Windows, ClosedBy(w, pos'[w.topic]),
             OnTime(w, pos'[w.topic]) # {}
      PROVE  \E o \in Published' \cup Queued' : o.win = w
  <2>1. CASE w.topic # t
    <3>1. pos'[w.topic] = pos[w.topic]
      BY <1>1, <2>1, WindowFacts DEF TypeOK
    <3>. QED
      BY <1>2, <1>4, <1>6, <3>1 DEF Covered
  <2>2. CASE w.topic = t /\ ClosedBy(w, n)
    <3>1. pos'[w.topic] = n + 1 /\ n + 1 \in Nat /\ n <= n + 1
      BY <1>1, <2>2 DEF TypeOK
    <3>2. OnTime(w, n + 1) = OnTime(w, n)
      BY <1>1, <2>2, <3>1, ClosedForGood
    <3>. QED
      BY <1>2, <1>4, <1>6, <2>2, <3>1, <3>2 DEF Covered
  <2>3. CASE w.topic = t /\ ~ClosedBy(w, n)
    <3>1. pos'[w.topic] = n + 1
      BY <1>1, <2>3 DEF TypeOK
    <3>2. w \in Closing(t)
      BY <1>5, <1>6, <2>3, <3>1
    <3>3. Finalize(w, Folded(t)[w]).win = w
      BY DEF Finalize
    <3>. QED
      BY <1>4, <3>2, <3>3
  <2>. QED
    BY <2>1, <2>2, <2>3
<1>7. Covered(pos, Published \cup Queued)'
  BY <1>1, <1>6 DEF Covered, ClosedBy, OnTime, InWindow
<1>8. ASSUME NEW o \in Published' \cup Queued'
      PROVE  /\ ClosedBy(o.win, Len(log[o.win.topic]))
             /\ o.members = OnTime(o.win, Len(log[o.win.topic]))
  <2>1. CASE o \in Published \cup Queued
    BY <2>1 DEF IntactInv, ExactOutputs
  <2>2. CASE o \notin Published \cup Queued
    <3>1. PICK w \in Closing(t) : o = Finalize(w, Folded(t)[w])
      BY <1>4, <2>2
    <3>2. w \in Windows /\ w.topic = t
      BY DEF Closing
    <3>3. o.win = w /\ o.members = Folded(t)[w].members
      BY <3>1 DEF Finalize
    <3>4. ClosedBy(w, n + 1) /\ o.members = OnTime(w, n + 1)
      BY <1>5, <3>2, <3>3
    <3>5. /\ ClosedBy(w, Len(log[t]))
          /\ OnTime(w, Len(log[t])) = OnTime(w, n + 1)
      <4>1. n + 1 \in Nat /\ n + 1 <= Len(log[t])
        BY <1>1
      <4>. QED
        BY <1>1, <3>2, <3>4, <4>1, ClosedForGood
    <3>. QED
      BY <3>2, <3>3, <3>4, <3>5
  <2>. QED
    BY <2>1, <2>2
<1>9. ExactOutputs'
  BY <1>1, <1>8 DEF ExactOutputs, ClosedBy, OnTime, InWindow
<1>10. ASSUME NEW l \in Labels
       PROVE  l \in LateLabels(t) <=> ClosedBy(WindowOf(t, log[t][n + 1], l), n + 1)
  <2> DEFINE w == WindowOf(t, log[t][n + 1], l)
  <2>1. Next1(t) \in Recs
    BY <1>1, ProcessTypes
  <2>2. w \in Windows
    BY <1>1, <2>1, WindowOfType
  <2>3. w.topic = t /\ w.key = Next1(t).key
    BY <1>1 DEF WindowOf
  <2>4. Expired(w, Latest(t)) <=> ClosedBy(w, n + 1)
    BY <1>5, <2>2, <2>3
  <2>. QED
    BY <1>1, <2>4 DEF LateLabels
<1>11. ASSUME NEW u \in Topics, NEW l \in Labels, NEW i \in 1..pos'[u],
              ClosedBy(WindowOf(u, log[u][i], l), i)
       PROVE  <<u, i, l>> \in dropped'
  <2>1. CASE u # t
    BY <1>1, <1>2, <1>11, <2>1 DEF LateReported, TypeOK
  <2>2. CASE u = t /\ i = n + 1
    BY <1>1, <1>10, <1>11, <2>2
  <2>3. CASE u = t /\ i # n + 1
    <3>1. i \in 1..pos[u]
      BY <1>1, <2>3 DEF TypeOK
    <3>. QED
      BY <1>1, <1>2, <1>11, <3>1 DEF LateReported
  <2>. QED
    BY <2>1, <2>2, <2>3
<1>12. LateReported(pos)'
  <2> SUFFICES ASSUME NEW u \in Topics, NEW l \in Labels, NEW i \in 1..pos'[u],
                      ClosedBy(WindowOf(u, log[u][i], l), i)'
               PROVE  <<u, i, l>> \in dropped'
    BY DEF LateReported
  <2>1. ClosedBy(WindowOf(u, log[u][i], l), i)
    BY <1>1 DEF ClosedBy, WindowOf
  <2>. QED
    BY <1>11, <2>1
<1>13. LateReported(committed)'
  BY <1>1 DEF IntactInv, LateReported, ClosedBy, WindowOf
<1>14. OnlyLateReported'
  <2> SUFFICES ASSUME NEW d \in dropped'
               PROVE  /\ d[2] \in 1..Len(log[d[1]])
                      /\ ClosedBy(WindowOf(d[1], log[d[1]][d[2]], d[3]), d[2])
    BY <1>1 DEF OnlyLateReported, ClosedBy, WindowOf
  <2>1. CASE d \in dropped
    BY <2>1 DEF IntactInv, OnlyLateReported
  <2>2. CASE d \notin dropped
    <3>1. PICK l \in LateLabels(t) : d = <<t, n + 1, l>>
      BY <1>1, <2>2
    <3>2. l \in Labels
      BY DEF LateLabels
    <3>3. d[1] = t /\ d[2] = n + 1 /\ d[3] = l /\ n + 1 \in 1..Len(log[t])
      BY <1>1, <3>1
    <3>. QED
      BY <1>10, <3>2, <3>3
  <2>. QED
    BY <2>1, <2>2
<1>15. StateOK(saved.pos, saved.wm, saved.acc)'
  BY <1>1, SavedUntouched DEF IntactInv
<1>16. Covered(committed, Published)'
  BY <1>1, <1>4 DEF IntactInv, Covered, ClosedBy, OnTime, InWindow
<1>. QED
  BY <1>3, <1>7, <1>9, <1>12, <1>13, <1>14, <1>15, <1>16 DEF IntactInv

\* What was consumed, committed or saved is a prefix of the log.
LEMMA PrefixBounds ==
  ASSUME TypeOK, OffsetsOK, NEW t \in Topics
  PROVE  /\ pos[t] \in Nat /\ pos[t] <= Len(log[t])
         /\ committed[t] \in Nat /\ committed[t] <= Len(log[t])
         /\ saved.pos[t] \in Nat /\ saved.pos[t] <= Len(log[t])
<1>1. /\ saved.pos[t] \in Nat /\ committed[t] \in Nat /\ pos[t] \in Nat
      /\ Len(log[t]) \in Nat
  BY DEF TypeOK
<1>2. saved.pos[t] <= committed[t] /\ committed[t] <= pos[t] /\ pos[t] <= Len(log[t])
  BY DEF OffsetsOK
<1>. QED
  BY <1>1, <1>2

LEMMA IntactProduce ==
  ASSUME TypeOK, SafeInv, IntactInv, NEW t \in Topics, NEW r \in Recs, Produce(t, r)
  PROVE  IntactInv'
<1>1. UNCHANGED <<pos, wm, acc, dropped, outbox, metrics, committed, saved,
                  status, crashes, intact>>
  BY DEF Produce
<1>2. \A u \in Topics :
        /\ Len(log[u]) \in Nat /\ Len(log'[u]) \in Nat
        /\ Len(log[u]) <= Len(log'[u])
        /\ \A i \in 1..Len(log[u]) : log'[u][i] = log[u][i]
  BY ProduceExtends
<1>3. \A u \in Topics :
        /\ pos[u] \in Nat /\ pos[u] <= Len(log[u])
        /\ committed[u] \in Nat /\ committed[u] <= Len(log[u])
        /\ saved.pos[u] \in Nat /\ saved.pos[u] <= Len(log[u])
  BY PrefixBounds DEF SafeInv
<1>4. \A w \in Windows, n \in Nat :
        n <= Len(log[w.topic]) => /\ ClosedBy(w, n)' <=> ClosedBy(w, n)
                                  /\ OnTime(w, n)' = OnTime(w, n)
  BY ProduceKeepsHistory
<1>5. \A w \in Windows : w.topic \in Topics
  BY WindowFacts
<1>6. status # "down" => StateOK(pos, wm, acc)'
  <2> SUFFICES ASSUME status # "down" PROVE StateOK(pos, wm, acc)'
    OBVIOUS
  <2>0. StateOK(pos, wm, acc)
    BY DEF IntactInv
  <2>1. ASSUME NEW u \in Topics, NEW k \in Keys
        PROVE  WatermarkOK(u, k, pos[u], wm[u][k])'
    <3>1. WatermarkOK(u, k, pos[u], wm[u][k])
      BY <2>0 DEF StateOK
    <3>2. \A i \in 1..pos[u] : log'[u][i] = log[u][i]
      BY <1>2, <1>3
    <3>. QED
      BY <1>1, <3>1, <3>2 DEF WatermarkOK
  <2>2. ASSUME NEW w \in Windows
        PROVE  (acc[w].members = IF ClosedBy(w, pos[w.topic]) THEN {}
                                 ELSE OnTime(w, pos[w.topic]))'
    <3>1. PICK n \in Nat : n = pos[w.topic] /\ n <= Len(log[w.topic])
      BY <1>3, <1>5
    <3>2. acc[w].members = IF ClosedBy(w, n) THEN {} ELSE OnTime(w, n)
      BY <2>0, <3>1 DEF StateOK
    <3>3. acc'[w].members = IF ClosedBy(w, n)' THEN {} ELSE OnTime(w, n)'
      BY <1>1, <1>4, <3>1, <3>2
    <3>. QED
      BY <1>1, <3>1, <3>3 DEF ClosedBy, OnTime
  <2>. QED
    BY <2>1, <2>2 DEF StateOK
<1>7. StateOK(saved.pos, saved.wm, saved.acc)'
  <2>0. StateOK(saved.pos, saved.wm, saved.acc)
    BY DEF IntactInv
  <2>1. ASSUME NEW u \in Topics, NEW k \in Keys
        PROVE  WatermarkOK(u, k, saved.pos[u], saved.wm[u][k])'
    <3>1. WatermarkOK(u, k, saved.pos[u], saved.wm[u][k])
      BY <2>0 DEF StateOK
    <3>2. \A i \in 1..saved.pos[u] : log'[u][i] = log[u][i]
      BY <1>2, <1>3
    <3>. QED
      BY <1>1, <3>1, <3>2 DEF WatermarkOK
  <2>2. ASSUME NEW w \in Windows
        PROVE  (saved.acc[w].members = IF ClosedBy(w, saved.pos[w.topic]) THEN {}
                                       ELSE OnTime(w, saved.pos[w.topic]))'
    <3>1. PICK n \in Nat : n = saved.pos[w.topic] /\ n <= Len(log[w.topic])
      BY <1>3, <1>5
    <3>2. saved.acc[w].members = IF ClosedBy(w, n) THEN {} ELSE OnTime(w, n)
      BY <2>0, <3>1 DEF StateOK
    <3>3. saved'.acc[w].members = IF ClosedBy(w, n)' THEN {} ELSE OnTime(w, n)'
      BY <1>1, <1>4, <3>1, <3>2
    <3>. QED
      BY <1>1, <3>1, <3>3 DEF ClosedBy, OnTime
  <2>. QED
    BY <2>1, <2>2 DEF StateOK
<1>8. status # "down" => Covered(pos, Published \cup Queued)'
  <2> SUFFICES ASSUME status # "down", NEW w \in Windows,
                      ClosedBy(w, pos[w.topic])', OnTime(w, pos[w.topic])' # {}
               PROVE  (\E o \in Published \cup Queued : o.win = w)'
    BY DEF Covered
  <2>1. PICK n \in Nat : n = pos[w.topic] /\ n <= Len(log[w.topic])
    BY <1>3, <1>5
  <2>2. ClosedBy(w, n)' /\ OnTime(w, n)' # {}
    BY <1>1, <2>1 DEF ClosedBy, OnTime
  <2>3. ClosedBy(w, n) /\ OnTime(w, n) # {}
    BY <1>4, <2>1, <2>2
  <2>. QED
    BY <1>1, <2>1, <2>3 DEF IntactInv, Covered, Published, Queued
<1>9. Covered(committed, Published)'
  <2> SUFFICES ASSUME NEW w \in Windows, ClosedBy(w, committed[w.topic])',
                      OnTime(w, committed[w.topic])' # {}
               PROVE  (\E o \in Published : o.win = w)'
    BY DEF Covered
  <2>1. PICK n \in Nat : n = committed[w.topic] /\ n <= Len(log[w.topic])
    BY <1>3, <1>5
  <2>2. ClosedBy(w, n)' /\ OnTime(w, n)' # {}
    BY <1>1, <2>1 DEF ClosedBy, OnTime
  <2>3. ClosedBy(w, n) /\ OnTime(w, n) # {}
    BY <1>4, <2>1, <2>2
  <2>. QED
    BY <1>1, <2>1, <2>3 DEF IntactInv, Covered, Published
<1>10. ASSUME NEW u \in Topics, NEW l \in Labels, NEW i \in 1..Len(log[u])
       PROVE  ClosedBy(WindowOf(u, log[u][i], l), i)'
                <=> ClosedBy(WindowOf(u, log[u][i], l), i)
  <2>1. PICK w : w = WindowOf(u, log[u][i], l)
    OBVIOUS
  <2>2. log[u][i] \in Recs /\ log'[u][i] = log[u][i]
    BY <1>2 DEF TypeOK
  <2>3. w \in Windows /\ w.topic = u
    BY <2>1, <2>2, WindowOfType DEF WindowOf
  <2>4. ClosedBy(w, i)' <=> ClosedBy(w, i)
    BY <1>2, <1>4, <2>3
  <2>5. w = WindowOf(u, log'[u][i], l)
    BY <2>1, <2>2
  <2>6. ClosedBy(WindowOf(u, log[u][i], l), i)' <=> ClosedBy(w, i)'
    BY <2>5 DEF ClosedBy, WindowOf
  <2>. QED
    BY <2>1, <2>4, <2>6
<1>11. status # "down" => LateReported(pos)'
  <2> SUFFICES ASSUME status # "down",
                      NEW u \in Topics, NEW l \in Labels, NEW i \in 1..pos[u],
                      ClosedBy(WindowOf(u, log[u][i], l), i)'
               PROVE  <<u, i, l>> \in dropped
    BY <1>1 DEF LateReported
  <2>1. i \in 1..Len(log[u])
    BY <1>2, <1>3
  <2>. QED
    BY <1>10, <2>1 DEF IntactInv, LateReported
<1>12. LateReported(committed)'
  <2> SUFFICES ASSUME NEW u \in Topics, NEW l \in Labels, NEW i \in 1..committed[u],
                      ClosedBy(WindowOf(u, log[u][i], l), i)'
               PROVE  <<u, i, l>> \in dropped
    BY <1>1 DEF LateReported
  <2>1. i \in 1..Len(log[u])
    BY <1>2, <1>3
  <2>. QED
    BY <1>10, <2>1 DEF IntactInv, LateReported
<1>13. OnlyLateReported'
  <2> SUFFICES ASSUME NEW d \in dropped
               PROVE  (/\ d[2] \in 1..Len(log[d[1]])
                       /\ ClosedBy(WindowOf(d[1], log[d[1]][d[2]], d[3]), d[2]))'
    BY <1>1 DEF OnlyLateReported
  <2>1. d[1] \in Topics /\ d[2] \in Nat /\ d[3] \in Labels
    BY DEF TypeOK
  <2>2. /\ d[2] \in 1..Len(log[d[1]])
        /\ ClosedBy(WindowOf(d[1], log[d[1]][d[2]], d[3]), d[2])
    BY DEF IntactInv, OnlyLateReported
  <2>3. d[2] \in 1..Len(log'[d[1]])
    BY <1>2, <2>1, <2>2
  <2>. QED
    BY <1>10, <2>1, <2>2, <2>3
<1>14. ExactOutputs'
  <2> SUFFICES ASSUME NEW o \in Published \cup Queued
               PROVE  (/\ ClosedBy(o.win, Len(log[o.win.topic]))
                       /\ o.members = OnTime(o.win, Len(log[o.win.topic])))'
    BY <1>1 DEF ExactOutputs, Published, Queued
  <2>1. o.win \in Windows
    BY OutputsType DEF Outputs
  <2>2. /\ ClosedBy(o.win, Len(log[o.win.topic]))
        /\ o.members = OnTime(o.win, Len(log[o.win.topic]))
    BY DEF IntactInv, ExactOutputs
  <2>. QED
    BY <2>1, <2>2, ProduceKeepsClosed
<1>. QED
  BY <1>1, <1>6, <1>7, <1>8, <1>9, <1>11, <1>12, <1>13, <1>14 DEF IntactInv

\* The other steps leave the log and the late reports alone and add no output.
LEMMA FrameExact ==
  ASSUME ExactOutputs, log' = log,
         Published' \cup Queued' \subseteq Published \cup Queued
  PROVE  ExactOutputs'
BY DEF ExactOutputs, ClosedBy, OnTime, InWindow

LEMMA FrameReports ==
  ASSUME log' = log, dropped' = dropped
  PROVE  /\ OnlyLateReported => OnlyLateReported'
         /\ pos' = pos /\ LateReported(pos) => LateReported(pos)'
         /\ committed' = committed /\ LateReported(committed)
              => LateReported(committed)'
         /\ committed' = pos /\ LateReported(pos) => LateReported(committed)'
         /\ pos' = committed /\ LateReported(committed) => LateReported(pos)'
BY DEF OnlyLateReported, LateReported, ClosedBy, WindowOf

LEMMA FrameState ==
  ASSUME log' = log, pos' = pos, wm' = wm, acc' = acc, StateOK(pos, wm, acc)
  PROVE  StateOK(pos, wm, acc)'
<1>1. \A t \in Topics : \A k \in Keys : WatermarkOK(t, k, pos[t], wm[t][k])'
  BY DEF StateOK, WatermarkOK
<1>2. \A w \in Windows :
        (acc[w].members = IF ClosedBy(w, pos[w.topic]) THEN {}
                          ELSE OnTime(w, pos[w.topic]))'
  BY DEF StateOK, ClosedBy, OnTime, InWindow
<1>. QED
  BY <1>1, <1>2 DEF StateOK

LEMMA FrameCovered ==
  ASSUME log' = log
  PROVE  /\ /\ pos' = pos
            /\ Covered(pos, Published \cup Queued)
            /\ Published \cup Queued \subseteq Published' \cup Queued'
            => Covered(pos, Published \cup Queued)'
         /\ /\ committed' = committed
            /\ Covered(committed, Published)
            /\ Published \subseteq Published'
            => Covered(committed, Published)'
<1>1. ASSUME pos' = pos, Covered(pos, Published \cup Queued),
             Published \cup Queued \subseteq Published' \cup Queued'
      PROVE  Covered(pos, Published \cup Queued)'
  <2> SUFFICES ASSUME NEW w \in Windows,
                      ClosedBy(w, pos[w.topic])', OnTime(w, pos[w.topic])' # {}
               PROVE  (\E o \in Published \cup Queued : o.win = w)'
    BY DEF Covered
  <2>1. ClosedBy(w, pos[w.topic]) /\ OnTime(w, pos[w.topic]) # {}
    BY <1>1 DEF ClosedBy, OnTime, InWindow
  <2>. QED
    BY <1>1, <2>1 DEF Covered
<1>2. ASSUME committed' = committed, Covered(committed, Published),
             Published \subseteq Published'
      PROVE  Covered(committed, Published)'
  <2> SUFFICES ASSUME NEW w \in Windows,
                      ClosedBy(w, committed[w.topic])',
                      OnTime(w, committed[w.topic])' # {}
               PROVE  (\E o \in Published : o.win = w)'
    BY DEF Covered
  <2>1. ClosedBy(w, committed[w.topic]) /\ OnTime(w, committed[w.topic]) # {}
    BY <1>2 DEF ClosedBy, OnTime, InWindow
  <2>. QED
    BY <1>2, <2>1 DEF Covered
<1>. QED
  BY <1>1, <1>2

LEMMA IntactNext ==
  TypeOK /\ SafeInv /\ (intact => IntactInv) /\ [Next]_vars
    => (intact => IntactInv)'
<1> SUFFICES ASSUME TypeOK, SafeInv, intact => IntactInv, [Next]_vars, intact'
             PROVE  IntactInv'
  OBVIOUS
<1>0. intact /\ IntactInv
  BY DEF Next, vars, Produce, Process, ProcessFails, Deliver, CommitOffsets,
         FlushState, IdleStop, Crash, LoseStateDir, Restart
<1> USE <1>0
<1>1. ASSUME UNCHANGED <<log, pos, wm, acc, dropped, committed, saved>>,
             status # "down" \/ status' = "down",
             Published \subseteq Published',
             status' # "down" => Published' \cup Queued' = Published \cup Queued,
             Published' \cup Queued' \subseteq Published \cup Queued
      PROVE  IntactInv'
  BY <1>1, SavedUntouched, FrameExact, FrameReports, FrameState, FrameCovered
  DEF IntactInv
<1>2. CASE UNCHANGED vars
  BY <1>2, <1>1, SavedUntouched, FrameExact, FrameReports, FrameState, FrameCovered
  DEF vars, IntactInv, Published, Queued
<1>3. ASSUME NEW t \in Topics, NEW r \in Recs, Produce(t, r) PROVE IntactInv'
  BY <1>3, IntactProduce
<1>4. ASSUME NEW t \in Topics, Process(t) PROVE IntactInv'
  BY <1>4, IntactProcess
<1>5. ASSUME NEW t \in Topics, ProcessFails(t) PROVE IntactInv'
  BY <1>5, <1>1, LoseQueueMoves DEF ProcessFails
<1>6. CASE Deliver
  BY <1>6, <1>1, DeliverMoves DEF Deliver
<1>7. CASE CommitOffsets
  <2>1. /\ log' = log /\ pos' = pos /\ wm' = wm /\ acc' = acc
        /\ dropped' = dropped /\ saved' = saved /\ committed' = pos
        /\ outbox = <<>> /\ outbox' = outbox /\ metrics' = metrics
        /\ status # "down"
    BY <1>7 DEF CommitOffsets
  <2>2. Published' = Published /\ Queued' = {} /\ Queued = {}
    BY <2>1, FlatOutputs, FlatOutputsPrime, FlatEmpty
  <2>3. Covered(pos, Published \cup Queued)'
    BY <2>1, <2>2, FrameCovered DEF IntactInv
  <2>4. Covered(committed, Published)'
    BY <2>1, <2>2, <2>3 DEF Covered
  <2>. QED
    BY <2>1, <2>2, <2>3, <2>4, SavedUntouched, FrameExact, FrameReports, FrameState
    DEF IntactInv
<1>8. CASE FlushState
  <2>1. /\ log' = log /\ pos' = pos /\ wm' = wm /\ acc' = acc
        /\ dropped' = dropped /\ committed' = committed
        /\ saved' = [pos |-> pos, wm |-> wm, acc |-> acc]
        /\ status = "checkpointing"
    BY <1>8 DEF FlushState
  <2>2. Published' = Published /\ Queued' = Queued
    BY <1>8 DEF FlushState, Published, Queued
  <2>3. StateOK(pos, wm, acc)'
    BY <2>1, FrameState DEF IntactInv
  <2>4. StateOK(saved.pos, saved.wm, saved.acc)'
    BY <2>1, <2>3
  <2>. QED
    BY <2>1, <2>2, <2>3, <2>4, FrameExact, FrameReports, FrameCovered DEF IntactInv
<1>9. CASE IdleStop
  <2>1. Published' = Published /\ Queued' = Queued
    BY <1>9 DEF IdleStop, Published, Queued
  <2>. QED
    BY <1>9, <1>1, <2>1 DEF IdleStop
<1>10. CASE Crash
  BY <1>10, <1>1, LoseQueueMoves DEF Crash
<1>11. CASE LoseStateDir
  <2>1. /\ UNCHANGED <<log, pos, wm, acc, dropped, committed, outbox, metrics>>
        /\ status = "down" /\ status' = "down" /\ saved' = NoState
    BY <1>11 DEF LoseStateDir
  <2>2. Published' = Published /\ Queued' = Queued
    BY <2>1 DEF Published, Queued
  <2>3. StateOK(saved.pos, saved.wm, saved.acc)'
    <3>1. \A t \in Topics : NoState.pos[t] = 0
      BY DEF NoState
    <3>2. \A t \in Topics : \A k \in Keys :
            WatermarkOK(t, k, saved.pos[t], saved.wm[t][k])'
      BY <2>1, <3>1 DEF NoState, WatermarkOK
    <3>3. \A w \in Windows :
            (saved.acc[w].members = IF ClosedBy(w, saved.pos[w.topic]) THEN {}
                                    ELSE OnTime(w, saved.pos[w.topic]))'
      <4> SUFFICES ASSUME NEW w \in Windows
                   PROVE  (saved.acc[w].members =
                             IF ClosedBy(w, saved.pos[w.topic]) THEN {}
                             ELSE OnTime(w, saved.pos[w.topic]))'
        OBVIOUS
      <4>1. saved'.pos[w.topic] = 0
        BY <2>1, <3>1, WindowFacts
      <4>2. saved'.acc[w].members = {}
        BY <2>1 DEF NoState, NoAcc
      <4>3. OnTime(w, saved.pos[w.topic])' = {}
        BY <4>1 DEF OnTime
      <4>. QED
        BY <4>2, <4>3
    <3>. QED
      BY <3>2, <3>3 DEF StateOK
  <2>. QED
    BY <2>1, <2>2, <2>3, FrameExact, FrameReports, FrameCovered DEF IntactInv
<1>12. CASE Restart
  <2>1. /\ log' = log /\ dropped' = dropped /\ committed' = committed
        /\ saved' = saved /\ outbox' = outbox /\ metrics' = metrics
        /\ pos' = committed /\ wm' = saved.wm /\ acc' = saved.acc
        /\ saved.pos = committed
    BY <1>12 DEF Restart
  <2>2. Published' = Published /\ Queued' = Queued
    BY <2>1 DEF Published, Queued
  <2>3. StateOK(saved.pos, saved.wm, saved.acc)'
    BY <2>1, SavedUntouched DEF IntactInv
  <2>4. StateOK(pos, wm, acc)'
    BY <2>1, <2>3
  <2>5. Covered(committed, Published)'
    BY <2>1, <2>2, FrameCovered DEF IntactInv
  <2>6. Covered(pos, Published \cup Queued)'
    BY <2>1, <2>5 DEF Covered
  <2>. QED
    BY <2>1, <2>2, <2>3, <2>4, <2>5, <2>6, FrameExact, FrameReports DEF IntactInv
<1>. QED
  BY <1>2, <1>3, <1>4, <1>5, <1>6, <1>7, <1>8, <1>9, <1>10, <1>11, <1>12 DEF Next

-----------------------------------------------------------------------------
(* The theorems.                                                           *)

\* The inductive invariant holds in every state of the processor.
THEOREM InvHolds == Spec => []Inv
<1>1. Init => Inv
  BY InitType, InitSafe, InitIntact DEF Inv
<1>2. Inv /\ [Next]_vars => Inv'
  BY NextType, SafeNext, IntactNext DEF Inv
<1>. QED
  BY <1>1, <1>2, PTL DEF Spec

\* Every window record the processor emits, now or again after a crash, covers
\* exactly the records that came before its window closed.
THEOREM ProcessorEmitsExactWindows == Spec => []ExactWindows
<1>1. Inv => ExactWindows
  BY DEF Inv, SafeInv, IntactInv, OutputsOK, OutputOK, CountsOK, ExactOutputs,
         ExactWindows
<1>. QED
  BY InvHolds, <1>1, PTL

\* A window closed by committed records has been published.
THEOREM ProcessorLosesNoWindow == Spec => []CommittedWindowsPublished
<1>1. Inv => CommittedWindowsPublished
  BY DEF Inv, IntactInv, Covered, CommittedWindowsPublished
<1>. QED
  BY InvHolds, <1>1, PTL

\* Every consumed record is in its open window, in an emitted one, or was
\* reported late, and a late record is in neither.
THEOREM ProcessorConservesRecords == Spec => []RecordsConserved
<1>1. ASSUME Inv PROVE RecordsConserved
  <2> SUFFICES ASSUME intact, status # "down",
                      NEW t \in Topics, NEW l \in Labels, NEW i \in 1..pos[t]
      PROVE LET w       == WindowOf(t, log[t][i], l)
                open    == i \in acc[w].members
                emitted == \E o \in Published \cup Queued :
                              o.win = w /\ i \in o.members
                late    == <<t, i, l>> \in dropped
            IN /\ open \/ emitted \/ late
               /\ ~(late /\ (open \/ emitted))
    BY DEF RecordsConserved
  <2> DEFINE w == WindowOf(t, log[t][i], l)
             S == Published \cup Queued
  <2>0. TypeOK /\ SafeInv /\ IntactInv
    BY <1>1 DEF Inv
  <2>1. /\ pos[t] \in Nat /\ pos[t] <= Len(log[t]) /\ i \in 1..Len(log[t])
        /\ Len(log[t]) \in Nat
    <3>1. OffsetsOK
      BY <2>0 DEF SafeInv
    <3>2. pos[t] \in Nat /\ pos[t] <= Len(log[t])
      BY <2>0, <3>1, PrefixBounds
    <3>3. Len(log[t]) \in Nat
      BY <2>0 DEF TypeOK
    <3>. QED
      BY <3>2, <3>3
  <2>2. w \in Windows /\ w.topic = t /\ InWindow(log[t][i], w)
    <3>1. log[t][i] \in Recs
      BY <2>0, <2>1 DEF TypeOK
    <3>. QED
      BY <3>1, WindowOfType DEF WindowOf, InWindow
  <2>3. /\ acc[w].members = IF ClosedBy(w, pos[t]) THEN {} ELSE OnTime(w, pos[t])
        /\ ClosedBy(w, pos[t]) /\ OnTime(w, pos[t]) # {} => \E o \in S : o.win = w
        /\ ClosedBy(w, i) => <<t, i, l>> \in dropped
        /\ \A o \in S : o.members = OnTime(o.win, Len(log[o.win.topic]))
    <3>1. StateOK(pos, wm, acc) /\ Covered(pos, S) /\ LateReported(pos) /\ ExactOutputs
      BY <2>0 DEF IntactInv
    <3>2. acc[w].members = IF ClosedBy(w, pos[t]) THEN {} ELSE OnTime(w, pos[t])
      BY <2>2, <3>1 DEF StateOK
    <3>3. ClosedBy(w, pos[t]) /\ OnTime(w, pos[t]) # {} => \E o \in S : o.win = w
      BY <2>2, <3>1 DEF Covered
    <3>4. ClosedBy(w, i) => <<t, i, l>> \in dropped
      BY <3>1 DEF LateReported
    <3>5. \A o \in S : o.members = OnTime(o.win, Len(log[o.win.topic]))
      BY <3>1 DEF ExactOutputs
    <3>. QED
      BY <3>2, <3>3, <3>4, <3>5
  <2>4. <<t, i, l>> \in dropped => ClosedBy(w, i)
    <3>1. ASSUME <<t, i, l>> \in dropped PROVE ClosedBy(w, i)
      BY <2>0, <3>1 DEF IntactInv, OnlyLateReported
    <3>. QED
      BY <3>1
  <2>5. CASE ClosedBy(w, i)
    <3>1. ClosedBy(w, pos[t])
      BY <2>1, <2>2, <2>5, ClosedForGood
    <3>2. i \notin OnTime(w, Len(log[t]))
      BY <2>5 DEF OnTime
    <3>3. \A o \in S : o.win = w => i \notin o.members
      BY <2>2, <2>3, <3>2
    <3>. QED
      BY <2>3, <2>5, <3>1, <3>3
  <2>6. CASE ~ClosedBy(w, i)
    <3>1. i \in OnTime(w, pos[t]) /\ i \in OnTime(w, Len(log[t]))
      BY <2>1, <2>2, <2>6 DEF OnTime
    <3>2. CASE ClosedBy(w, pos[t])
      <4>1. PICK o \in S : o.win = w
        BY <2>3, <3>1, <3>2
      <4>2. i \in o.members
        BY <2>2, <2>3, <3>1, <4>1
      <4>. QED
        BY <2>4, <2>6, <4>1, <4>2
    <3>3. CASE ~ClosedBy(w, pos[t])
      BY <2>3, <2>4, <2>6, <3>1, <3>3
    <3>. QED
      BY <3>2, <3>3
  <2>. QED
    BY <2>5, <2>6
<1>. QED
  BY InvHolds, <1>1, PTL

\* On a log without late records the processor's output, once everything is
\* consumed and delivered, is that of the reference in metrics.py.
THEOREM ProcessorMatchesReference == Spec => []MatchesReference
<1>1. ASSUME Inv PROVE MatchesReference
  <2> SUFFICES ASSUME intact, Drained, NothingLate
               PROVE  /\ {o.win : o \in Published} = ReferenceWindows
                      /\ \A o \in Published : o.members = ReferenceMembers(o.win)
    BY DEF MatchesReference
  <2>1. TypeOK /\ SafeInv /\ IntactInv /\ status # "down"
    BY <1>1 DEF Inv, Drained
  <2>2. Queued = {}
    BY FlatOutputs, FlatEmpty DEF Drained
  <2>3. ASSUME NEW w \in Windows
        PROVE  /\ OnTime(w, Len(log[w.topic])) = ReferenceMembers(w)
               /\ pos[w.topic] = Len(log[w.topic])
    BY WindowFacts DEF NothingLate, Drained, OnTime, ReferenceMembers
  <2>4. ASSUME NEW o \in Published
        PROVE  o.win \in ReferenceWindows /\ o.members = ReferenceMembers(o.win)
    <3>1. o.win \in Windows
      BY <2>1, OutputsType DEF Outputs
    <3>2. /\ ClosedBy(o.win, Len(log[o.win.topic]))
          /\ o.members = OnTime(o.win, Len(log[o.win.topic]))
      BY <2>1 DEF IntactInv, ExactOutputs
    <3>3. o.members # {}
      BY <2>1 DEF SafeInv, OutputsOK, OutputOK
    <3>. QED
      BY <2>3, <3>1, <3>2, <3>3 DEF ReferenceWindows
  <2>5. ASSUME NEW w \in ReferenceWindows
        PROVE  \E o \in Published : o.win = w
    <3>1. /\ w \in Windows
          /\ ReferenceMembers(w) # {}
          /\ ClosedBy(w, Len(log[w.topic]))
      BY DEF ReferenceWindows
    <3>2. ClosedBy(w, pos[w.topic]) /\ OnTime(w, pos[w.topic]) # {}
      BY <2>3, <3>1
    <3>. QED
      BY <2>1, <2>2, <3>1, <3>2 DEF IntactInv, Covered
  <2>. QED
    BY <2>4, <2>5
<1>. QED
  BY InvHolds, <1>1, PTL

-----------------------------------------------------------------------------
(* How often a window is emitted.  None of this depends on `intact'.       *)

\* The batches of s that hold a result of window w.
Emits(batch, w) == \E o \in batch : o.win = w
EmittedIn(s, w) == {b \in 1..Len(s) : Emits(s[b], w)}
Emissions(s, w) == Cardinality(EmittedIn(s, w))

\* Only the topics that may carry null operands do.
NullsInv ==
  \A t \in Topics : \A i \in 1..Len(log[t]) : log[t][i].val = Null => t \in NullTopics

\* A window that has expired by the watermark is not open.
ExpiredIsGone(m, a) ==
  \A w \in Windows : Expired(w, m[w.topic][w.key]) => a[w].count = 0

\* Every crash allows for one more emission, and the one of this incarnation has
\* passed once the window has expired.
EmissionsInv ==
  NullTopics = {} =>
    \A w \in Windows :
      LET n == Emissions(metrics, w) + Emissions(outbox, w)
      IN /\ n <= crashes + 1
         /\ status = "down" => n <= crashes
         /\ n = crashes + 1 => Expired(w, wm[w.topic][w.key])

OnceInv ==
  NullsInv /\ ExpiredIsGone(wm, acc) /\ ExpiredIsGone(saved.wm, saved.acc) /\ EmissionsInv

LEMMA EmissionsType ==
  ASSUME NEW s \in Seq(SUBSET Outputs), NEW w
  PROVE  IsFiniteSet(EmittedIn(s, w)) /\ Emissions(s, w) \in Nat
<1>1. Len(s) \in Nat
  BY LenProperties
<1>2. IsFiniteSet(1..Len(s))
  BY <1>1, FS_Interval
<1>3. IsFiniteSet(EmittedIn(s, w))
  BY <1>2, FS_Subset DEF EmittedIn
<1>. QED
  BY <1>3, FS_CardinalityType DEF Emissions

LEMMA EmissionsNone == \A w : Emissions(<<>>, w) = 0
<1> TAKE w
<1>1. EmittedIn(<<>>, w) = {}
  BY DEF EmittedIn
<1>. QED
  BY <1>1, FS_EmptySet DEF Emissions

LEMMA EmissionsAppend ==
  ASSUME NEW s \in Seq(SUBSET Outputs), NEW batch \in SUBSET Outputs, NEW w
  PROVE  /\ Emits(batch, w) => Emissions(Append(s, batch), w) = Emissions(s, w) + 1
         /\ ~Emits(batch, w) => Emissions(Append(s, batch), w) = Emissions(s, w)
<1>1. /\ Append(s, batch) \in Seq(SUBSET Outputs) /\ Len(Append(s, batch)) = Len(s) + 1
      /\ \A i \in 1..Len(s) : Append(s, batch)[i] = s[i]
      /\ Append(s, batch)[Len(s) + 1] = batch
  BY AppendProperties
<1>2. Len(s) \in Nat
  BY LenProperties
<1>3. IsFiniteSet(EmittedIn(s, w)) /\ Len(s) + 1 \notin EmittedIn(s, w)
  BY <1>2, EmissionsType DEF EmittedIn
<1>4. CASE Emits(batch, w)
  <2>1. EmittedIn(Append(s, batch), w) = EmittedIn(s, w) \cup {Len(s) + 1}
    BY <1>1, <1>2, <1>4 DEF EmittedIn
  <2>2. Cardinality(EmittedIn(s, w) \cup {Len(s) + 1}) = Cardinality(EmittedIn(s, w)) + 1
    BY <1>3, FS_AddElement
  <2>. QED
    BY <1>4, <2>1, <2>2 DEF Emissions
<1>5. CASE ~Emits(batch, w)
  <2>1. EmittedIn(Append(s, batch), w) = EmittedIn(s, w)
    BY <1>1, <1>2, <1>5 DEF EmittedIn
  <2>. QED
    BY <1>5, <2>1 DEF Emissions
<1>. QED
  BY <1>4, <1>5

\* Moving a finite set of positions changes nothing about its size.
LEMMA ShiftedSet ==
  ASSUME NEW A \in SUBSET Nat, IsFiniteSet(A), NEW k \in Nat
  PROVE  /\ IsFiniteSet({n + k : n \in A})
         /\ Cardinality({n + k : n \in A}) = Cardinality(A)
<1> DEFINE B == {n + k : n \in A}
           f == [n \in A |-> n + k]
<1>1. f \in [A -> B]
  OBVIOUS
<1>2. \A m, n \in A : f[m] = f[n] => m = n
  OBVIOUS
<1>3. \A b \in B : \E n \in A : f[n] = b
  OBVIOUS
<1> HIDE DEF f, B
<1>4. f \in Bijection(A, B)
  BY <1>1, <1>2, <1>3 DEF Bijection, Injection, Surjection, IsInjective
<1>5. ExistsBijection(A, B)
  BY <1>4 DEF ExistsBijection
<1>6. IsFiniteSet(B) /\ Cardinality(B) = Cardinality(A)
  BY <1>5, FS_Bijection
<1>. QED
  BY <1>6 DEF B

LEMMA EmissionsConcat ==
  ASSUME NEW p \in Seq(SUBSET Outputs), NEW q \in Seq(SUBSET Outputs), NEW w
  PROVE  Emissions(p \o q, w) = Emissions(p, w) + Emissions(q, w)
<1> DEFINE A == EmittedIn(p, w)
           B == {n + Len(p) : n \in EmittedIn(q, w)}
<1>1. /\ Len(p \o q) = Len(p) + Len(q)
      /\ \A i \in 1..(Len(p) + Len(q)) :
           (p \o q)[i] = IF i <= Len(p) THEN p[i] ELSE q[i - Len(p)]
  BY ConcatProperties
<1>2. Len(p) \in Nat /\ Len(q) \in Nat
  BY LenProperties
<1>3. /\ IsFiniteSet(A) /\ Cardinality(A) \in Nat
      /\ IsFiniteSet(EmittedIn(q, w)) /\ Cardinality(EmittedIn(q, w)) \in Nat
      /\ EmittedIn(q, w) \in SUBSET Nat
  <2>1. IsFiniteSet(EmittedIn(p, w)) /\ IsFiniteSet(EmittedIn(q, w))
    BY EmissionsType
  <2>2. Cardinality(EmittedIn(p, w)) \in Nat /\ Cardinality(EmittedIn(q, w)) \in Nat
    BY <2>1, FS_CardinalityType
  <2>3. EmittedIn(q, w) \in SUBSET Nat
    BY <1>2 DEF EmittedIn
  <2>. QED
    BY <2>1, <2>2, <2>3
<1>4. IsFiniteSet(B) /\ Cardinality(B) = Emissions(q, w)
  BY <1>2, <1>3, ShiftedSet DEF Emissions
<1>5. EmittedIn(p \o q, w) = A \cup B
  <2>1. ASSUME NEW n \in EmittedIn(p \o q, w) PROVE n \in A \cup B
    <3>1. n \in 1..(Len(p) + Len(q)) /\ Emits((p \o q)[n], w)
      BY <1>1, <2>1 DEF EmittedIn
    <3>2. CASE n <= Len(p)
      BY <1>1, <1>2, <3>1, <3>2 DEF EmittedIn
    <3>3. CASE ~(n <= Len(p))
      <4>1. n - Len(p) \in 1..Len(q) /\ n = (n - Len(p)) + Len(p)
        BY <1>2, <3>1, <3>3
      <4>2. Emits(q[n - Len(p)], w)
        BY <1>1, <3>1, <3>3
      <4>3. n - Len(p) \in EmittedIn(q, w)
        BY <4>1, <4>2 DEF EmittedIn
      <4>. QED
        BY <4>1, <4>3
    <3>. QED
      BY <3>2, <3>3
  <2>2. ASSUME NEW n \in A PROVE n \in EmittedIn(p \o q, w)
    BY <1>1, <1>2, <2>2 DEF EmittedIn
  <2>3. ASSUME NEW n \in B PROVE n \in EmittedIn(p \o q, w)
    <3>1. PICK k \in EmittedIn(q, w) : n = k + Len(p)
      BY <2>3
    <3>2. k \in 1..Len(q) /\ Emits(q[k], w)
      BY DEF EmittedIn
    <3>3. n \in 1..(Len(p) + Len(q)) /\ ~(n <= Len(p)) /\ n - Len(p) = k
      BY <1>2, <3>1, <3>2
    <3>4. (p \o q)[n] = q[k]
      BY <1>1, <3>3
    <3>. QED
      BY <1>1, <3>2, <3>3, <3>4 DEF EmittedIn
  <2>. QED
    BY <2>1, <2>2, <2>3
<1>6. Cardinality(A \cap B) = 0
  <2>1. A \cap B = {}
    BY <1>2 DEF EmittedIn
  <2>. QED
    BY <2>1, FS_EmptySet
<1>7. Cardinality(A \cup B) = Cardinality(A) + Cardinality(B) - Cardinality(A \cap B)
  BY <1>3, <1>4, FS_Union
<1>. QED
  BY <1>3, <1>4, <1>5, <1>6, <1>7 DEF Emissions

LEMMA EmissionsHeadTail ==
  ASSUME NEW s \in Seq(SUBSET Outputs), s # <<>>, NEW w
  PROVE  /\ Head(s) \in SUBSET Outputs /\ Tail(s) \in Seq(SUBSET Outputs)
         /\ Emits(Head(s), w) => Emissions(s, w) = Emissions(Tail(s), w) + 1
         /\ ~Emits(Head(s), w) => Emissions(s, w) = Emissions(Tail(s), w)
<1> DEFINE h == Append(<<>>, Head(s))
<1>1. /\ Head(s) \in SUBSET Outputs /\ Tail(s) \in Seq(SUBSET Outputs)
      /\ Len(Tail(s)) = Len(s) - 1
      /\ \A i \in 1..Len(Tail(s)) : Tail(s)[i] = s[i + 1]
  BY HeadTailProperties
<1>2. <<>> \in Seq(SUBSET Outputs) /\ Len(<<>>) = 0
  OBVIOUS
<1>3. h \in Seq(SUBSET Outputs) /\ Len(h) = 1 /\ h[1] = Head(s)
  <2>1. /\ h \in Seq(SUBSET Outputs) /\ Len(h) = Len(<<>>) + 1
        /\ h[Len(<<>>) + 1] = Head(s)
    BY <1>1, <1>2, AppendProperties
  <2>. QED
    BY <1>2, <2>1
<1>4. /\ Emits(Head(s), w) => Emissions(h, w) = 1
      /\ ~Emits(Head(s), w) => Emissions(h, w) = 0
  <2>1. /\ Emits(Head(s), w) => Emissions(h, w) = Emissions(<<>>, w) + 1
        /\ ~Emits(Head(s), w) => Emissions(h, w) = Emissions(<<>>, w)
    BY <1>1, <1>2, EmissionsAppend
  <2>. QED
    BY <2>1, EmissionsNone
<1> HIDE DEF h
<1>5. s = h \o Tail(s)
  <2>1. Len(s) \in Nat /\ Len(s) # 0 /\ Head(s) = s[1]
    BY LenProperties, EmptySeq
  <2>2. /\ h \o Tail(s) \in Seq(SUBSET Outputs) /\ Len(h \o Tail(s)) = Len(h) + Len(Tail(s))
        /\ \A i \in 1..(Len(h) + Len(Tail(s))) :
             (h \o Tail(s))[i] = IF i <= Len(h) THEN h[i] ELSE Tail(s)[i - Len(h)]
    BY <1>1, <1>3, ConcatProperties
  <2>3. Len(h \o Tail(s)) = Len(s)
    BY <1>1, <1>3, <2>1, <2>2
  <2>4. ASSUME NEW i \in 1..Len(s) PROVE s[i] = (h \o Tail(s))[i]
    <3>1. CASE i = 1
      BY <1>1, <1>3, <2>1, <2>2, <3>1
    <3>2. CASE i # 1
      <4>1. i - 1 \in 1..Len(Tail(s)) /\ i \in 1..(Len(h) + Len(Tail(s))) /\ ~(i <= Len(h))
        BY <1>1, <1>3, <2>1, <3>2
      <4>2. Tail(s)[i - 1] = s[i]
        BY <1>1, <2>1, <4>1
      <4>. QED
        BY <1>3, <2>2, <4>1, <4>2
    <3>. QED
      BY <3>1, <3>2
  <2>. QED
    BY <2>2, <2>3, <2>4, SeqEqual
<1>6. Emissions(s, w) = Emissions(h, w) + Emissions(Tail(s), w)
  <2>1. h \in Seq(SUBSET Outputs) /\ Tail(s) \in Seq(SUBSET Outputs)
    BY <1>1, <1>3
  <2>2. Emissions(h \o Tail(s), w) = Emissions(h, w) + Emissions(Tail(s), w)
    BY <2>1, EmissionsConcat
  <2>. QED
    BY <1>5, <2>2
<1>7. Emissions(Tail(s), w) \in Nat
  BY <1>1, EmissionsType
<1>. QED
  BY <1>1, <1>4, <1>6, <1>7

\* Only a window that had not expired before the record is closed by it.
LEMMA ClosingWasOpen ==
  ASSUME TypeOK, ExpiredIsGone(wm, acc), NEW t \in Topics, pos[t] < Len(log[t]),
         Next1(t).val # Null, NEW w \in Closing(t)
  PROVE  /\ ~Expired(w, wm[w.topic][w.key]) /\ Expired(w, Latest(t))
         /\ w \in Windows /\ w.topic = t /\ w.key = Next1(t).key
<1>1. /\ w \in Windows /\ w.topic = t /\ w.key = Next1(t).key
      /\ Folded(t)[w].count > 0 /\ Expired(w, Latest(t))
  BY DEF Closing
<1>2. /\ Next1(t) \in Recs /\ Next1(t).val \in Nat /\ Latest(t) \in Nat
  BY ProcessTypes
<1>3. ASSUME Expired(w, wm[w.topic][w.key]) PROVE FALSE
  <2>1. acc[w].count = 0
    BY <1>1, <1>3 DEF ExpiredIsGone
  <2>2. InWindow(Next1(t), w) /\ w.label \notin LateLabels(t)
    BY <1>1, <2>1 DEF Folded
  <2>3. w.label \in Labels
    BY <1>1, WindowFacts
  <2>4. ~Expired(WindowOf(t, Next1(t), w.label), Latest(t))
    BY <2>2, <2>3 DEF LateLabels
  <2>5. WindowEnd(WindowOf(t, Next1(t), w.label)) = WindowEnd(w)
    BY <2>2 DEF InWindow, WindowOf, WindowEnd
  <2>. QED
    BY <1>1, <2>4, <2>5 DEF Expired
<1>. QED
  BY <1>1, <1>3

LEMMA OnceProcess ==
  ASSUME TypeOK, OnceInv, NEW t \in Topics, Process(t)
  PROVE  OnceInv'
<1> DEFINE r == Next1(t)
<1>1. /\ pos[t] < Len(log[t]) /\ Next1(t).val # Null /\ status = "running"
      /\ wm' = [wm EXCEPT ![t][r.key] = Latest(t)]
      /\ acc' = [w \in Windows |-> IF w \in Closing(t) THEN NoAcc ELSE Folded(t)[w]]
      /\ outbox' = IF Closing(t) = {} THEN outbox
                   ELSE Append(outbox, {Finalize(w, Folded(t)[w]) : w \in Closing(t)})
      /\ UNCHANGED <<log, metrics, saved, status, crashes>>
  BY DEF Process
<1>2. /\ r \in Recs /\ Latest(t) \in Nat /\ Folded(t) \in [Windows -> Accs] /\ r.key \in Keys
  BY <1>1, ProcessTypes DEF Recs
<1>3. wm \in [Topics -> [Keys -> Nat]] /\ acc \in [Windows -> Accs]
      /\ metrics \in Seq(SUBSET Outputs) /\ outbox \in Seq(SUBSET Outputs) /\ crashes \in Nat
  BY ConstantsAssumption DEF TypeOK
<1>4. Latest(t) >= wm[t][r.key]
  BY <1>2, <1>3, ConstantsAssumption DEF Latest, Recs
<1>5. /\ wm'[t][r.key] = Latest(t)
      /\ \A u \in Topics, k \in Keys : u # t \/ k # r.key => wm'[u][k] = wm[u][k]
  BY <1>1, <1>2, <1>3
<1> HIDE DEF r
<1>6. NullsInv'
  BY <1>1 DEF OnceInv, NullsInv
<1>7. ExpiredIsGone(saved.wm, saved.acc)'
  BY <1>1 DEF OnceInv, ExpiredIsGone, Expired
<1>8. ASSUME NEW w \in Windows
      PROVE  Expired(w, wm[w.topic][w.key]) => Expired(w, wm'[w.topic][w.key])
  <2>1. w.topic \in Topics /\ w.key \in Keys /\ WindowEnd(w) \in Nat /\ Grace \in Nat
    BY WindowFacts, ConstantsAssumption
  <2>2. wm[w.topic][w.key] \in Nat
    BY <1>3, <2>1
  <2>3. CASE w.topic = t /\ w.key = r.key
    BY <1>2, <1>4, <1>5, <2>1, <2>2, <2>3 DEF Expired
  <2>4. CASE ~(w.topic = t /\ w.key = r.key)
    BY <1>5, <2>1, <2>4 DEF Expired
  <2>. QED
    BY <2>3, <2>4
<1>9. ExpiredIsGone(wm, acc)'
  <2> SUFFICES ASSUME NEW w \in Windows, Expired(w, wm'[w.topic][w.key])
               PROVE  acc'[w].count = 0
    BY DEF ExpiredIsGone, Expired, WindowEnd
  <2>1. w.topic \in Topics /\ w.key \in Keys
    BY WindowFacts
  <2>2. CASE w \in Closing(t)
    BY <1>1, <2>2 DEF NoAcc
  <2>3. CASE w \notin Closing(t) /\ w.topic = t /\ w.key = r.key
    <3>1. Expired(w, Latest(t))
      BY <1>5, <2>3
    <3>2. ~(Folded(t)[w].count > 0)
      BY <2>3, <3>1 DEF Closing, r
    <3>3. Folded(t)[w].count \in Nat
      BY <1>2 DEF Accs
    <3>. QED
      BY <1>1, <2>3, <3>2, <3>3
  <2>4. CASE w \notin Closing(t) /\ ~(w.topic = t /\ w.key = r.key)
    <3>1. Expired(w, wm[w.topic][w.key])
      BY <1>5, <2>1, <2>4
    <3>2. acc[w].count = 0
      BY <3>1 DEF OnceInv, ExpiredIsGone
    <3>3. ~(w.topic = t /\ InWindow(Next1(t), w))
      BY <2>4 DEF InWindow, r
    <3>4. Folded(t)[w] = acc[w]
      BY <3>3 DEF Folded
    <3>. QED
      BY <1>1, <2>4, <3>2, <3>4
  <2>. QED
    BY <2>2, <2>3, <2>4
<1>10. ASSUME NEW w \in Windows
       PROVE  /\ w \in Closing(t) => Emissions(outbox', w) = Emissions(outbox, w) + 1
              /\ w \notin Closing(t) => Emissions(outbox', w) = Emissions(outbox, w)
  <2>1. CASE Closing(t) = {}
    BY <1>1, <2>1
  <2>2. CASE Closing(t) # {}
    <3> DEFINE batch == {Finalize(v, Folded(t)[v]) : v \in Closing(t)}
    <3>1. \A v \in Closing(t) :
            Finalize(v, Folded(t)[v]) \in Outputs /\ Finalize(v, Folded(t)[v]).win = v
      <4>1. \A v \in Closing(t) : v \in Windows /\ Folded(t)[v] \in Accs
        BY <1>2 DEF Closing
      <4>. QED
        BY <4>1, FinalizeType DEF Finalize
    <3>2. batch \in SUBSET Outputs /\ (Emits(batch, w) <=> w \in Closing(t))
      BY <3>1 DEF Emits
    <3>3. outbox' = Append(outbox, batch)
      BY <1>1, <2>2
    <3> HIDE DEF batch
    <3>. QED
      BY <1>3, <3>2, <3>3, EmissionsAppend
  <2>. QED
    BY <2>1, <2>2
<1>11. EmissionsInv'
  <2> SUFFICES ASSUME NullTopics = {}, NEW w \in Windows
               PROVE  /\ Emissions(metrics', w) + Emissions(outbox', w) <= crashes' + 1
                      /\ status' = "down"
                           => Emissions(metrics', w) + Emissions(outbox', w) <= crashes'
                      /\ Emissions(metrics', w) + Emissions(outbox', w) = crashes' + 1
                           => Expired(w, wm'[w.topic][w.key])
    BY DEF EmissionsInv, Expired, WindowEnd
  <2>1. Emissions(metrics, w) \in Nat /\ Emissions(outbox, w) \in Nat
    BY <1>3, EmissionsType
  <2>2. /\ Emissions(metrics, w) + Emissions(outbox, w) <= crashes + 1
        /\ Emissions(metrics, w) + Emissions(outbox, w) = crashes + 1
             => Expired(w, wm[w.topic][w.key])
    BY DEF OnceInv, EmissionsInv
  <2>3. metrics' = metrics /\ crashes' = crashes /\ status' = "running"
    BY <1>1
  <2>4. CASE w \notin Closing(t)
    BY <1>8, <1>10, <2>2, <2>3, <2>4
  <2>5. CASE w \in Closing(t)
    <3>1. ~Expired(w, wm[w.topic][w.key]) /\ Expired(w, Latest(t)) /\ w.topic = t /\ w.key = r.key
      BY <1>1, <2>5, ClosingWasOpen DEF OnceInv, r
    <3>2. Emissions(metrics, w) + Emissions(outbox, w) <= crashes
      BY <1>3, <2>1, <2>2, <3>1
    <3>3. Expired(w, wm'[w.topic][w.key])
      BY <1>5, <3>1
    <3>. QED
      BY <1>3, <1>10, <2>1, <2>3, <2>5, <3>2, <3>3
  <2>. QED
    BY <2>4, <2>5
<1>. QED
  BY <1>6, <1>7, <1>9, <1>11 DEF OnceInv

\* What dies with the process, and what the broker has of it, is emitted no more
\* often.
LEMMA LoseQueueEmits ==
  ASSUME TypeOK, LoseQueue, NEW w
  PROVE  /\ Emissions(metrics', w) + Emissions(outbox', w)
              <= Emissions(metrics, w) + Emissions(outbox, w)
         /\ Emissions(metrics', w) \in Nat /\ Emissions(outbox', w) \in Nat
<1>1. PICK part \in IF outbox = <<>> \/ Len(metrics) >= MaxMetrics THEN {{}}
                    ELSE SUBSET Head(outbox) :
        metrics' = IF part = {} THEN metrics ELSE Append(metrics, part)
  BY DEF LoseQueue
<1>2. outbox' = <<>> /\ outbox \in Seq(SUBSET Outputs) /\ metrics \in Seq(SUBSET Outputs)
  BY DEF LoseQueue, TypeOK
<1>3. Emissions(metrics, w) \in Nat /\ Emissions(outbox, w) \in Nat /\ Emissions(outbox', w) = 0
  BY <1>2, EmissionsType, EmissionsNone
<1>4. CASE part = {}
  BY <1>1, <1>3, <1>4
<1>5. CASE part # {}
  <2>1. outbox # <<>> /\ part \in SUBSET Head(outbox) /\ metrics' = Append(metrics, part)
    BY <1>1, <1>5
  <2>2. /\ Head(outbox) \in SUBSET Outputs /\ Tail(outbox) \in Seq(SUBSET Outputs)
        /\ Emits(Head(outbox), w) => Emissions(outbox, w) = Emissions(Tail(outbox), w) + 1
    BY <1>2, <2>1, EmissionsHeadTail
  <2>3. Emissions(Tail(outbox), w) \in Nat
    BY <2>2, EmissionsType
  <2>4. part \in SUBSET Outputs
    BY <2>1, <2>2
  <2>5. /\ Emits(part, w) => Emissions(metrics', w) = Emissions(metrics, w) + 1
        /\ ~Emits(part, w) => Emissions(metrics', w) = Emissions(metrics, w)
    BY <1>2, <2>1, <2>4, EmissionsAppend
  <2>6. Emits(part, w) => Emits(Head(outbox), w)
    BY <2>1 DEF Emits
  <2>. QED
    BY <1>3, <2>2, <2>3, <2>5, <2>6
<1>. QED
  BY <1>4, <1>5

\* A step that neither emits nor moves the watermark.
LEMMA OnceFrame ==
  ASSUME TypeOK, OnceInv, UNCHANGED <<log, wm, acc>>,
         ExpiredIsGone(saved.wm, saved.acc)', EmissionsInv'
  PROVE  OnceInv'
BY DEF OnceInv, NullsInv, ExpiredIsGone, Expired

LEMMA OnceNext == TypeOK /\ OnceInv /\ [Next]_vars => OnceInv'
<1> SUFFICES ASSUME TypeOK, OnceInv, [Next]_vars PROVE OnceInv'
  OBVIOUS
<1>0. /\ metrics \in Seq(SUBSET Outputs) /\ outbox \in Seq(SUBSET Outputs) /\ crashes \in Nat
      /\ \A w : Emissions(metrics, w) \in Nat /\ Emissions(outbox, w) \in Nat
  <2>1. metrics \in Seq(SUBSET Outputs) /\ outbox \in Seq(SUBSET Outputs) /\ crashes \in Nat
    BY ConstantsAssumption DEF TypeOK
  <2>2. \A w : Emissions(metrics, w) \in Nat
    BY <2>1, EmissionsType
  <2>3. \A w : Emissions(outbox, w) \in Nat
    BY <2>1, EmissionsType
  <2>. QED
    BY <2>1, <2>2, <2>3
<1>1. ASSUME UNCHANGED <<wm, metrics, outbox, crashes>>, status' # "down" \/ status = "down"
      PROVE  EmissionsInv'
  BY <1>1 DEF OnceInv, EmissionsInv, Expired
<1>2. ASSUME UNCHANGED saved PROVE ExpiredIsGone(saved.wm, saved.acc)'
  BY <1>2 DEF OnceInv, ExpiredIsGone, Expired
<1>3. ASSUME NEW t \in Topics, NEW r \in Recs, Produce(t, r) PROVE OnceInv'
  <2>1. UNCHANGED <<wm, acc, metrics, outbox, crashes, saved, status>>
    BY <1>3 DEF Produce
  <2>2. NullsInv'
    <3>1. /\ log \in [Topics -> Seq(Recs)] /\ log' = [log EXCEPT ![t] = Append(@, r)]
          /\ r.val = Null => t \in NullTopics
      BY <1>3 DEF Produce, TypeOK
    <3>2. /\ Append(log[t], r) \in Seq(Recs) /\ Len(Append(log[t], r)) = Len(log[t]) + 1
          /\ \A i \in 1..Len(log[t]) : Append(log[t], r)[i] = log[t][i]
          /\ Append(log[t], r)[Len(log[t]) + 1] = r
          /\ Len(log[t]) \in Nat
      BY <3>1, AppendProperties, LenProperties
    <3>3. log'[t] = Append(log[t], r) /\ \A u \in Topics : u # t => log'[u] = log[u]
      BY <3>1
    <3> SUFFICES ASSUME NEW u \in Topics, NEW i \in 1..Len(log'[u]), log'[u][i].val = Null
                 PROVE  u \in NullTopics
      BY DEF NullsInv
    <3>4. CASE u # t
      BY <3>3, <3>4 DEF OnceInv, NullsInv
    <3>5. CASE u = t /\ i \in 1..Len(log[t])
      BY <3>2, <3>3, <3>5 DEF OnceInv, NullsInv
    <3>6. CASE u = t /\ i \notin 1..Len(log[t])
      <4>1. i = Len(log[t]) + 1
        BY <3>2, <3>3, <3>6
      <4>. QED
        BY <3>1, <3>2, <3>3, <3>6, <4>1
    <3>. QED
      BY <3>4, <3>5, <3>6
  <2>3. EmissionsInv'
    BY <1>1, <2>1
  <2>4. ExpiredIsGone(wm, acc)' /\ ExpiredIsGone(saved.wm, saved.acc)'
    BY <2>1 DEF OnceInv, ExpiredIsGone, Expired
  <2>. QED
    BY <2>2, <2>3, <2>4 DEF OnceInv
<1>4. ASSUME NEW t \in Topics, Process(t) PROVE OnceInv'
  BY <1>4, OnceProcess
<1>5. ASSUME NEW t \in Topics, ProcessFails(t) PROVE OnceInv'
  <2>1. pos[t] + 1 \in 1..Len(log[t])
    BY <1>5 DEF ProcessFails, TypeOK
  <2>2. NullTopics # {}
    BY <1>5, <2>1 DEF ProcessFails, Next1, OnceInv, NullsInv
  <2>3. EmissionsInv'
    BY <2>2 DEF EmissionsInv
  <2>4. UNCHANGED <<log, wm, acc>> /\ UNCHANGED saved
    BY <1>5 DEF ProcessFails
  <2>. QED
    BY <1>2, <2>3, <2>4, OnceFrame
<1>6. CASE Deliver
  <2>1. /\ outbox # <<>> /\ metrics' = Append(metrics, Head(outbox)) /\ outbox' = Tail(outbox)
        /\ UNCHANGED <<log, wm, acc>> /\ UNCHANGED saved /\ UNCHANGED <<status, crashes>>
    BY <1>6 DEF Deliver
  <2>2. ASSUME NEW w \in Windows
        PROVE  Emissions(metrics', w) + Emissions(outbox', w)
                 = Emissions(metrics, w) + Emissions(outbox, w)
    <3>1. /\ Head(outbox) \in SUBSET Outputs /\ Tail(outbox) \in Seq(SUBSET Outputs)
          /\ Emits(Head(outbox), w) => Emissions(outbox, w) = Emissions(Tail(outbox), w) + 1
          /\ ~Emits(Head(outbox), w) => Emissions(outbox, w) = Emissions(Tail(outbox), w)
      BY <1>0, <2>1, EmissionsHeadTail
    <3>2. /\ Emits(Head(outbox), w) => Emissions(metrics', w) = Emissions(metrics, w) + 1
          /\ ~Emits(Head(outbox), w) => Emissions(metrics', w) = Emissions(metrics, w)
      BY <1>0, <2>1, <3>1, EmissionsAppend
    <3>3. Emissions(Tail(outbox), w) \in Nat
      BY <3>1, EmissionsType
    <3>. QED
      BY <1>0, <2>1, <3>1, <3>2, <3>3
  <2>3. EmissionsInv'
    BY <2>1, <2>2 DEF OnceInv, EmissionsInv, Expired
  <2>. QED
    BY <1>2, <2>1, <2>3, OnceFrame
<1>7. CASE CommitOffsets \/ IdleStop
  <2>1. /\ UNCHANGED <<log, wm, acc>> /\ UNCHANGED saved
        /\ UNCHANGED <<wm, metrics, outbox, crashes>> /\ status' # "down"
    BY <1>7 DEF CommitOffsets, IdleStop
  <2>. QED
    BY <1>1, <1>2, <2>1, OnceFrame
<1>8. CASE FlushState
  <2>1. /\ UNCHANGED <<log, wm, acc>> /\ saved' = [pos |-> pos, wm |-> wm, acc |-> acc]
        /\ UNCHANGED <<wm, metrics, outbox, crashes>> /\ status' # "down"
    BY <1>8 DEF FlushState
  <2>2. saved'.wm = wm /\ saved'.acc = acc
    BY <2>1
  <2>3. ExpiredIsGone(saved.wm, saved.acc)'
    BY <2>2 DEF OnceInv, ExpiredIsGone, Expired
  <2>. QED
    BY <1>1, <2>1, <2>3, OnceFrame
<1>9. CASE Crash
  <2>1. /\ UNCHANGED <<log, wm, acc>> /\ UNCHANGED saved /\ LoseQueue
        /\ crashes' = crashes + 1
    BY <1>9 DEF Crash
  <2>2. EmissionsInv'
    <3> SUFFICES ASSUME NullTopics = {}, NEW w \in Windows
                 PROVE  /\ Emissions(metrics', w) + Emissions(outbox', w) <= crashes'
                        /\ Emissions(metrics', w) + Emissions(outbox', w) \in Nat
      BY <1>0, <2>1 DEF EmissionsInv
    <3>1. Emissions(metrics, w) + Emissions(outbox, w) <= crashes + 1
      BY DEF OnceInv, EmissionsInv
    <3>2. /\ Emissions(metrics', w) + Emissions(outbox', w)
               <= Emissions(metrics, w) + Emissions(outbox, w)
          /\ Emissions(metrics', w) \in Nat /\ Emissions(outbox', w) \in Nat
      BY <2>1, LoseQueueEmits
    <3>. QED
      BY <1>0, <2>1, <3>1, <3>2
  <2>. QED
    BY <1>2, <2>1, <2>2, OnceFrame
<1>10. CASE LoseStateDir
  <2>1. /\ UNCHANGED <<log, wm, acc>> /\ saved' = NoState
        /\ UNCHANGED <<metrics, outbox, status>> /\ status = "down" /\ crashes' = crashes + 1
    BY <1>10 DEF LoseStateDir
  <2>2. ExpiredIsGone(saved.wm, saved.acc)'
    <3> SUFFICES ASSUME NEW w \in Windows PROVE saved'.acc[w].count = 0
      BY DEF ExpiredIsGone
    <3>. QED
      BY <2>1 DEF NoState, NoAcc
  <2>3. EmissionsInv'
    <3> SUFFICES ASSUME NullTopics = {}, NEW w \in Windows
                 PROVE  Emissions(metrics, w) + Emissions(outbox, w) <= crashes
      BY <1>0, <2>1 DEF EmissionsInv
    <3>. QED
      BY <2>1 DEF OnceInv, EmissionsInv
  <2>. QED
    BY <2>1, <2>2, <2>3, OnceFrame
<1>11. CASE Restart
  <2>1. /\ UNCHANGED <<log, saved, metrics, outbox, crashes>>
        /\ wm' = saved.wm /\ acc' = saved.acc /\ status = "down" /\ status' = "running"
    BY <1>11 DEF Restart
  <2>2. NullsInv' /\ ExpiredIsGone(saved.wm, saved.acc)'
    BY <2>1 DEF OnceInv, NullsInv, ExpiredIsGone, Expired
  <2>3. ExpiredIsGone(wm, acc)'
    BY <2>1 DEF OnceInv, ExpiredIsGone, Expired
  <2>4. EmissionsInv'
    <3> SUFFICES ASSUME NullTopics = {}, NEW w \in Windows
                 PROVE  Emissions(metrics, w) + Emissions(outbox, w) <= crashes
      BY <1>0, <2>1 DEF EmissionsInv
    <3>. QED
      BY <2>1 DEF OnceInv, EmissionsInv
  <2>. QED
    BY <2>2, <2>3, <2>4 DEF OnceInv
<1>12. CASE UNCHANGED vars
  <2>1. /\ UNCHANGED <<log, wm, acc>> /\ UNCHANGED saved
        /\ UNCHANGED <<wm, metrics, outbox, crashes>> /\ status' = status
    BY <1>12 DEF vars
  <2>. QED
    BY <1>1, <1>2, <2>1, OnceFrame
<1>. QED
  BY <1>3, <1>4, <1>5, <1>6, <1>7, <1>8, <1>9, <1>10, <1>11, <1>12 DEF Next

LEMMA InitOnce == Init => OnceInv
<1> SUFFICES ASSUME Init PROVE OnceInv
  OBVIOUS
<1>1. /\ log = [t \in Topics |-> <<>>] /\ acc = NoState.acc /\ saved = NoState /\ wm = NoState.wm
      /\ outbox = <<>> /\ metrics = <<>> /\ crashes = 0 /\ status = "running"
  BY DEF Init
<1>2. NullsInv
  BY <1>1 DEF NullsInv
<1>3. \A w \in Windows : NoState.acc[w].count = 0
  BY DEF NoState, NoAcc
<1>4. ExpiredIsGone(wm, acc) /\ ExpiredIsGone(saved.wm, saved.acc)
  BY <1>1, <1>3 DEF ExpiredIsGone
<1>5. EmissionsInv
  BY <1>1, EmissionsNone DEF EmissionsInv
<1>. QED
  BY <1>2, <1>4, <1>5 DEF OnceInv

\* A window is emitted once at most in the life of a process, and so crashes + 1
\* times at most, also after restarts that lost state (app.py:151-178,
\* tests/test_processing.py:67).
THEOREM ProcessorEmitsOncePerIncarnation == Spec => []OncePerIncarnation
<1>1. TypeOK /\ OnceInv => OncePerIncarnation
  <2> SUFFICES ASSUME TypeOK, OnceInv, NullTopics = {}, NEW w \in Windows
               PROVE  Cardinality({b \in DOMAIN (metrics \o outbox) :
                                     \E o \in (metrics \o outbox)[b] : o.win = w}) <= 1 + crashes
    BY DEF OncePerIncarnation
  <2>1. metrics \in Seq(SUBSET Outputs) /\ outbox \in Seq(SUBSET Outputs) /\ crashes \in Nat
    BY ConstantsAssumption DEF TypeOK
  <2>2. metrics \o outbox \in Seq(SUBSET Outputs)
    BY <2>1, ConcatProperties
  <2>3. DOMAIN (metrics \o outbox) = 1..Len(metrics \o outbox)
    BY <2>2, LenProperties
  <2>4. Cardinality({b \in DOMAIN (metrics \o outbox) :
                       \E o \in (metrics \o outbox)[b] : o.win = w}) = Emissions(metrics \o outbox, w)
    BY <2>3 DEF Emissions, EmittedIn, Emits
  <2>5. Emissions(metrics \o outbox, w) = Emissions(metrics, w) + Emissions(outbox, w)
    BY <2>1, EmissionsConcat
  <2>6. Emissions(metrics, w) + Emissions(outbox, w) <= crashes + 1
    BY DEF OnceInv, EmissionsInv
  <2>7. Emissions(metrics \o outbox, w) <= 1 + crashes
    <3>1. Emissions(metrics, w) \in Nat /\ Emissions(outbox, w) \in Nat
      BY <2>1, EmissionsType
    <3>2. Emissions(metrics, w) + Emissions(outbox, w) <= 1 + crashes
      BY <2>1, <2>6, <3>1
    <3>. QED
      BY <2>5, <3>2
  <2>. QED
    BY <2>4, <2>7, Zenon
<1>2. TypeOK /\ OnceInv /\ [Next]_vars => OnceInv'
  BY OnceNext
<1>. QED
  BY <1>1, <1>2, InitOnce, TypeCorrect, PTL DEF Spec

-----------------------------------------------------------------------------
(* The write-once feed.                                                    *)

\* The feed of WindowProcessor, as one state function.
feed == [w \in Windows |-> ResultsOf(w)]

\* While no state was lost, a window has one published result at most.
SingleResult ==
  intact => \A w \in Windows : \A x, y \in ResultsOf(w) : x = y

\* The members of a result are the on-time records, and they fix its count and
\* its metric.
LEMMA InvSingleResult == Inv => SingleResult
<1> SUFFICES ASSUME Inv, intact, NEW w \in Windows,
                    NEW x \in ResultsOf(w), NEW y \in ResultsOf(w)
             PROVE  x = y
  BY DEF SingleResult
<1>1. PICK o \in Published : /\ o.win = w
                             /\ x = [count |-> o.count, members |-> o.members,
                                     metric |-> o.metric]
  BY DEF ResultsOf
<1>2. PICK p \in Published : /\ p.win = w
                             /\ y = [count |-> p.count, members |-> p.members,
                                     metric |-> p.metric]
  BY DEF ResultsOf
<1>3. o.members = p.members
  BY <1>1, <1>2 DEF Inv, IntactInv, ExactOutputs
<1>4. OutputOK(o) /\ OutputOK(p)
  BY DEF Inv, SafeInv, OutputsOK
<1>5. o.count = p.count
  BY <1>3, <1>4 DEF OutputOK, CountsOK
<1>6. o.metric = p.metric
  <2>1. o \in Outputs /\ p \in Outputs
    BY OutputsType DEF Inv
  <2>2. o.metric \in {"value", "null"} /\ p.metric \in {"value", "null"}
    BY <2>1 DEF Outputs
  <2>3. o.sum = 0 <=> \A i \in o.members : log[w.topic][i].val = 0
    BY <1>1, <1>4 DEF OutputOK, CountsOK
  <2>4. p.sum = 0 <=> \A i \in o.members : log[w.topic][i].val = 0
    BY <1>2, <1>3, <1>4 DEF OutputOK, CountsOK
  <2>5. o.metric = "null" <=> p.metric = "null"
    BY <1>1, <1>2, <1>4, <2>3, <2>4 DEF OutputOK
  <2>. QED
    BY <2>2, <2>5
<1>. QED
  BY <1>1, <1>2, <1>3, <1>5, <1>6

\* No step takes a published output back.
LEMMA PublishedGrows ==
  ASSUME TypeOK, [Next]_vars
  PROVE  Published \subseteq Published'
<1>1. CASE metrics' = metrics
  BY <1>1, FlatOutputs, FlatOutputsPrime
<1>2. CASE LoseQueue
  BY <1>2, LoseQueueMoves
<1>3. CASE Deliver
  BY <1>3, DeliverMoves
<1>. QED
  BY <1>1, <1>2, <1>3
  DEF Next, vars, Produce, Process, ProcessFails, CommitOffsets, FlushState,
      IdleStop, Crash, LoseStateDir, Restart

LEMMA ResultsGrow ==
  ASSUME TypeOK, [Next]_vars, NEW w \in Windows
  PROVE  ResultsOf(w) \subseteq ResultsOf(w)'
BY PublishedGrows DEF ResultsOf

\* Only a restart changes `intact', it publishes nothing, and lost state stays
\* lost.
LEMMA IntactChanges ==
  ASSUME TypeOK, [Next]_vars
  PROVE  intact' = intact \/ (intact' = FALSE /\ metrics' = metrics)
<1>1. CASE Restart
  BY <1>1 DEF Restart, TypeOK
<1>. QED
  BY <1>1
  DEF Next, vars, Produce, Process, ProcessFails, Deliver, CommitOffsets,
      FlushState, IdleStop, Crash, LoseStateDir

\* A step of the processor is a step of the feed, or leaves it alone.
LEMMA FeedStep ==
  ASSUME Inv, SingleResult', [Next]_vars
  PROVE  [Feed!Next]_<<feed, intact>>
<1>0. TypeOK
  BY DEF Inv
<1>1. CASE intact' = FALSE /\ metrics' = metrics
  <2>1. Published' = Published
    BY <1>1, FlatOutputs, FlatOutputsPrime
  <2>2. feed' = feed
    BY <2>1 DEF feed, ResultsOf
  <2>. QED
    BY <1>1, <2>2 DEF Feed!Next, Feed!Degrade, feed
<1>2. CASE intact' = intact /\ intact
  <2>1. ASSUME NEW w \in Windows, feed'[w] # feed[w]
        PROVE  feed[w] = {} /\ \E v \in feed'[w] : feed'[w] = {v}
    <3>1. feed[w] = ResultsOf(w) /\ feed'[w] = ResultsOf(w)'
      BY DEF feed
    <3>2. ResultsOf(w) \subseteq ResultsOf(w)'
      BY <1>0, ResultsGrow
    <3>3. \A x, y \in ResultsOf(w)' : x = y
      BY <1>2 DEF SingleResult
    <3>4. ~(ResultsOf(w)' \subseteq ResultsOf(w))
      BY <2>1, <3>1, <3>2
    <3>5. PICK v \in ResultsOf(w)' : v \notin ResultsOf(w)
      BY <3>4
    <3>. QED
      BY <3>1, <3>2, <3>3, <3>5
  <2>. QED
    BY <1>2, <2>1 DEF Feed!Next, Feed!Report, Feed!Unwritten, feed
<1>3. CASE intact' = intact /\ ~intact
  <2>1. \A w \in Windows : feed[w] \subseteq feed'[w]
    BY <1>0, ResultsGrow DEF feed
  <2>. QED
    BY <1>3, <2>1 DEF Feed!Next, Feed!ReportAnything, feed
<1>. QED
  BY <1>0, <1>1, <1>2, <1>3, IntactChanges

\* What a consumer of metrics.windowed sees is a write-once feed.
THEOREM ProcessorImplementsFeed == Spec => FeedIsWriteOnce
<1>1. Init => Feed!Init
  <2> SUFFICES ASSUME Init PROVE Feed!Init
    OBVIOUS
  <2>1. Published = {}
    BY FlatOutputs, FlatEmpty DEF Init
  <2>. QED
    BY <2>1 DEF Init, Feed!Init, ResultsOf
<1>2. Inv /\ SingleResult' /\ [Next]_vars => [Feed!Next]_<<feed, intact>>
  BY FeedStep
<1>. QED
  BY InvHolds, InvSingleResult, <1>1, <1>2, PTL DEF Spec, FeedIsWriteOnce, Feed!Spec, feed

-----------------------------------------------------------------------------
(* The volume of a window.                                                 *)

\* The sum of the values of these records of topic t in a log.
Vals(lg, t, S) == [i \in S |-> lg[t][i].val]
Volume(lg, t, S) == SumFunction(Vals(lg, t, S))

VolumeInv ==
  /\ \A w \in Windows : acc[w].sum = Volume(log, w.topic, acc[w].members)
  /\ \A w \in Windows : saved.acc[w].sum = Volume(log, w.topic, saved.acc[w].members)
  /\ \A o \in Published \cup Queued : o.sum = Volume(log, o.win.topic, o.members)

LEMMA NoVolume == \A lg, t : Volume(lg, t, {}) = 0
<1> TAKE lg, t
<1>1. DOMAIN Vals(lg, t, {}) = {}
  BY DEF Vals
<1>. QED
  BY <1>1, SumOfEmpty DEF Volume

LEMMA VolumeAdd ==
  ASSUME NEW t, NEW S, IsFiniteSet(S), NEW x, x \notin S,
         \A i \in S \cup {x} : log[t][i].val \in Nat
  PROVE  Volume(log, t, S \cup {x}) = Volume(log, t, S) + log[t][x].val
<1> DEFINE R == S \cup {x}
           g == Vals(log, t, R)
<1>1. IsFiniteSet(R) /\ R \ {x} = S
  BY FS_AddElement
<1>2. g \in [R -> Int] /\ g[x] = log[t][x].val
  BY DEF Vals
<1>3. Restrict(g, R \ {x}) = Vals(log, t, S)
  BY <1>1 DEF Restrict, Vals
<1>4. Vals(log, t, S) \in [S -> Int]
  BY DEF Vals
<1>5. x \in R
  OBVIOUS
<1> HIDE DEF g, R
<1>6. SumFunction(g) = g[x] + SumFunction(Restrict(g, R \ {x}))
  BY <1>1, <1>2, <1>5, SumRemove
<1>7. SumFunction(Vals(log, t, S)) \in Int /\ log[t][x].val \in Int
  <2>1. SumFunction(Vals(log, t, S)) \in Int
    BY <1>4, SumType
  <2>. QED
    BY <2>1
<1>8. SumFunction(g) = SumFunction(Vals(log, t, S)) + log[t][x].val
  BY <1>2, <1>3, <1>6, <1>7
<1>. QED
  BY <1>8 DEF Volume, g, R

\* A record that joins a window adds its value.
LEMMA FoldedVolume ==
  ASSUME TypeOK, SafeInv, NEW t \in Topics, pos[t] < Len(log[t]), Next1(t).val # Null,
         NEW w \in Windows, acc[w].sum = Volume(log, w.topic, acc[w].members)
  PROVE  Folded(t)[w].sum = Volume(log, w.topic, Folded(t)[w].members)
<1>1. CASE w.topic = t /\ InWindow(Next1(t), w) /\ w.label \notin LateLabels(t)
  <2> DEFINE x == pos[t] + 1
             S == acc[w].members
             v == Next1(t).val
  <2>1. Folded(t)[w] = Fold(acc[w], x, v)
    BY <1>1 DEF Folded
  <2>2. Folded(t)[w].sum = acc[w].sum + v /\ Folded(t)[w].members = S \cup {x}
    BY <2>1 DEF Fold
  <2>3. CountsOK(w, pos[t], S, acc[w].count, acc[w].sum)
    BY <1>1 DEF SafeInv, StoreCountsOK
  <2>4. v = log[t][x].val /\ v \in Nat /\ pos[t] \in Nat
    BY ProcessTypes DEF Next1, TypeOK
  <2> HIDE DEF S, v
  <2>5. IsFiniteSet(S) /\ \A i \in S : i \in 1..pos[t] /\ log[t][i].val \in Nat
    BY <1>1, <2>3 DEF CountsOK
  <2>6. x \notin S
    BY <2>4, <2>5
  <2> HIDE DEF x
  <2>7. Volume(log, t, S \cup {x}) = Volume(log, t, S) + log[t][x].val
    BY <2>4, <2>5, <2>6, VolumeAdd
  <2>. QED
    BY <1>1, <2>2, <2>4, <2>7 DEF S
<1>2. CASE ~(w.topic = t /\ InWindow(Next1(t), w) /\ w.label \notin LateLabels(t))
  BY <1>2 DEF Folded
<1>. QED
  BY <1>1, <1>2

LEMMA VolumeProcess ==
  ASSUME TypeOK, SafeInv, VolumeInv, NEW t \in Topics, Process(t)
  PROVE  VolumeInv'
<1>1. /\ log' = log /\ saved' = saved
      /\ pos[t] < Len(log[t]) /\ Next1(t).val # Null
      /\ acc' = [w \in Windows |->
                   IF w \in Closing(t) THEN NoAcc ELSE Folded(t)[w]]
  BY DEF Process
<1>3. \A w \in Windows : Folded(t)[w].sum = Volume(log, w.topic, Folded(t)[w].members)
  BY <1>1, FoldedVolume DEF VolumeInv
<1>4. ASSUME NEW w \in Windows PROVE acc'[w].sum = Volume(log, w.topic, acc'[w].members)
  <2>1. CASE w \in Closing(t)
    BY <1>1, <2>1, NoVolume DEF NoAcc
  <2>2. CASE w \notin Closing(t)
    BY <1>1, <1>3, <2>2
  <2>. QED
    BY <2>1, <2>2
<1>5. ASSUME NEW o \in Published' \cup Queued' PROVE o.sum = Volume(log, o.win.topic, o.members)
  <2>1. CASE o \in Published \cup Queued
    BY <2>1 DEF VolumeInv
  <2>2. CASE o \notin Published \cup Queued
    <3>1. PICK w \in Closing(t) : o = Finalize(w, Folded(t)[w])
      BY <2>2, ProcessMoves
    <3>2. /\ o.win = w /\ o.members = Folded(t)[w].members /\ o.sum = Folded(t)[w].sum
      BY <3>1 DEF Finalize
    <3>. QED
      BY <1>3, <3>2 DEF Closing
  <2>. QED
    BY <2>1, <2>2
<1>. QED
  BY <1>1, <1>4, <1>5 DEF VolumeInv

\* What is in the log stays there, and so do the sums.
LEMMA VolumeProduce ==
  ASSUME TypeOK, SafeInv, VolumeInv, NEW t \in Topics, NEW r \in Recs, Produce(t, r)
  PROVE  VolumeInv'
<1>1. \A u \in Topics :
        /\ Len(log[u]) \in Nat
        /\ \A i \in 1..Len(log[u]) : log'[u][i] = log[u][i]
  BY ProduceExtends
<1>2. acc' = acc /\ saved' = saved /\ Published' = Published /\ Queued' = Queued
  BY DEF Produce, Published, Queued
<1>3. ASSUME NEW u \in Topics, NEW n \in Nat, n <= Len(log[u]), NEW S, \A i \in S : i \in 1..n
      PROVE  Volume(log', u, S) = Volume(log, u, S)
  <2>1. \A i \in S : log'[u][i] = log[u][i]
    BY <1>1, <1>3
  <2>2. Vals(log', u, S) = Vals(log, u, S)
    BY <2>1 DEF Vals
  <2>. QED
    BY <2>2 DEF Volume
<1>4. \A w \in Windows : w.topic \in Topics
  BY WindowFacts
<1>5. \A u \in Topics : /\ saved.pos[u] \in Nat /\ saved.pos[u] <= Len(log[u])
                        /\ pos[u] \in Nat /\ pos[u] <= Len(log[u])
  <2>1. \A u \in Topics : saved.pos[u] \in Nat /\ committed[u] \in Nat /\ pos[u] \in Nat
    BY DEF TypeOK
  <2>. QED
    BY <1>1, <2>1 DEF SafeInv, OffsetsOK
<1>6. ASSUME NEW w \in Windows
      PROVE  /\ acc[w].sum = Volume(log', w.topic, acc[w].members)
             /\ saved.acc[w].sum = Volume(log', w.topic, saved.acc[w].members)
  <2>1. \A i \in acc[w].members : i \in 1..pos[w.topic]
    BY DEF SafeInv, StoreCountsOK, CountsOK
  <2>2. \A i \in saved.acc[w].members : i \in 1..saved.pos[w.topic]
    BY DEF SafeInv, StoreCountsOK, CountsOK
  <2>3. /\ Volume(log', w.topic, acc[w].members) = Volume(log, w.topic, acc[w].members)
        /\ Volume(log', w.topic, saved.acc[w].members) = Volume(log, w.topic, saved.acc[w].members)
    BY <1>3, <1>4, <1>5, <2>1, <2>2
  <2>. QED
    BY <2>3 DEF VolumeInv
<1>7. ASSUME NEW o \in Published \cup Queued
      PROVE  o.sum = Volume(log', o.win.topic, o.members)
  <2>1. o.win \in Windows
    BY OutputsType DEF Outputs
  <2>2. o.win.topic \in Topics /\ Len(log[o.win.topic]) \in Nat
    BY <1>1, <1>4, <2>1
  <2>3. \A i \in o.members : i \in 1..Len(log[o.win.topic])
    BY DEF SafeInv, OutputsOK, OutputOK, CountsOK
  <2>4. Volume(log', o.win.topic, o.members) = Volume(log, o.win.topic, o.members)
    BY <1>3, <2>2, <2>3
  <2>. QED
    BY <2>4 DEF VolumeInv
<1>. QED
  BY <1>2, <1>6, <1>7 DEF VolumeInv

LEMMA VolumeNext == TypeOK /\ SafeInv /\ VolumeInv /\ [Next]_vars => VolumeInv'
<1> SUFFICES ASSUME TypeOK, SafeInv, VolumeInv, [Next]_vars PROVE VolumeInv'
  OBVIOUS
<1>1. ASSUME log' = log, acc' \in {acc, saved.acc},
             saved'.acc \in {saved.acc, acc, NoState.acc},
             Published' \cup Queued' \subseteq Published \cup Queued
      PROVE  VolumeInv'
  <2>1. \A w \in Windows : NoState.acc[w].sum = Volume(log, w.topic, NoState.acc[w].members)
    BY NoVolume DEF NoState, NoAcc
  <2>. QED
    BY <1>1, <2>1 DEF VolumeInv
<1>2. CASE UNCHANGED vars
  BY <1>1, <1>2 DEF vars, Published, Queued
<1>3. ASSUME NEW t \in Topics, NEW r \in Recs, Produce(t, r) PROVE VolumeInv'
  BY <1>3, VolumeProduce
<1>4. ASSUME NEW t \in Topics, Process(t) PROVE VolumeInv'
  BY <1>4, VolumeProcess
<1>5. ASSUME NEW t \in Topics, ProcessFails(t) PROVE VolumeInv'
  BY <1>1, <1>5, LoseQueueMoves DEF ProcessFails
<1>6. CASE Deliver
  BY <1>1, <1>6, DeliverMoves DEF Deliver
<1>7. CASE CommitOffsets
  BY <1>1, <1>7 DEF CommitOffsets, Published, Queued
<1>8. CASE FlushState
  BY <1>1, <1>8 DEF FlushState, Published, Queued
<1>9. CASE IdleStop
  BY <1>1, <1>9 DEF IdleStop, Published, Queued
<1>10. CASE Crash
  BY <1>1, <1>10, LoseQueueMoves DEF Crash
<1>11. CASE LoseStateDir
  BY <1>1, <1>11 DEF LoseStateDir, Published, Queued
<1>12. CASE Restart
  BY <1>1, <1>12 DEF Restart, Published, Queued
<1>. QED
  BY <1>2, <1>3, <1>4, <1>5, <1>6, <1>7, <1>8, <1>9, <1>10, <1>11, <1>12 DEF Next

\* The volume of an emitted window is the sum over its on-time records
\* (app.py:154).
THEOREM ProcessorSumsExactly == Spec => []VolumeExact
<1>1. Init => VolumeInv
  <2> SUFFICES ASSUME Init PROVE VolumeInv
    OBVIOUS
  <2>1. Published = {} /\ Queued = {}
    BY FlatOutputs, FlatEmpty DEF Init
  <2>. QED
    BY <2>1, NoVolume DEF Init, NoState, NoAcc, VolumeInv
<1>2. Inv /\ VolumeInv => VolumeExact
  <2> SUFFICES ASSUME Inv, VolumeInv, intact, NEW o \in Published \cup Queued
               PROVE  o.sum = Volume(log, o.win.topic, OnTime(o.win, Len(log[o.win.topic])))
    BY Zenon DEF VolumeExact, Volume, Vals
  <2>1. o.members = OnTime(o.win, Len(log[o.win.topic]))
    BY DEF Inv, IntactInv, ExactOutputs
  <2>. QED
    BY <2>1 DEF VolumeInv
<1>3. Inv /\ VolumeInv /\ [Next]_vars => VolumeInv'
  BY VolumeNext DEF Inv
<1>. QED
  BY <1>1, <1>2, <1>3, InvHolds, PTL DEF Spec
=============================================================================
