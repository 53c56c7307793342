------------------------- MODULE LiveProducerProofs -------------------------
(***************************************************************************)
(* Proofs about LiveProducer, for streams, frames and queues of any size,  *)
(* any limits and any number of dropped connections.                       *)
(***************************************************************************)
EXTENDS LiveProducer, SequenceTheorems, FiniteSetTheorems, TLAPS

-----------------------------------------------------------------------------
(* The inductive invariant.                                                *)

KindOf == [raw |-> "valid", quarantine |-> "bad"]

\* Where a message for topic t about sub-record i is: in the local queue, in the
\* topic, or reported as failed.
QueuedAt(t, i, n) == queue[n].topic = t /\ queue[n].id = i
Queued(t, i) == \E n \in 1..Len(queue) : QueuedAt(t, i, n)
Landed(t, i) == \E n \in 1..Len(topics[t]) : topics[t][n] = i
Lost(t, i) == \E m \in failed : m.topic = t /\ m.id = i

\* Messages are about what the exchange has sent, and in the topic of its kind.
KnownInv ==
  \A t \in Topics, i \in Nat :
    Queued(t, i) \/ Landed(t, i) \/ Lost(t, i)
      => i \in 1..Len(exchange) /\ exchange[i] = KindOf[t]

\* The messages for a topic go through the queue in the exchange's order, and one
\* that has left it is in the topic or has failed.
OrderInv ==
  /\ \A m, n \in 1..Len(queue) :
       m < n /\ queue[m].topic = queue[n].topic => queue[m].id < queue[n].id
  /\ \A t \in Topics, i \in Nat :
       Landed(t, i) \/ Lost(t, i) =>
         \A n \in 1..Len(queue) : queue[n].topic = t => i < queue[n].id
  /\ \A t \in Topics, i \in Nat : ~(Landed(t, i) /\ Lost(t, i))
  /\ RawOrdered

\* What was handled is somewhere.
RoutedInv ==
  \A i \in received, t \in Topics :
    exchange[i] = KindOf[t] => Queued(t, i) \/ Landed(t, i) \/ Lost(t, i)

\* The task is neither past its limits nor about to reconnect past them.
LimitInv ==
  /\ MaxMessages > 0 =>
       /\ published < MaxMessages + FrameMax
       /\ phase \in AwaitPhases \cup {"flushing"} => published < MaxMessages
  /\ MaxReconnects # NoLimit =>
       /\ reconnects <= MaxReconnects + 1
       /\ phase \in AwaitPhases \cup {"flushing"} => reconnects <= MaxReconnects

\* The next delay may be twice the last one.
BackoffInv == 2 * ceiling <= Base * factor

QueueInv == Len(queue) <= QueueMax /\ IsFiniteSet(failed)

ProducerInv ==
  TypeOK /\ KnownInv /\ OrderInv /\ RoutedInv /\ LimitInv /\ BackoffInv /\ QueueInv
         /\ PublishedAccounted

-----------------------------------------------------------------------------
(* The messages of a frame.                                                *)

\* Msgs are about the sub-records ids, each in the topic of its kind, and for each
\* topic in order.
Sorted(msgs) ==
  \A m, n \in 1..Len(msgs) :
    m < n /\ msgs[m].topic = msgs[n].topic => msgs[m].id < msgs[n].id

Concern(msgs, kinds, ids) ==
  \A n \in 1..Len(msgs) :
    msgs[n].id \in ids /\ kinds[msgs[n].id] = KindOf[msgs[n].topic]

LEMMA InOrderIs ==
  ASSUME NEW ids \in SUBSET Nat, IsFiniteSet(ids), NEW s \in InOrder(ids)
  PROVE  /\ s \in Seq(Nat) /\ Len(s) = Cardinality(ids) /\ Cardinality(ids) \in Nat
         /\ \A n \in 1..Len(s) : s[n] \in ids
         /\ \A i \in ids : \E n \in 1..Len(s) : s[n] = i
         /\ \A m, n \in 1..Len(s) : m < n => s[m] < s[n]
<1>1. Cardinality(ids) \in Nat
  BY FS_CardinalityType
<1>2. s \in [1..Cardinality(ids) -> ids]
  BY DEF InOrder
<1>3. s \in Seq(Nat) /\ Len(s) = Cardinality(ids) /\ DOMAIN s = 1..Len(s)
  <2>1. DOMAIN s = 1..Cardinality(ids) /\ s \in [1..Cardinality(ids) -> Nat]
    BY <1>2
  <2>2. s \in Seq(Nat)
    BY <1>1, <2>1, SeqDef
  <2>3. Len(s) \in Nat /\ DOMAIN s = 1..Len(s)
    BY <2>2, LenProperties
  <2>. QED
    BY <1>1, <2>1, <2>2, <2>3
<1>. QED
  BY <1>1, <1>2, <1>3 DEF InOrder

LEMMA ToIs ==
  ASSUME NEW t \in Topics, NEW s \in Seq(Nat)
  PROVE  /\ To(t, s) \in Seq(Messages) /\ Len(To(t, s)) = Len(s)
         /\ \A n \in 1..Len(s) : To(t, s)[n].topic = t /\ To(t, s)[n].id = s[n]
<1>1. DOMAIN s = 1..Len(s) /\ Len(s) \in Nat
  BY LenProperties
<1>2. \A n \in 1..Len(s) : [topic |-> t, id |-> s[n]] \in Messages
  BY <1>1 DEF Messages
<1>. QED
  BY <1>1, <1>2 DEF To

\* The messages of one frame: each sub-record once at most, the valid ones and the
\* rejects all of them.
LEMMA OutgoingIs ==
  ASSUME NEW kinds, NEW ids \in SUBSET Nat, IsFiniteSet(ids),
         NEW msgs \in Outgoing(kinds, ids)
  PROVE  /\ msgs \in Seq(Messages) /\ Len(msgs) <= Cardinality(ids)
         /\ Sorted(msgs) /\ Concern(msgs, kinds, ids)
         /\ \A i \in ids, t \in Topics : kinds[i] = KindOf[t] =>
              \E n \in 1..Len(msgs) : msgs[n].topic = t /\ msgs[n].id = i
<1> DEFINE bad == Rejects(kinds, ids)
           good == Valid(kinds, ids)
<1>1. bad \subseteq ids /\ good \subseteq ids /\ bad \cap good = {}
  BY DEF Rejects, Valid
<1>2. IsFiniteSet(bad) /\ IsFiniteSet(good) /\ bad \in SUBSET Nat /\ good \in SUBSET Nat
  BY <1>1, FS_Subset
<1>3. PICK b \in InOrder(bad), v \in InOrder(good) :
        msgs = To("quarantine", b) \o To("raw", v)
  BY DEF Outgoing
<1>4. /\ b \in Seq(Nat) /\ Len(b) = Cardinality(bad) /\ Cardinality(bad) \in Nat
      /\ \A n \in 1..Len(b) : b[n] \in bad
      /\ \A i \in bad : \E n \in 1..Len(b) : b[n] = i
      /\ \A m, n \in 1..Len(b) : m < n => b[m] < b[n]
  BY <1>2, InOrderIs
<1>5. /\ v \in Seq(Nat) /\ Len(v) = Cardinality(good) /\ Cardinality(good) \in Nat
      /\ \A n \in 1..Len(v) : v[n] \in good
      /\ \A i \in good : \E n \in 1..Len(v) : v[n] = i
      /\ \A m, n \in 1..Len(v) : m < n => v[m] < v[n]
  BY <1>2, InOrderIs
<1> DEFINE q == To("quarantine", b)
           r == To("raw", v)
<1>6. /\ q \in Seq(Messages) /\ Len(q) = Len(b)
      /\ \A n \in 1..Len(b) : q[n].topic = "quarantine" /\ q[n].id = b[n]
  BY <1>4, ToIs DEF Topics
<1>7. /\ r \in Seq(Messages) /\ Len(r) = Len(v)
      /\ \A n \in 1..Len(v) : r[n].topic = "raw" /\ r[n].id = v[n]
  BY <1>5, ToIs DEF Topics
<1> HIDE DEF q, r, bad, good
<1>8. /\ msgs \in Seq(Messages) /\ Len(msgs) = Len(b) + Len(v)
      /\ \A n \in 1..Len(b) : msgs[n] = q[n]
      /\ \A n \in 1..Len(v) : msgs[Len(b) + n] = r[n]
  <2>1. msgs = q \o r
    BY <1>3 DEF q, r
  <2>2. Len(b) \in Nat /\ Len(v) \in Nat
    BY <1>4, <1>5
  <2>3. /\ q \o r \in Seq(Messages) /\ Len(q \o r) = Len(q) + Len(r)
        /\ \A i \in 1..(Len(q) + Len(r)) :
             (q \o r)[i] = IF i <= Len(q) THEN q[i] ELSE r[i - Len(q)]
    <3>1. q \in Seq(Messages) /\ r \in Seq(Messages)
      BY <1>6, <1>7
    <3>. QED
      BY <3>1, ConcatProperties
  <2>4. ASSUME NEW n \in 1..Len(v) PROVE msgs[Len(b) + n] = r[n]
    <3>1. Len(b) + n \in 1..(Len(q) + Len(r)) /\ ~(Len(b) + n <= Len(q))
      BY <1>6, <1>7, <2>2, <2>4
    <3>2. (Len(b) + n) - Len(q) = n
      BY <1>6, <2>2, <2>4
    <3>. QED
      BY <2>1, <2>3, <3>1, <3>2
  <2>5. \A n \in 1..Len(b) : msgs[n] = q[n]
    BY <1>6, <1>7, <2>1, <2>2, <2>3
  <2>. QED
    BY <1>6, <1>7, <2>1, <2>3, <2>4, <2>5
<1>9. Len(msgs) <= Cardinality(ids)
  <2>1. Cardinality(bad \cup good) = Cardinality(bad) + Cardinality(good)
    <3>1. Cardinality(bad \cap good) = 0
      BY <1>1, FS_EmptySet
    <3>2. Cardinality(bad \cup good) =
            Cardinality(bad) + Cardinality(good) - Cardinality(bad \cap good)
      BY <1>2, FS_Union
    <3>. QED
      BY <1>4, <1>5, <3>1, <3>2
  <2>2. Cardinality(bad \cup good) <= Cardinality(ids)
    BY <1>1, FS_Subset
  <2>. QED
    BY <1>4, <1>5, <1>8, <2>1, <2>2
<1>10. \A n \in 1..Len(msgs) :
         \/ n \in 1..Len(b) /\ msgs[n].topic = "quarantine" /\ msgs[n].id = b[n]
         \/ \E k \in 1..Len(v) : n = Len(b) + k /\ msgs[n].topic = "raw" /\ msgs[n].id = v[k]
  <2> SUFFICES ASSUME NEW n \in 1..Len(msgs)
               PROVE  \/ n \in 1..Len(b) /\ msgs[n].topic = "quarantine" /\ msgs[n].id = b[n]
                      \/ \E k \in 1..Len(v) :
                           n = Len(b) + k /\ msgs[n].topic = "raw" /\ msgs[n].id = v[k]
    OBVIOUS
  <2>1. CASE n \in 1..Len(b)
    BY <1>6, <1>8, <2>1
  <2>2. CASE n \notin 1..Len(b)
    <3>1. n - Len(b) \in 1..Len(v) /\ n = Len(b) + (n - Len(b))
      BY <1>4, <1>5, <1>8, <2>2
    <3>2. msgs[Len(b) + (n - Len(b))] = r[n - Len(b)]
      BY <1>8, <3>1
    <3>. QED
      BY <1>7, <3>1, <3>2
  <2>. QED
    BY <2>1, <2>2
<1>11. Sorted(msgs)
  <2> SUFFICES ASSUME NEW m \in 1..Len(msgs), NEW n \in 1..Len(msgs), m < n,
                      msgs[m].topic = msgs[n].topic
               PROVE  msgs[m].id < msgs[n].id
    BY DEF Sorted
  <2>1. CASE m \in 1..Len(b) /\ n \in 1..Len(b)
    BY <1>4, <1>6, <1>8, <2>1
  <2>2. CASE ~(m \in 1..Len(b) /\ n \in 1..Len(b))
    <3>1. PICK k \in 1..Len(v) : m = Len(b) + k /\ msgs[m].id = v[k]
      BY <1>4, <1>5, <1>10, <2>2
    <3>2. PICK l \in 1..Len(v) : n = Len(b) + l /\ msgs[n].id = v[l]
      BY <1>4, <1>5, <1>10, <2>2
    <3>3. k < l
      BY <1>4, <1>5, <3>1, <3>2
    <3>. QED
      BY <1>5, <3>1, <3>2, <3>3
  <2>. QED
    BY <2>1, <2>2
<1>12. Concern(msgs, kinds, ids)
  <2>1. /\ \A i \in bad : i \in ids /\ kinds[i] = KindOf["quarantine"]
        /\ \A i \in good : i \in ids /\ kinds[i] = KindOf["raw"]
    BY DEF bad, good, Rejects, Valid, KindOf
  <2>. QED
    BY <1>4, <1>5, <1>10, <2>1 DEF Concern
<1>13. \A i \in ids, t \in Topics : kinds[i] = KindOf[t] =>
         \E n \in 1..Len(msgs) : msgs[n].topic = t /\ msgs[n].id = i
  <2> SUFFICES ASSUME NEW i \in ids, NEW t \in Topics, kinds[i] = KindOf[t]
               PROVE  \E n \in 1..Len(msgs) : msgs[n].topic = t /\ msgs[n].id = i
    OBVIOUS
  <2>1. CASE t = "quarantine"
    <3>1. i \in bad
      BY <2>1 DEF bad, Rejects, KindOf
    <3>2. PICK n \in 1..Len(b) : b[n] = i
      BY <1>4, <3>1
    <3>3. n \in 1..Len(msgs)
      BY <1>4, <1>5, <1>8
    <3>. QED
      BY <1>6, <1>8, <2>1, <3>2, <3>3
  <2>2. CASE t = "raw"
    <3>1. i \in good
      BY <2>2 DEF good, Valid, KindOf
    <3>2. PICK n \in 1..Len(v) : v[n] = i
      BY <1>5, <3>1
    <3>3. Len(b) + n \in 1..Len(msgs)
      BY <1>4, <1>5, <1>8, <3>2
    <3>. QED
      BY <1>7, <1>8, <2>2, <3>2, <3>3
  <2>. QED
    BY <2>1, <2>2 DEF Topics
<1>. QED
  BY <1>8, <1>9, <1>11, <1>12, <1>13

\* The beginning of a frame's messages, when the queue has no room for them all.
LEMMA PrefixIs ==
  ASSUME NEW kinds, NEW ids, NEW msgs \in Seq(Messages), NEW room \in Nat,
         room < Len(msgs), Sorted(msgs), Concern(msgs, kinds, ids)
  PROVE  LET sent == SubSeq(msgs, 1, room)
         IN /\ sent \in Seq(Messages) /\ Len(sent) = room
            /\ Sorted(sent) /\ Concern(sent, kinds, ids)
<1> DEFINE sent == SubSeq(msgs, 1, room)
<1>1. Len(msgs) \in Nat /\ \A n \in 1..room : msgs[n] \in Messages /\ n \in 1..Len(msgs)
  BY LenProperties
<1>2. /\ sent \in Seq(Messages) /\ Len(sent) = room
      /\ \A n \in 1..room : sent[n] = msgs[n]
  BY <1>1, SubSeqProperties
<1> HIDE DEF sent
<1>3. Sorted(sent) /\ Concern(sent, kinds, ids)
  BY <1>1, <1>2 DEF Sorted, Concern
<1>. QED
  BY <1>2, <1>3 DEF sent

-----------------------------------------------------------------------------
(* How many messages of a sequence are for the raw topics.                 *)

RawAt(msgs) == {n \in 1..Len(msgs) : msgs[n].topic = "raw"}

LEMMA RawCountType ==
  ASSUME NEW msgs \in Seq(Messages)
  PROVE  /\ IsFiniteSet(RawAt(msgs)) /\ RawAt(msgs) \in SUBSET Nat
         /\ RawCount(msgs) = Cardinality(RawAt(msgs))
         /\ RawCount(msgs) \in Nat /\ RawCount(msgs) <= Len(msgs)
<1>1. DOMAIN msgs = 1..Len(msgs) /\ Len(msgs) \in Nat
  BY LenProperties
<1>2. IsFiniteSet(1..Len(msgs)) /\ Cardinality(1..Len(msgs)) = Len(msgs)
  BY <1>1, FS_Interval
<1>3. RawAt(msgs) \subseteq 1..Len(msgs)
  BY DEF RawAt
<1>4. IsFiniteSet(RawAt(msgs)) /\ Cardinality(RawAt(msgs)) <= Len(msgs)
  BY <1>2, <1>3, FS_Subset
<1>5. RawCount(msgs) = Cardinality(RawAt(msgs))
  BY <1>1 DEF RawCount, RawAt
<1>6. Cardinality(RawAt(msgs)) \in Nat
  BY <1>4, FS_CardinalityType
<1>. QED
  BY <1>1, <1>3, <1>4, <1>5, <1>6

\* Moving a finite set of positions changes nothing about its size.
LEMMA Shifted ==
  ASSUME NEW A \in SUBSET Nat, IsFiniteSet(A), NEW k \in Nat
  PROVE  /\ IsFiniteSet({n + k : n \in A})
         /\ Cardinality({n + k : n \in A}) = Cardinality(A)
<1> DEFINE B == {n + k : n \in A}
           f == [n \in A |-> n + k]
<1>1. f \in [A -> B]
  OBVIOUS
<1>2. \A m, n \in A : f[m] = f[n] => m = n
  OBVIOUS
<1>3. \A b \in B : \E n \in A : f[n] = b
  OBVIOUS
<1> HIDE DEF f, B
<1>4. f \in Bijection(A, B)
  BY <1>1, <1>2, <1>3 DEF Bijection, Injection, Surjection, IsInjective
<1>5. ExistsBijection(A, B)
  BY <1>4 DEF ExistsBijection
<1>6. IsFiniteSet(B) /\ Cardinality(B) = Cardinality(A)
  BY <1>5, FS_Bijection
<1>. QED
  BY <1>6 DEF B

LEMMA RawCountConcat ==
  ASSUME NEW p \in Seq(Messages), NEW q \in Seq(Messages)
  PROVE  RawCount(p \o q) = RawCount(p) + RawCount(q)
<1> DEFINE A == RawAt(p)
           B == {n + Len(p) : n \in RawAt(q)}
<1>1. /\ p \o q \in Seq(Messages) /\ Len(p \o q) = Len(p) + Len(q)
      /\ \A i \in 1..(Len(p) + Len(q)) :
           (p \o q)[i] = IF i <= Len(p) THEN p[i] ELSE q[i - Len(p)]
  BY ConcatProperties
<1>2. Len(p) \in Nat /\ Len(q) \in Nat
  BY LenProperties
<1>3. /\ IsFiniteSet(A) /\ A \in SUBSET Nat /\ RawCount(p) = Cardinality(A)
      /\ RawCount(p) \in Nat
  BY RawCountType
<1>4. /\ IsFiniteSet(RawAt(q)) /\ RawAt(q) \in SUBSET Nat
      /\ RawCount(q) = Cardinality(RawAt(q)) /\ RawCount(q) \in Nat
  BY RawCountType
<1>5. IsFiniteSet(B) /\ Cardinality(B) = RawCount(q)
  BY <1>2, <1>4, Shifted
<1>6. RawAt(p \o q) = A \cup B
  <2>1. ASSUME NEW n \in RawAt(p \o q) PROVE n \in A \cup B
    <3>1. n \in 1..(Len(p) + Len(q)) /\ (p \o q)[n].topic = "raw"
      BY <1>1, <2>1 DEF RawAt
    <3>2. CASE n <= Len(p)
      BY <1>1, <1>2, <3>1, <3>2 DEF RawAt
    <3>3. CASE ~(n <= Len(p))
      <4>1. n - Len(p) \in 1..Len(q) /\ n = (n - Len(p)) + Len(p)
        BY <1>2, <3>1, <3>3
      <4>2. q[n - Len(p)].topic = "raw"
        BY <1>1, <3>1, <3>3
      <4>3. n - Len(p) \in RawAt(q)
        BY <4>1, <4>2 DEF RawAt
      <4>. QED
        BY <4>1, <4>3
    <3>. QED
      BY <3>2, <3>3
  <2>2. ASSUME NEW n \in A PROVE n \in RawAt(p \o q)
    BY <1>1, <1>2, <2>2 DEF RawAt
  <2>3. ASSUME NEW n \in B PROVE n \in RawAt(p \o q)
    <3>1. PICK k \in RawAt(q) : n = k + Len(p)
      BY <2>3
    <3>2. k \in 1..Len(q) /\ q[k].topic = "raw"
      BY DEF RawAt
    <3>3. /\ n \in 1..(Len(p) + Len(q)) /\ ~(n <= Len(p)) /\ n - Len(p) = k
      BY <1>2, <3>1, <3>2
    <3>. QED
      BY <1>1, <3>2, <3>3 DEF RawAt
  <2>. QED
    BY <2>1, <2>2, <2>3
<1>7. A \cap B = {}
  BY <1>2 DEF RawAt
<1>8. Cardinality(A \cap B) = 0
  BY <1>7, FS_EmptySet
<1>9. Cardinality(A \cup B) = Cardinality(A) + Cardinality(B) - Cardinality(A \cap B)
  BY <1>3, <1>5, FS_Union
<1>10. RawCount(p \o q) = Cardinality(RawAt(p \o q))
  BY <1>1, RawCountType
<1>. QED
  BY <1>3, <1>4, <1>5, <1>6, <1>8, <1>9, <1>10

LEMMA RawCountTail ==
  ASSUME NEW q \in Seq(Messages), q # <<>>
  PROVE  RawCount(q) = RawCount(Tail(q)) + (IF Head(q).topic = "raw" THEN 1 ELSE 0)
<1> DEFINE B == {n + 1 : n \in RawAt(Tail(q))}
<1>1. /\ Tail(q) \in Seq(Messages) /\ Len(Tail(q)) = Len(q) - 1
      /\ \A i \in 1..Len(Tail(q)) : Tail(q)[i] = q[i + 1]
  BY HeadTailProperties
<1>2. Len(q) \in Nat /\ Len(q) # 0 /\ Head(q) = q[1]
  BY LenProperties, EmptySeq
<1>3. /\ IsFiniteSet(RawAt(Tail(q))) /\ RawAt(Tail(q)) \in SUBSET Nat
      /\ RawCount(Tail(q)) = Cardinality(RawAt(Tail(q))) /\ RawCount(Tail(q)) \in Nat
  BY <1>1, RawCountType
<1>4. IsFiniteSet(B) /\ Cardinality(B) = RawCount(Tail(q))
  BY <1>3, Shifted
<1>5. \A n \in Nat : n + 1 \in RawAt(q) <=> n + 1 \in B \/ (n = 0 /\ q[1].topic = "raw")
  <2> SUFFICES ASSUME NEW n \in Nat
               PROVE  n + 1 \in RawAt(q) <=> n + 1 \in B \/ (n = 0 /\ q[1].topic = "raw")
    OBVIOUS
  <2>1. n + 1 \in B <=> n \in RawAt(Tail(q))
    BY <1>3
  <2>2. CASE n = 0
    BY <1>2, <2>1, <2>2 DEF RawAt
  <2>3. CASE n # 0
    <3>1. n \in 1..Len(Tail(q)) <=> n + 1 \in 1..Len(q)
      BY <1>1, <1>2, <2>3
    <3>. QED
      BY <1>1, <2>1, <2>3, <3>1 DEF RawAt
  <2>. QED
    BY <2>2, <2>3
<1>6. RawAt(q) = B \cup (IF Head(q).topic = "raw" THEN {1} ELSE {})
  <2>1. \A m \in RawAt(q) : m - 1 \in Nat /\ m = (m - 1) + 1
    BY <1>2 DEF RawAt
  <2>2. \A m \in B : m - 1 \in Nat /\ m = (m - 1) + 1
    BY <1>3
  <2>3. \A m \in RawAt(q) : m \in B \/ (m = 1 /\ Head(q).topic = "raw")
    BY <1>2, <1>5, <2>1
  <2>4. \A m \in B : m \in RawAt(q)
    BY <1>5, <2>2
  <2>5. Head(q).topic = "raw" => 1 \in RawAt(q)
    BY <1>2 DEF RawAt
  <2>. QED
    BY <2>3, <2>4, <2>5
<1>7. 1 \notin B
  BY <1>3 DEF RawAt
<1>8. RawCount(q) = Cardinality(RawAt(q))
  BY RawCountType
<1>9. CASE Head(q).topic = "raw"
  <2>1. Cardinality(B \cup {1}) = Cardinality(B) + 1
    BY <1>4, <1>7, FS_AddElement
  <2>2. RawAt(q) = B \cup {1}
    BY <1>6, <1>9
  <2>. QED
    BY <1>4, <1>8, <1>9, <2>1, <2>2
<1>10. CASE Head(q).topic # "raw"
  <2>1. RawAt(q) = B
    BY <1>6, <1>10
  <2>. QED
    BY <1>3, <1>4, <1>8, <1>10, <2>1
<1>. QED
  BY <1>9, <1>10

-----------------------------------------------------------------------------
(* Steps that touch no message.                                            *)

mailVars == <<received, queue, topics, failed, published>>

LEMMA MailKept ==
  ASSUME ProducerInv, UNCHANGED mailVars, exchange' \in Seq(Kinds),
         Len(exchange) <= Len(exchange'),
         \A i \in 1..Len(exchange) : exchange'[i] = exchange[i]
  PROVE  /\ KnownInv' /\ OrderInv' /\ RoutedInv' /\ QueueInv' /\ PublishedAccounted'
         /\ received' \subseteq 1..Len(exchange')
         /\ queue' \in Seq(Messages) /\ topics' \in [Topics -> Seq(Nat)]
         /\ failed' \subseteq Messages /\ published' \in Nat
<1>1. /\ Len(exchange) \in Nat /\ Len(exchange') \in Nat
      /\ 1..Len(exchange) \subseteq 1..Len(exchange')
  BY LenProperties DEF ProducerInv, TypeOK
<1>2. /\ received' = received /\ queue' = queue /\ topics' = topics
      /\ failed' = failed /\ published' = published
  BY DEF mailVars
<1>3. /\ \A t \in Topics, i \in Nat :
           /\ Queued(t, i)' <=> Queued(t, i)
           /\ Landed(t, i)' <=> Landed(t, i)
           /\ Lost(t, i)' <=> Lost(t, i)
  BY <1>2 DEF Queued, QueuedAt, Landed, Lost
<1>4. KnownInv'
  BY <1>1, <1>3 DEF KnownInv, ProducerInv
<1>5. OrderInv'
  BY <1>2, <1>3 DEF OrderInv, RawOrdered, ProducerInv
<1>6. received \subseteq 1..Len(exchange)
  BY DEF ProducerInv, TypeOK
<1>7. RoutedInv'
  <2>1. \A i \in received : i \in Nat /\ exchange'[i] = exchange[i]
    BY <1>1, <1>6
  <2>. QED
    BY <1>2, <1>3, <2>1 DEF RoutedInv, ProducerInv
<1>8. QueueInv'
  BY <1>2 DEF QueueInv, ProducerInv
<1>9. PublishedAccounted'
  BY <1>2 DEF PublishedAccounted, ProducerInv
<1>. QED
  BY <1>1, <1>2, <1>4, <1>5, <1>6, <1>7, <1>8, <1>9 DEF ProducerInv, TypeOK

LEMMA MarketMovesStep == ProducerInv /\ MarketMoves => ProducerInv'
<1> SUFFICES ASSUME ProducerInv, MarketMoves PROVE ProducerInv'
  OBVIOUS
<1>1. PICK k \in Kinds : exchange' = Append(exchange, k)
  BY DEF MarketMoves
<1>2. exchange \in Seq(Kinds)
  BY DEF ProducerInv, TypeOK
<1>3. /\ exchange' \in Seq(Kinds) /\ Len(exchange') = Len(exchange) + 1
      /\ \A i \in 1..Len(exchange) : exchange'[i] = exchange[i]
  BY <1>1, <1>2, AppendProperties
<1>4. Len(exchange) \in Nat
  BY <1>2, LenProperties
<1>5. UNCHANGED mailVars /\ UNCHANGED taskVars
  BY DEF MarketMoves, mailVars, taskVars
<1>6. /\ KnownInv' /\ OrderInv' /\ RoutedInv' /\ QueueInv' /\ PublishedAccounted'
      /\ received' \subseteq 1..Len(exchange')
      /\ queue' \in Seq(Messages) /\ topics' \in [Topics -> Seq(Nat)]
      /\ failed' \subseteq Messages /\ published' \in Nat
  BY <1>3, <1>4, <1>5, MailKept
<1>7. TypeOK'
  BY <1>3, <1>5, <1>6 DEF TypeOK, ProducerInv, taskVars
<1>8. LimitInv' /\ BackoffInv'
  BY <1>5 DEF LimitInv, BackoffInv, ProducerInv, taskVars
<1>. QED
  BY <1>6, <1>7, <1>8 DEF ProducerInv

\* The task moves on, and neither the market nor a message does.
LEMMA TaskMoves ==
  ASSUME ProducerInv, UNCHANGED mailVars, exchange' = exchange,
         phase' \in AwaitPhases \cup {"flushing", "closing", "exited"},
         outcome' \in {"none", "returned", "cancelled", "malformed", "overrun", "overflow"},
         phase' \in {"closing", "exited"} <=> outcome' # "none",
         reconnects' \in Nat, producedThisConn' \in Nat,
         factor' \in 1..(2 * FactorMax), ceiling' \in 0..Cap,
         LimitInv', BackoffInv'
  PROVE  ProducerInv'
<1>1. exchange \in Seq(Kinds) /\ Len(exchange) \in Nat
  BY LenProperties DEF ProducerInv, TypeOK
<1>2. /\ KnownInv' /\ OrderInv' /\ RoutedInv' /\ QueueInv' /\ PublishedAccounted'
      /\ received' \subseteq 1..Len(exchange')
      /\ queue' \in Seq(Messages) /\ topics' \in [Topics -> Seq(Nat)]
      /\ failed' \subseteq Messages /\ published' \in Nat
  BY <1>1, MailKept
<1>3. TypeOK'
  BY <1>1, <1>2 DEF TypeOK
<1>. QED
  BY <1>2, <1>3 DEF ProducerInv

LEMMA TypesOfTask ==
  ProducerInv => /\ phase \in AwaitPhases \cup {"flushing", "closing", "exited"}
                 /\ phase \in {"closing", "exited"} <=> outcome # "none"
                 /\ outcome \in {"none", "returned", "cancelled", "malformed", "overrun",
                                "overflow"}
                 /\ reconnects \in Nat /\ producedThisConn \in Nat /\ published \in Nat
                 /\ factor \in 1..(2 * FactorMax) /\ ceiling \in 0..Cap
                 /\ LimitInv /\ BackoffInv
BY DEF ProducerInv, TypeOK

LEMMA QuietSteps ==
  ASSUME ProducerInv,
         Connect \/ Disconnect \/ HandleBroken \/ WakeUp \/ Cancel \/ Exit
  PROVE  ProducerInv'
<1>1. UNCHANGED mailVars /\ exchange' = exchange
  BY DEF Connect, Disconnect, HandleBroken, WakeUp, Cancel, Exit, mailVars
<1>2. UNCHANGED <<reconnects, factor, ceiling, published>>
  BY DEF Connect, Disconnect, HandleBroken, WakeUp, Cancel, Exit
<1>3. producedThisConn' \in Nat
  BY TypesOfTask DEF Connect, Disconnect, HandleBroken, WakeUp, Cancel, Exit
<1>4. /\ phase' \in AwaitPhases \cup {"flushing", "closing", "exited"}
      /\ outcome' \in {"none", "returned", "cancelled", "malformed", "overrun", "overflow"}
      /\ phase' \in {"closing", "exited"} <=> outcome' # "none"
      /\ phase' \in AwaitPhases \cup {"flushing"} => phase \in AwaitPhases \cup {"flushing"}
  BY TypesOfTask
     DEF Connect, Disconnect, HandleBroken, WakeUp, Cancel, Exit, AwaitPhases
<1>5. LimitInv'
  BY <1>2, <1>4, TypesOfTask DEF LimitInv
<1>6. BackoffInv'
  BY <1>2, TypesOfTask DEF BackoffInv
<1>. QED
  BY <1>1, <1>2, <1>3, <1>4, <1>5, <1>6, TypesOfTask, TaskMoves

LEMMA ReconnectStep ==
  ASSUME ProducerInv, phase \in {"flushing", "streaming"}, Reconnect
  PROVE  ProducerInv'
<1>1. UNCHANGED mailVars /\ exchange' = exchange
  BY DEF Reconnect, mailVars
<1>2. /\ reconnects' = reconnects + 1 /\ producedThisConn' = producedThisConn
      /\ published' = published
  BY DEF Reconnect
<1>3. phase \in AwaitPhases \cup {"flushing"} /\ outcome = "none"
  BY TypesOfTask DEF AwaitPhases
<1>4. CASE phase' = "closing" /\ outcome' \in {"returned", "overflow"}
           /\ UNCHANGED <<factor, ceiling>>
  <2>1. LimitInv'
    BY <1>2, <1>3, <1>4, TypesOfTask, ConstantsAssumption DEF LimitInv, AwaitPhases
  <2>2. BackoffInv'
    BY <1>4, TypesOfTask DEF BackoffInv
  <2>. QED
    BY <1>1, <1>2, <1>4, <2>1, <2>2, TypesOfTask, TaskMoves
<1>5. CASE /\ ~GiveUp /\ NextFactor <= FactorMax
           /\ phase' = "sleeping" /\ ceiling' = Ceiling(NextFactor)
           /\ factor' = 2 * NextFactor /\ outcome' = outcome
  <2>1. NextFactor \in Nat /\ NextFactor >= 1
    BY TypesOfTask, ConstantsAssumption DEF NextFactor
  <2> DEFINE f == NextFactor
             b == Base * f
  <2>2. b \in Nat
    BY <2>1, ConstantsAssumption
  <2>3. Ceiling(f) = IF Cap < b THEN Cap ELSE b
    BY DEF Ceiling, Lesser
  <2> HIDE DEF b
  <2>4. Ceiling(f) \in 0..Cap /\ Ceiling(f) <= b
    BY <2>2, <2>3, ConstantsAssumption
  <2>5. factor' \in 1..(2 * FactorMax)
    BY <1>5, <2>1, ConstantsAssumption
  <2>6. LimitInv'
    <3>1. MaxReconnects # NoLimit => reconnects' <= MaxReconnects
      BY <1>2, <1>5, TypesOfTask, ConstantsAssumption DEF GiveUp
    <3>2. MaxMessages > 0 => published' < MaxMessages + FrameMax /\ published' < MaxMessages
      BY <1>2, <1>3, TypesOfTask DEF LimitInv
    <3>3. MaxReconnects # NoLimit => reconnects' <= MaxReconnects + 1
      BY <1>2, <3>1, TypesOfTask, ConstantsAssumption
    <3>. QED
      BY <3>1, <3>2, <3>3 DEF LimitInv
  <2>7. BackoffInv'
    <3>1. Base * (2 * f) = 2 * b
      BY <2>1, ConstantsAssumption DEF b
    <3>2. Base * factor' = 2 * b
      BY <1>5, <3>1
    <3>3. 2 * ceiling' <= 2 * b
      BY <1>5, <2>2, <2>4, ConstantsAssumption
    <3>. QED
      BY <3>2, <3>3 DEF BackoffInv
  <2>8. ceiling' \in 0..Cap
    BY <1>5, <2>4
  <2>. QED
    BY <1>1, <1>2, <1>3, <1>5, <2>5, <2>6, <2>7, <2>8, TypesOfTask, TaskMoves
       DEF AwaitPhases
<1>. QED
  BY <1>4, <1>5 DEF Reconnect

-----------------------------------------------------------------------------
(* Steps that produce messages.                                            *)

\* Messages about new sub-records join the queue.
LEMMA Sending ==
  ASSUME ProducerInv, UNCHANGED <<topics, failed>>,
         exchange' \in Seq(Kinds), Len(exchange) <= Len(exchange'),
         \A i \in 1..Len(exchange) : exchange'[i] = exchange[i],
         NEW ids \in SUBSET Nat,
         \A i \in ids : Len(exchange) < i /\ i <= Len(exchange'),
         NEW sent \in Seq(Messages), Sorted(sent), Concern(sent, exchange', ids),
         queue' = queue \o sent, Len(queue) + Len(sent) <= QueueMax
  PROVE  /\ KnownInv' /\ OrderInv' /\ QueueInv' /\ queue' \in Seq(Messages)
         /\ \A t \in Topics, i \in Nat :
              /\ Queued(t, i)' <=> \/ Queued(t, i)
                                  \/ \E n \in 1..Len(sent) : sent[n].topic = t /\ sent[n].id = i
              /\ Landed(t, i)' <=> Landed(t, i)
              /\ Lost(t, i)' <=> Lost(t, i)
         /\ RawCount(queue') = RawCount(queue) + RawCount(sent)
<1>1. queue \in Seq(Messages) /\ Len(queue) \in Nat /\ Len(sent) \in Nat
  BY LenProperties DEF ProducerInv, TypeOK
<1>2. Len(exchange) \in Nat /\ Len(exchange') \in Nat
  BY LenProperties DEF ProducerInv, TypeOK
<1>3. /\ queue' \in Seq(Messages) /\ Len(queue') = Len(queue) + Len(sent)
      /\ \A n \in 1..(Len(queue) + Len(sent)) :
           queue'[n] = IF n <= Len(queue) THEN queue[n] ELSE sent[n - Len(queue)]
  BY <1>1, ConcatProperties
<1>4. \A n \in 1..Len(queue) : n \in 1..Len(queue') /\ queue'[n] = queue[n]
  BY <1>1, <1>3
<1>5. \A n \in 1..Len(sent) :
        Len(queue) + n \in 1..Len(queue') /\ queue'[Len(queue) + n] = sent[n]
  <2> SUFFICES ASSUME NEW n \in 1..Len(sent)
               PROVE Len(queue) + n \in 1..Len(queue') /\ queue'[Len(queue) + n] = sent[n]
    OBVIOUS
  <2>1. /\ Len(queue) + n \in 1..(Len(queue) + Len(sent)) /\ ~(Len(queue) + n <= Len(queue))
        /\ (Len(queue) + n) - Len(queue) = n
    BY <1>1
  <2>. QED
    BY <1>3, <2>1
<1>6. \A n \in 1..Len(queue') :
        \/ n \in 1..Len(queue)
        \/ \E k \in 1..Len(sent) : n = Len(queue) + k
  <2> SUFFICES ASSUME NEW n \in 1..Len(queue'), n \notin 1..Len(queue)
               PROVE  \E k \in 1..Len(sent) : n = Len(queue) + k
    OBVIOUS
  <2>1. n - Len(queue) \in 1..Len(sent) /\ n = Len(queue) + (n - Len(queue))
    BY <1>1, <1>3
  <2>. QED
    BY <2>1
<1>7. \A n \in 1..Len(sent) :
        /\ sent[n].topic \in Topics /\ sent[n].id \in Nat
        /\ Len(exchange) < sent[n].id /\ sent[n].id <= Len(exchange')
        /\ exchange'[sent[n].id] = KindOf[sent[n].topic]
  <2> SUFFICES ASSUME NEW n \in 1..Len(sent)
               PROVE  /\ sent[n].topic \in Topics /\ sent[n].id \in Nat
                      /\ Len(exchange) < sent[n].id /\ sent[n].id <= Len(exchange')
                      /\ exchange'[sent[n].id] = KindOf[sent[n].topic]
    OBVIOUS
  <2>1. sent[n] \in Messages
    BY ElementOfSeq
  <2>2. sent[n].id \in ids /\ exchange'[sent[n].id] = KindOf[sent[n].topic]
    BY DEF Concern
  <2>. QED
    BY <2>1, <2>2 DEF Messages
<1>8. \A n \in 1..Len(queue) : queue[n].topic \in Topics /\ queue[n].id \in Nat
  <2>1. \A n \in 1..Len(queue) : queue[n] \in Messages
    BY <1>1, ElementOfSeq
  <2>. QED
    BY <2>1 DEF Messages
<1>9. \A t \in Topics, i \in Nat :
        Queued(t, i)' <=> \/ Queued(t, i)
                          \/ \E n \in 1..Len(sent) : sent[n].topic = t /\ sent[n].id = i
  <2> SUFFICES ASSUME NEW t \in Topics, NEW i \in Nat
               PROVE  Queued(t, i)' <=>
                        \/ Queued(t, i)
                        \/ \E n \in 1..Len(sent) : sent[n].topic = t /\ sent[n].id = i
    OBVIOUS
  <2>1. Queued(t, i)' => \/ Queued(t, i)
                         \/ \E n \in 1..Len(sent) : sent[n].topic = t /\ sent[n].id = i
    <3> SUFFICES ASSUME NEW n \in 1..Len(queue'), queue'[n].topic = t, queue'[n].id = i
                 PROVE  \/ Queued(t, i)
                        \/ \E k \in 1..Len(sent) : sent[k].topic = t /\ sent[k].id = i
      BY DEF Queued, QueuedAt
    <3>1. CASE n \in 1..Len(queue)
      BY <1>4, <3>1 DEF Queued, QueuedAt
    <3>2. CASE \E k \in 1..Len(sent) : n = Len(queue) + k
      BY <1>5, <3>2
    <3>. QED
      BY <1>6, <3>1, <3>2
  <2>2. Queued(t, i) => Queued(t, i)'
    BY <1>4 DEF Queued, QueuedAt
  <2>3. (\E n \in 1..Len(sent) : sent[n].topic = t /\ sent[n].id = i) => Queued(t, i)'
    BY <1>5 DEF Queued, QueuedAt
  <2>. QED
    BY <2>1, <2>2, <2>3
<1>10. \A t \in Topics, i \in Nat :
         (Landed(t, i)' <=> Landed(t, i)) /\ (Lost(t, i)' <=> Lost(t, i))
  BY DEF Landed, Lost
<1>11. \A t \in Topics, i \in Nat :
         Queued(t, i) \/ Landed(t, i) \/ Lost(t, i)
           => i \in 1..Len(exchange) /\ exchange[i] = KindOf[t]
  BY DEF ProducerInv, KnownInv
<1>12. KnownInv'
  <2> SUFFICES ASSUME NEW t \in Topics, NEW i \in Nat,
                      (Queued(t, i) \/ Landed(t, i) \/ Lost(t, i))'
               PROVE  i \in 1..Len(exchange') /\ exchange'[i] = KindOf[t]
    BY DEF KnownInv
  <2>1. CASE Queued(t, i) \/ Landed(t, i) \/ Lost(t, i)
    BY <1>2, <1>11, <2>1
  <2>2. CASE \E n \in 1..Len(sent) : sent[n].topic = t /\ sent[n].id = i
    BY <1>2, <1>7, <2>2
  <2>. QED
    BY <1>9, <1>10, <2>1, <2>2
<1>13. \A n \in 1..Len(queue) : queue[n].id <= Len(exchange)
  <2> SUFFICES ASSUME NEW n \in 1..Len(queue) PROVE queue[n].id <= Len(exchange)
    OBVIOUS
  <2>1. Queued(queue[n].topic, queue[n].id)
    BY DEF Queued, QueuedAt
  <2>. QED
    BY <1>2, <1>8, <1>11, <2>1
<1>14. \A m, n \in 1..Len(queue') :
         m < n /\ queue'[m].topic = queue'[n].topic => queue'[m].id < queue'[n].id
  <2> SUFFICES ASSUME NEW m \in 1..Len(queue'), NEW n \in 1..Len(queue'), m < n,
                      queue'[m].topic = queue'[n].topic
               PROVE  queue'[m].id < queue'[n].id
    OBVIOUS
  <2>1. CASE m \in 1..Len(queue) /\ n \in 1..Len(queue)
    BY <1>4, <2>1 DEF ProducerInv, OrderInv
  <2>2. CASE m \in 1..Len(queue) /\ n \notin 1..Len(queue)
    <3>1. PICK l \in 1..Len(sent) : n = Len(queue) + l
      BY <1>6, <2>2
    <3>2. queue'[n].id = sent[l].id /\ queue'[m].id = queue[m].id
      BY <1>4, <1>5, <2>2, <3>1
    <3>3. queue[m].id <= Len(exchange) /\ Len(exchange) < sent[l].id
      BY <1>7, <1>13, <2>2
    <3>4. queue[m].id \in Nat /\ sent[l].id \in Nat
      BY <1>7, <1>8, <2>2
    <3>5. queue[m].id < sent[l].id
      <4>1. \A a, b, c \in Nat : a <= b /\ b < c => a < c
        OBVIOUS
      <4>. QED
        BY <1>2, <3>3, <3>4, <4>1, Zenon
    <3>. QED
      BY <3>2, <3>5
  <2>3. CASE m \notin 1..Len(queue)
    <3>1. PICK k \in 1..Len(sent) : m = Len(queue) + k
      BY <1>6, <2>3
    <3>2. n \notin 1..Len(queue)
      BY <1>1, <3>1
    <3>3. PICK l \in 1..Len(sent) : n = Len(queue) + l
      BY <1>6, <3>2
    <3>4. k < l
      BY <1>1, <3>1, <3>3
    <3>5. queue'[m] = sent[k] /\ queue'[n] = sent[l]
      BY <1>5, <3>1, <3>3
    <3>. QED
      BY <3>4, <3>5 DEF Sorted
  <2>. QED
    BY <2>1, <2>2, <2>3
<1>15. \A t \in Topics, i \in Nat :
         (Landed(t, i) \/ Lost(t, i))' =>
           \A n \in 1..Len(queue') : queue'[n].topic = t => i < queue'[n].id
  <2> SUFFICES ASSUME NEW t \in Topics, NEW i \in Nat, Landed(t, i) \/ Lost(t, i),
                      NEW n \in 1..Len(queue'), queue'[n].topic = t
               PROVE  i < queue'[n].id
    BY <1>10
  <2>1. CASE n \in 1..Len(queue)
    BY <1>4, <2>1 DEF ProducerInv, OrderInv
  <2>2. CASE n \notin 1..Len(queue)
    <3>1. PICK l \in 1..Len(sent) : n = Len(queue) + l
      BY <1>6, <2>2
    <3>2. i \in 1..Len(exchange)
      BY <1>11
    <3>. QED
      BY <1>2, <1>5, <1>7, <3>1, <3>2
  <2>. QED
    BY <2>1, <2>2
<1>16. OrderInv'
  <2>1. \A t \in Topics, i \in Nat : ~(Landed(t, i)' /\ Lost(t, i)')
    BY <1>10 DEF ProducerInv, OrderInv
  <2>2. RawOrdered'
    BY DEF ProducerInv, OrderInv, RawOrdered
  <2>. QED
    BY <1>14, <1>15, <2>1, <2>2 DEF OrderInv
<1>17. QueueInv'
  BY <1>3 DEF ProducerInv, QueueInv
<1>18. RawCount(queue') = RawCount(queue) + RawCount(sent)
  BY <1>1, RawCountConcat
<1>. QED
  BY <1>3, <1>9, <1>10, <1>12, <1>16, <1>17, <1>18

\* Handling a frame: all its messages join the queue, or the first of them do and
\* the queue is full.
LEMMA HandleStep ==
  ASSUME ProducerInv, phase = "streaming",
         exchange' \in Seq(Kinds), Len(exchange) <= Len(exchange'),
         \A i \in 1..Len(exchange) : exchange'[i] = exchange[i],
         NEW type, NEW ids,
         Fresh(type, ids) \in SUBSET Nat, IsFiniteSet(Fresh(type, ids)),
         Cardinality(Fresh(type, ids)) <= FrameMax,
         \A i \in Fresh(type, ids) : Len(exchange) < i /\ i <= Len(exchange'),
         Handle(type, exchange', ids)
  PROVE  ProducerInv'
<1> DEFINE new == Fresh(type, ids)
<1>1. PICK msgs \in Outgoing(exchange', new) :
        LET room == QueueMax - Len(queue)
            sent == IF Len(msgs) <= room THEN msgs ELSE SubSeq(msgs, 1, room)
        IN /\ queue' = queue \o sent
           /\ published' = published + RawCount(sent)
           /\ producedThisConn' = producedThisConn + RawCount(sent)
           /\ \/ /\ sent = msgs
                 /\ received' = received \cup new
                 /\ IF LimitReached(published')
                    THEN phase' = "closing" /\ outcome' = "returned"
                    ELSE UNCHANGED <<phase, outcome>>
              \/ /\ sent # msgs
                 /\ received' = received
                 /\ phase' = "closing"
                 /\ outcome' = "overrun"
           /\ UNCHANGED <<reconnects, factor, ceiling, topics, failed>>
  BY DEF Handle
<1> DEFINE room == QueueMax - Len(queue)
           sent == IF Len(msgs) <= room THEN msgs ELSE SubSeq(msgs, 1, room)
<1>2. /\ queue' = queue \o sent
      /\ published' = published + RawCount(sent)
      /\ producedThisConn' = producedThisConn + RawCount(sent)
      /\ \/ /\ sent = msgs
            /\ received' = received \cup new
            /\ IF LimitReached(published')
               THEN phase' = "closing" /\ outcome' = "returned"
               ELSE UNCHANGED <<phase, outcome>>
         \/ /\ sent # msgs
            /\ received' = received
            /\ phase' = "closing"
            /\ outcome' = "overrun"
      /\ UNCHANGED <<reconnects, factor, ceiling, topics, failed>>
  BY <1>1
<1>3. /\ queue \in Seq(Messages) /\ Len(queue) \in Nat /\ Len(exchange) \in Nat
      /\ Len(exchange') \in Nat /\ Cardinality(new) \in Nat /\ room \in Nat
      /\ room = QueueMax - Len(queue)
  BY LenProperties, FS_CardinalityType, ConstantsAssumption DEF ProducerInv, TypeOK, QueueInv
<1>4. /\ msgs \in Seq(Messages) /\ Len(msgs) <= Cardinality(new)
      /\ Sorted(msgs) /\ Concern(msgs, exchange', new)
      /\ \A i \in new, t \in Topics : exchange'[i] = KindOf[t] =>
           \E n \in 1..Len(msgs) : msgs[n].topic = t /\ msgs[n].id = i
  BY OutgoingIs
<1>5. Len(msgs) \in Nat
  BY <1>4, LenProperties
<1>6. /\ sent \in Seq(Messages) /\ Sorted(sent) /\ Concern(sent, exchange', new)
      /\ Len(sent) <= room /\ Len(sent) <= Len(msgs)
  <2>1. CASE Len(msgs) <= room
    BY <1>3, <1>4, <1>5, <2>1
  <2>2. CASE ~(Len(msgs) <= room)
    <3>1. room < Len(msgs)
      BY <1>3, <1>5, <2>2
    <3>2. /\ SubSeq(msgs, 1, room) \in Seq(Messages) /\ Len(SubSeq(msgs, 1, room)) = room
          /\ Sorted(SubSeq(msgs, 1, room)) /\ Concern(SubSeq(msgs, 1, room), exchange', new)
      BY <1>3, <1>4, <3>1, PrefixIs
    <3>3. sent = SubSeq(msgs, 1, room)
      BY <2>2
    <3>. QED
      BY <1>3, <1>5, <3>1, <3>2, <3>3
  <2>. QED
    BY <2>1, <2>2
<1> HIDE DEF room, sent, new
<1>7. Len(sent) \in Nat /\ Len(queue) + Len(sent) <= QueueMax
  BY <1>3, <1>6, LenProperties, ConstantsAssumption
<1>8. UNCHANGED <<topics, failed>> /\ queue' = queue \o sent
  BY <1>2
<1>9. new \in SUBSET Nat /\ \A i \in new : Len(exchange) < i /\ i <= Len(exchange')
  BY DEF new
<1>10. /\ KnownInv' /\ OrderInv' /\ QueueInv' /\ queue' \in Seq(Messages)
       /\ \A t \in Topics, i \in Nat :
            /\ Queued(t, i)' <=> \/ Queued(t, i)
                                \/ \E n \in 1..Len(sent) : sent[n].topic = t /\ sent[n].id = i
            /\ Landed(t, i)' <=> Landed(t, i)
            /\ Lost(t, i)' <=> Lost(t, i)
       /\ RawCount(queue') = RawCount(queue) + RawCount(sent)
  BY <1>6, <1>7, <1>8, <1>9, Sending
<1>11. /\ RawCount(sent) \in Nat /\ RawCount(sent) <= FrameMax
       /\ RawCount(queue) \in Nat
  <2>1. RawCount(sent) \in Nat /\ RawCount(sent) <= Len(sent)
    BY <1>6, RawCountType
  <2>2. Cardinality(new) <= FrameMax
    BY DEF new
  <2>3. RawCount(queue) \in Nat
    BY <1>3, RawCountType
  <2>. QED
    BY <1>3, <1>4, <1>5, <1>6, <1>7, <2>1, <2>2, <2>3, ConstantsAssumption
<1>12. /\ received \subseteq 1..Len(exchange) /\ received' \subseteq received \cup new
  BY <1>2 DEF ProducerInv, TypeOK
<1>13. received' \subseteq 1..Len(exchange')
  BY <1>3, <1>9, <1>12
<1>14. RoutedInv'
  <2> SUFFICES ASSUME NEW i \in received', NEW t \in Topics, exchange'[i] = KindOf[t]
               PROVE  Queued(t, i)' \/ Landed(t, i)' \/ Lost(t, i)'
    BY DEF RoutedInv
  <2>1. i \in Nat
    BY <1>3, <1>13
  <2>2. CASE i \in received
    <3>1. exchange[i] = KindOf[t]
      BY <1>12, <2>2
    <3>2. Queued(t, i) \/ Landed(t, i) \/ Lost(t, i)
      BY <2>2, <3>1 DEF ProducerInv, RoutedInv
    <3>. QED
      BY <1>10, <2>1, <3>2
  <2>3. CASE i \notin received
    <3>1. i \in new /\ sent = msgs
      BY <1>2, <2>3
    <3>2. \E n \in 1..Len(sent) : sent[n].topic = t /\ sent[n].id = i
      BY <1>4, <3>1
    <3>. QED
      BY <1>10, <2>1, <3>2
  <2>. QED
    BY <2>2, <2>3
<1>15. PublishedAccounted'
  <2>1. /\ topics' = topics /\ failed' = failed /\ published' = published + RawCount(sent)
    BY <1>2
  <2>2. published = Len(topics["raw"]) + RawCount(queue)
                      + Cardinality({m \in failed : m.topic = "raw"})
    BY DEF ProducerInv, PublishedAccounted
  <2>3. Len(topics["raw"]) \in Nat
    BY LenProperties DEF ProducerInv, TypeOK, Topics
  <2>4. IsFiniteSet({m \in failed : m.topic = "raw"})
    BY FS_Subset DEF ProducerInv, QueueInv
  <2>5. Cardinality({m \in failed : m.topic = "raw"}) \in Nat
    BY <2>4, FS_CardinalityType
  <2> DEFINE c == Cardinality({m \in failed : m.topic = "raw"})
  <2> HIDE DEF c
  <2>6. published' = Len(topics["raw"]) + RawCount(queue') + c
    BY <1>10, <1>11, <2>1, <2>2, <2>3, <2>5 DEF c
  <2>. QED
    BY <2>1, <2>6 DEF PublishedAccounted, c
<1>16. /\ phase' \in {"streaming", "closing"}
       /\ outcome' \in {"none", "returned", "overrun"}
       /\ phase' = "closing" <=> outcome' # "none"
       /\ phase' = "streaming" => ~LimitReached(published')
  <2>1. outcome = "none"
    BY TypesOfTask
  <2>. QED
    BY <1>2, <2>1
<1>17. LimitInv'
  <2>1. reconnects' = reconnects /\ published' = published + RawCount(sent)
    BY <1>2
  <2>2. published \in Nat /\ (MaxMessages > 0 => published < MaxMessages)
    BY TypesOfTask DEF LimitInv, AwaitPhases
  <2>3. MaxReconnects # NoLimit =>
          reconnects <= MaxReconnects + 1 /\ reconnects <= MaxReconnects
    BY TypesOfTask DEF LimitInv, AwaitPhases
  <2>4. MaxMessages > 0 => published' < MaxMessages + FrameMax
    BY <1>11, <2>1, <2>2, ConstantsAssumption
  <2>5. phase' \in AwaitPhases \cup {"flushing"} => phase' = "streaming"
    BY <1>16 DEF AwaitPhases
  <2>6. published' \in Nat
    BY <1>11, <2>1, <2>2
  <2>7. MaxMessages > 0 /\ phase' = "streaming" => published' < MaxMessages
    BY <1>16, <2>6, ConstantsAssumption DEF LimitReached
  <2>. QED
    BY <2>1, <2>3, <2>4, <2>5, <2>7 DEF LimitInv
<1>18. BackoffInv'
  BY <1>2, TypesOfTask DEF BackoffInv
<1>19. TypeOK'
  <2>1. /\ UNCHANGED <<reconnects, factor, ceiling, topics, failed>>
        /\ published' = published + RawCount(sent)
        /\ producedThisConn' = producedThisConn + RawCount(sent)
    BY <1>2
  <2>2. published' \in Nat /\ producedThisConn' \in Nat
    BY <1>11, <2>1, TypesOfTask
  <2>3. phase' \in {"closing", "exited"} <=> outcome' # "none"
    BY <1>16
  <2>4. /\ reconnects' \in Nat /\ factor' \in 1..(2 * FactorMax) /\ ceiling' \in 0..Cap
        /\ topics' \in [Topics -> Seq(Nat)] /\ failed' \subseteq Messages
    BY <2>1 DEF ProducerInv, TypeOK
  <2>. QED
    BY <1>10, <1>13, <1>16, <2>2, <2>3, <2>4 DEF TypeOK, AwaitPhases
<1>. QED
  BY <1>10, <1>14, <1>15, <1>17, <1>18, <1>19 DEF ProducerInv

LEMMA HandleUpdateStep == ProducerInv /\ HandleUpdate => ProducerInv'
<1> SUFFICES ASSUME ProducerInv, HandleUpdate PROVE ProducerInv'
  OBVIOUS
<1>a. PICK type \in {"update", "ticker"} : \E n \in 1..FrameMax :
        \E ks \in [1..n -> Kinds] :
          /\ exchange' = exchange \o ks
          /\ Handle(type, exchange', (Len(exchange) + 1)..(Len(exchange) + n))
  BY DEF HandleUpdate
<1>0. PICK n \in 1..FrameMax : \E ks \in [1..n -> Kinds] :
        /\ exchange' = exchange \o ks
        /\ Handle(type, exchange', (Len(exchange) + 1)..(Len(exchange) + n))
  BY <1>a
<1>1. PICK ks \in [1..n -> Kinds] :
        /\ exchange' = exchange \o ks
        /\ Handle(type, exchange', (Len(exchange) + 1)..(Len(exchange) + n))
  BY <1>0
<1>2. phase = "streaming"
  BY DEF HandleUpdate
<1>3. n \in Nat /\ n <= FrameMax
  BY ConstantsAssumption
<1>4. ks \in Seq(Kinds) /\ Len(ks) = n
  <2>1. ks \in Seq(Kinds)
    BY <1>3, SeqDef
  <2>2. DOMAIN ks = 1..n /\ DOMAIN ks = 1..Len(ks) /\ Len(ks) \in Nat
    BY <2>1, LenProperties
  <2>. QED
    BY <1>3, <2>1, <2>2
<1>5. exchange \in Seq(Kinds) /\ Len(exchange) \in Nat
  BY LenProperties DEF ProducerInv, TypeOK
<1>6. /\ exchange' \in Seq(Kinds) /\ Len(exchange') = Len(exchange) + Len(ks)
      /\ \A i \in 1..(Len(exchange) + Len(ks)) :
           exchange'[i] = IF i <= Len(exchange) THEN exchange[i] ELSE ks[i - Len(exchange)]
  BY <1>1, <1>4, <1>5, ConcatProperties
<1>7. \A i \in 1..Len(exchange) : exchange'[i] = exchange[i]
  BY <1>3, <1>4, <1>5, <1>6
<1> DEFINE ids == (Len(exchange) + 1)..(Len(exchange) + n)
<1>8. Fresh(type, ids) = ids
  BY <1>a DEF Fresh
<1>9. IsFiniteSet(ids) /\ Cardinality(ids) = n
  <2>1. /\ Len(exchange) + 1 \in Int /\ Len(exchange) + n \in Int
        /\ ~(Len(exchange) + 1 > Len(exchange) + n)
        /\ (Len(exchange) + n) - (Len(exchange) + 1) + 1 = n
    BY <1>3, <1>5
  <2>2. /\ IsFiniteSet(ids)
        /\ Cardinality(ids) = IF Len(exchange) + 1 > Len(exchange) + n THEN 0
                              ELSE (Len(exchange) + n) - (Len(exchange) + 1) + 1
    BY <2>1, FS_Interval
  <2>. QED
    BY <2>1, <2>2
<1>10. ids \in SUBSET Nat /\ \A i \in ids : Len(exchange) < i /\ i <= Len(exchange')
  BY <1>3, <1>4, <1>5, <1>6
<1>11. Handle(type, exchange', ids)
  BY <1>1
<1>12. Len(exchange) <= Len(exchange')
  BY <1>3, <1>4, <1>5, <1>6
<1> HIDE DEF ids
<1>. QED
  BY <1>2, <1>3, <1>6, <1>7, <1>8, <1>9, <1>10, <1>11, <1>12, HandleStep

LEMMA HandleSnapshotStep == ProducerInv /\ HandleSnapshot => ProducerInv'
<1> SUFFICES ASSUME ProducerInv, HandleSnapshot PROVE ProducerInv'
  OBVIOUS
<1> DEFINE n == IF Len(exchange) < FrameMax THEN Len(exchange) ELSE FrameMax
           ids == (Len(exchange) - n + 1)..Len(exchange)
<1>1. Handle("snapshot", exchange, ids) /\ phase = "streaming" /\ exchange' = exchange
  BY DEF HandleSnapshot
<1>2. Handle("snapshot", exchange', ids)
  BY <1>1
<1>3. Fresh("snapshot", ids) = {}
  BY DEF Fresh
<1>4. IsFiniteSet({}) /\ Cardinality({}) = 0
  BY FS_EmptySet
<1>5. exchange' \in Seq(Kinds) /\ Len(exchange') \in Nat
  BY <1>1, LenProperties DEF ProducerInv, TypeOK
<1>6. /\ Fresh("snapshot", ids) \in SUBSET Nat /\ IsFiniteSet(Fresh("snapshot", ids))
      /\ Cardinality(Fresh("snapshot", ids)) <= FrameMax
      /\ \A i \in Fresh("snapshot", ids) : Len(exchange) < i /\ i <= Len(exchange')
  <2> HIDE DEF ids
  <2>1. IsFiniteSet(Fresh("snapshot", ids)) /\ Cardinality(Fresh("snapshot", ids)) = 0
    BY <1>3, <1>4
  <2>2. \A i \in Fresh("snapshot", ids) : FALSE
    BY <1>3
  <2>. QED
    BY <2>1, <2>2, ConstantsAssumption
<1>7. /\ Len(exchange) <= Len(exchange')
      /\ \A i \in 1..Len(exchange) : exchange'[i] = exchange[i]
  BY <1>1, <1>5
<1>8. phase = "streaming"
  BY <1>1
<1> HIDE DEF ids
<1>. QED
  BY <1>2, <1>5, <1>6, <1>7, <1>8, HandleStep

-----------------------------------------------------------------------------
(* The sender thread takes a message.                                      *)

\* The head of the queue is neither in its topic nor failed, nor in the queue twice.
LEMMA HeadLeaves ==
  ASSUME ProducerInv, queue # <<>>, queue' = Tail(queue)
  PROVE  /\ Head(queue) \in Messages /\ queue' \in Seq(Messages)
         /\ Queued(Head(queue).topic, Head(queue).id)
         /\ Len(queue) \in Nat /\ Len(queue') = Len(queue) - 1
         /\ \A n \in 1..Len(queue') : n + 1 \in 1..Len(queue) /\ queue'[n] = queue[n + 1]
         /\ \A n \in 1..Len(queue') :
              queue'[n].topic = Head(queue).topic => Head(queue).id < queue'[n].id
         /\ ~Landed(Head(queue).topic, Head(queue).id)
         /\ ~Lost(Head(queue).topic, Head(queue).id)
         /\ \A i \in Nat : Landed(Head(queue).topic, i) => i < Head(queue).id
         /\ \A t \in Topics, i \in Nat :
              Queued(t, i) <=> \/ Queued(t, i)'
                               \/ t = Head(queue).topic /\ i = Head(queue).id
<1> DEFINE h == Head(queue)
<1>1. queue \in Seq(Messages)
  BY DEF ProducerInv, TypeOK
<1>2. /\ h \in Messages /\ queue' \in Seq(Messages) /\ Len(queue') = Len(queue) - 1
      /\ \A n \in 1..Len(queue') : queue'[n] = queue[n + 1]
  BY <1>1, HeadTailProperties
<1>3. Len(queue) \in Nat /\ Len(queue) # 0 /\ h = queue[1]
  BY <1>1, LenProperties, EmptySeq
<1> HIDE DEF h
<1>4. h.topic \in Topics /\ h.id \in Nat
  BY <1>2 DEF Messages
<1>5. \A n \in 1..Len(queue') : n + 1 \in 1..Len(queue) /\ 1 < n + 1 /\ queue'[n] = queue[n + 1]
  BY <1>2, <1>3
<1>6. 1 \in 1..Len(queue)
  BY <1>3
<1>7. \A n \in 1..Len(queue') : queue'[n].topic = h.topic => h.id < queue'[n].id
  <2> SUFFICES ASSUME NEW n \in 1..Len(queue'), queue'[n].topic = h.topic
               PROVE  h.id < queue'[n].id
    OBVIOUS
  <2>1. n + 1 \in 1..Len(queue) /\ 1 < n + 1 /\ queue'[n] = queue[n + 1]
    BY <1>5
  <2>2. \A m, k \in 1..Len(queue) :
          m < k /\ queue[m].topic = queue[k].topic => queue[m].id < queue[k].id
    BY DEF ProducerInv, OrderInv
  <2>. QED
    BY <1>3, <1>6, <2>1, <2>2
<1>8. \A i \in Nat : Landed(h.topic, i) \/ Lost(h.topic, i) => i < h.id
  BY <1>3, <1>4, <1>6 DEF ProducerInv, OrderInv
<1>9. ~Landed(h.topic, h.id) /\ ~Lost(h.topic, h.id)
  BY <1>4, <1>8
<1>10. Queued(h.topic, h.id)
  BY <1>3, <1>6 DEF Queued, QueuedAt
<1>11. ASSUME NEW t \in Topics, NEW i \in Nat
       PROVE  Queued(t, i) <=> Queued(t, i)' \/ (t = h.topic /\ i = h.id)
  <2>1. ASSUME Queued(t, i) PROVE Queued(t, i)' \/ (t = h.topic /\ i = h.id)
    <3>1. PICK n \in 1..Len(queue) : queue[n].topic = t /\ queue[n].id = i
      BY <2>1 DEF Queued, QueuedAt
    <3>2. CASE n = 1
      BY <1>3, <3>1, <3>2
    <3>3. CASE n # 1
      <4>1. n - 1 \in 1..Len(queue') /\ n = (n - 1) + 1
        BY <1>2, <1>3, <3>3
      <4>2. queue'[n - 1] = queue[n]
        BY <1>5, <4>1
      <4>. QED
        BY <3>1, <4>1, <4>2 DEF Queued, QueuedAt
    <3>. QED
      BY <3>2, <3>3
  <2>2. ASSUME Queued(t, i)' PROVE Queued(t, i)
    BY <1>5, <2>2 DEF Queued, QueuedAt
  <2>. QED
    BY <1>10, <2>1, <2>2
<1>. QED
  BY <1>2, <1>3, <1>5, <1>7, <1>8, <1>9, <1>10, <1>11 DEF h

\* Wherever the head goes, the others keep their places and their order.
LEMMA HeadMoves ==
  ASSUME ProducerInv, queue # <<>>, queue' = Tail(queue), NEW h, h = Head(queue),
         UNCHANGED <<exchange, received>>, IsFiniteSet(failed'),
         \A t \in Topics, i \in Nat :
           /\ Landed(t, i) => Landed(t, i)'
           /\ Lost(t, i) => Lost(t, i)'
           /\ Landed(t, i)' \/ Lost(t, i)' =>
                Landed(t, i) \/ Lost(t, i) \/ (t = h.topic /\ i = h.id)
           /\ ~(Landed(t, i)' /\ Lost(t, i)'),
         Landed(h.topic, h.id)' \/ Lost(h.topic, h.id)',
         RawOrdered'
  PROVE  KnownInv' /\ OrderInv' /\ RoutedInv' /\ QueueInv'
<1>1. /\ h \in Messages /\ queue' \in Seq(Messages)
      /\ Queued(h.topic, h.id)
      /\ Len(queue) \in Nat /\ Len(queue') = Len(queue) - 1
      /\ \A n \in 1..Len(queue') : n + 1 \in 1..Len(queue) /\ queue'[n] = queue[n + 1]
      /\ \A n \in 1..Len(queue') : queue'[n].topic = h.topic => h.id < queue'[n].id
      /\ \A t \in Topics, i \in Nat :
           Queued(t, i) <=> Queued(t, i)' \/ (t = h.topic /\ i = h.id)
  BY HeadLeaves
<1>2. /\ \A t \in Topics, i \in Nat :
           /\ Landed(t, i) => Landed(t, i)'
           /\ Lost(t, i) => Lost(t, i)'
           /\ Landed(t, i)' \/ Lost(t, i)' =>
                Landed(t, i) \/ Lost(t, i) \/ (t = h.topic /\ i = h.id)
           /\ ~(Landed(t, i)' /\ Lost(t, i)')
      /\ Landed(h.topic, h.id)' \/ Lost(h.topic, h.id)'
  OBVIOUS
<1>3. KnownInv'
  <2> SUFFICES ASSUME NEW t \in Topics, NEW i \in Nat,
                      Queued(t, i)' \/ Landed(t, i)' \/ Lost(t, i)'
               PROVE  i \in 1..Len(exchange) /\ exchange[i] = KindOf[t]
    BY DEF KnownInv
  <2>1. Queued(t, i) \/ Landed(t, i) \/ Lost(t, i)
    BY <1>1, <1>2
  <2>. QED
    BY <2>1 DEF ProducerInv, KnownInv
<1>4. RoutedInv'
  <2> SUFFICES ASSUME NEW i \in received, NEW t \in Topics, exchange[i] = KindOf[t]
               PROVE  Queued(t, i)' \/ Landed(t, i)' \/ Lost(t, i)'
    BY DEF RoutedInv
  <2>1. i \in Nat
    BY LenProperties DEF ProducerInv, TypeOK
  <2>2. Queued(t, i) \/ Landed(t, i) \/ Lost(t, i)
    BY DEF ProducerInv, RoutedInv
  <2>3. CASE Landed(t, i) \/ Lost(t, i)
    BY <1>2, <2>1, <2>3
  <2>4. CASE Queued(t, i)
    <3>1. Queued(t, i)' \/ (t = h.topic /\ i = h.id)
      BY <1>1, <2>1, <2>4
    <3>2. CASE t = h.topic /\ i = h.id
      BY <1>2, <3>2
    <3>. QED
      BY <3>1, <3>2
  <2>. QED
    BY <2>2, <2>3, <2>4
<1>5. \A m, n \in 1..Len(queue') :
        m < n /\ queue'[m].topic = queue'[n].topic => queue'[m].id < queue'[n].id
  <2> SUFFICES ASSUME NEW m \in 1..Len(queue'), NEW n \in 1..Len(queue'), m < n,
                      queue'[m].topic = queue'[n].topic
               PROVE  queue'[m].id < queue'[n].id
    OBVIOUS
  <2>1. /\ m + 1 \in 1..Len(queue) /\ queue'[m] = queue[m + 1]
        /\ n + 1 \in 1..Len(queue) /\ queue'[n] = queue[n + 1]
    BY <1>1
  <2>2. m + 1 < n + 1
    BY <1>1
  <2>3. \A l, k \in 1..Len(queue) :
          l < k /\ queue[l].topic = queue[k].topic => queue[l].id < queue[k].id
    BY DEF ProducerInv, OrderInv
  <2>. QED
    BY <2>1, <2>2, <2>3
<1>6. \A t \in Topics, i \in Nat :
        Landed(t, i)' \/ Lost(t, i)' =>
          \A n \in 1..Len(queue') : queue'[n].topic = t => i < queue'[n].id
  <2> SUFFICES ASSUME NEW t \in Topics, NEW i \in Nat, Landed(t, i)' \/ Lost(t, i)',
                      NEW n \in 1..Len(queue'), queue'[n].topic = t
               PROVE  i < queue'[n].id
    OBVIOUS
  <2>1. CASE Landed(t, i) \/ Lost(t, i)
    <3>1. \A k \in 1..Len(queue) : queue[k].topic = t => i < queue[k].id
      BY <2>1 DEF ProducerInv, OrderInv
    <3>2. n + 1 \in 1..Len(queue) /\ queue'[n] = queue[n + 1]
      BY <1>1
    <3>. QED
      BY <3>1, <3>2
  <2>2. CASE t = h.topic /\ i = h.id
    BY <1>1, <2>2
  <2>. QED
    BY <1>2, <2>1, <2>2
<1>7. \A t \in Topics, i \in Nat : ~(Landed(t, i)' /\ Lost(t, i)')
  BY <1>2
<1>8. OrderInv'
  BY <1>5, <1>6, <1>7 DEF OrderInv
<1>9. QueueInv'
  BY <1>1, ConstantsAssumption DEF QueueInv, ProducerInv
<1>. QED
  BY <1>3, <1>4, <1>8, <1>9

LEMMA DeliverStep == ProducerInv /\ Deliver => ProducerInv'
<1> SUFFICES ASSUME ProducerInv, Deliver PROVE ProducerInv'
  OBVIOUS
<1>0. PICK h : h = Head(queue)
  OBVIOUS
<1>1. /\ queue # <<>> /\ queue' = Tail(queue) /\ UNCHANGED <<exchange, received, taskVars, failed>>
      /\ topics' = [topics EXCEPT ![h.topic] = Append(@, h.id)]
  BY <1>0 DEF Deliver
<1>2. /\ h \in Messages /\ queue' \in Seq(Messages)
      /\ ~Landed(h.topic, h.id) /\ ~Lost(h.topic, h.id)
      /\ \A i \in Nat : Landed(h.topic, i) => i < h.id
  BY <1>0, <1>1, HeadLeaves
<1>3. RawCount(queue) = RawCount(Tail(queue)) + (IF h.topic = "raw" THEN 1 ELSE 0)
  BY <1>0, <1>1, RawCountTail DEF ProducerInv, TypeOK
<1>4. RawCount(Tail(queue)) \in Nat
  BY <1>1, <1>2, RawCountType
<1>5. h.topic \in Topics /\ h.id \in Nat
  BY <1>2 DEF Messages
<1>6. topics \in [Topics -> Seq(Nat)]
  BY DEF ProducerInv, TypeOK
<1> DEFINE s == topics[h.topic]
<1>7. s \in Seq(Nat) /\ Len(s) \in Nat
  BY <1>5, <1>6, LenProperties
<1>8. /\ Append(s, h.id) \in Seq(Nat) /\ Len(Append(s, h.id)) = Len(s) + 1
      /\ \A n \in 1..Len(s) : Append(s, h.id)[n] = s[n]
      /\ Append(s, h.id)[Len(s) + 1] = h.id
  BY <1>5, <1>7, AppendProperties
<1>9. /\ topics' \in [Topics -> Seq(Nat)]
      /\ topics'[h.topic] = Append(s, h.id)
      /\ \A t \in Topics : t # h.topic => topics'[t] = topics[t]
  BY <1>1, <1>5, <1>6, <1>8
<1>10. /\ topics'[h.topic] \in Seq(Nat) /\ Len(topics'[h.topic]) = Len(topics[h.topic]) + 1
       /\ \A n \in 1..Len(topics[h.topic]) : topics'[h.topic][n] = topics[h.topic][n]
       /\ topics'[h.topic][Len(topics[h.topic]) + 1] = h.id
       /\ Len(topics[h.topic]) \in Nat
  BY <1>7, <1>8, <1>9
<1> HIDE DEF s
<1>11. \A t \in Topics, i \in Nat :
         /\ Landed(t, i)' <=> Landed(t, i) \/ (t = h.topic /\ i = h.id)
         /\ Lost(t, i)' <=> Lost(t, i)
  <2> SUFFICES ASSUME NEW t \in Topics, NEW i \in Nat
               PROVE  /\ Landed(t, i)' <=> Landed(t, i) \/ (t = h.topic /\ i = h.id)
                      /\ Lost(t, i)' <=> Lost(t, i)
    OBVIOUS
  <2>1. Lost(t, i)' <=> Lost(t, i)
    BY <1>1 DEF Lost
  <2>2. CASE t # h.topic
    BY <1>9, <2>1, <2>2 DEF Landed
  <2>3. CASE t = h.topic
    <3>0. /\ \A n \in 1..Len(topics[t]) : n \in 1..Len(topics'[t])
          /\ Len(topics[t]) + 1 \in 1..Len(topics'[t])
      BY <1>10, <2>3
    <3>1. Landed(t, i) => Landed(t, i)'
      BY <1>10, <2>3, <3>0 DEF Landed
    <3>2. i = h.id => Landed(t, i)'
      BY <1>10, <2>3, <3>0 DEF Landed
    <3>3. ASSUME Landed(t, i)' PROVE Landed(t, i) \/ i = h.id
      <4>1. PICK n \in 1..Len(topics'[t]) : topics'[t][n] = i
        BY <3>3 DEF Landed
      <4>2. CASE n \in 1..Len(topics[t])
        BY <1>10, <2>3, <4>1, <4>2 DEF Landed
      <4>3. CASE n \notin 1..Len(topics[t])
        <5>1. n = Len(topics[t]) + 1
          BY <1>10, <2>3, <4>1, <4>3
        <5>. QED
          BY <1>10, <2>3, <4>1, <5>1
      <4>. QED
        BY <4>2, <4>3
    <3>. QED
      BY <2>1, <2>3, <3>1, <3>2, <3>3
  <2>. QED
    BY <2>2, <2>3
<1>12. RawOrdered'
  <2> SUFFICES ASSUME NEW t \in Topics, NEW m \in 1..Len(topics'[t]),
                      NEW n \in 1..Len(topics'[t]), m < n
               PROVE  topics'[t][m] < topics'[t][n]
    <3>1. \A t \in Topics : DOMAIN topics'[t] = 1..Len(topics'[t])
      BY <1>9, LenProperties
    <3>. QED
      BY <3>1 DEF RawOrdered
  <2>1. \A k, l \in 1..Len(topics[t]) : k < l => topics[t][k] < topics[t][l]
    BY <1>6, LenProperties DEF ProducerInv, OrderInv, RawOrdered
  <2>2. CASE t # h.topic
    BY <1>9, <2>1, <2>2
  <2>3. CASE t = h.topic /\ n \in 1..Len(topics[t])
    <3>1. m \in 1..Len(topics[t])
      BY <1>10, <2>3
    <3>. QED
      BY <1>10, <2>1, <2>3, <3>1
  <2>4. CASE t = h.topic /\ n \notin 1..Len(topics[t])
    <3>1. n = Len(topics[t]) + 1 /\ m \in 1..Len(topics[t])
      BY <1>10, <2>4
    <3>2. topics'[t][n] = h.id /\ topics'[t][m] = topics[t][m]
      BY <1>10, <2>4, <3>1
    <3>3. topics[t][m] \in Nat /\ Landed(h.topic, topics[t][m])
      <4>1. topics[t] \in Seq(Nat)
        BY <1>6
      <4>2. topics[t][m] \in Nat
        BY <3>1, <4>1, ElementOfSeq
      <4>. QED
        BY <2>4, <3>1, <4>2 DEF Landed
    <3>. QED
      BY <1>2, <3>2, <3>3
  <2>. QED
    BY <2>2, <2>3, <2>4
<1>13. \A t \in Topics, i \in Nat : ~(Landed(t, i)' /\ Lost(t, i)')
  <2>1. \A t \in Topics, i \in Nat : ~(Landed(t, i) /\ Lost(t, i))
    BY DEF ProducerInv, OrderInv
  <2>. QED
    BY <1>2, <1>11, <2>1
<1>14. KnownInv' /\ OrderInv' /\ RoutedInv' /\ QueueInv'
  <2>1. IsFiniteSet(failed') /\ UNCHANGED <<exchange, received>>
    BY <1>1 DEF ProducerInv, QueueInv
  <2>2. Landed(h.topic, h.id)'
    BY <1>5, <1>11
  <2>3. \A t \in Topics, i \in Nat :
          /\ Landed(t, i) => Landed(t, i)'
          /\ Lost(t, i) => Lost(t, i)'
          /\ Landed(t, i)' \/ Lost(t, i)' =>
               Landed(t, i) \/ Lost(t, i) \/ (t = h.topic /\ i = h.id)
          /\ ~(Landed(t, i)' /\ Lost(t, i)')
    BY <1>11, <1>13
  <2>. QED
    BY <1>1, <1>12, <2>1, <2>2, <2>3, <1>0, HeadMoves
<1>15. PublishedAccounted'
  <2> DEFINE c == Cardinality({m \in failed : m.topic = "raw"})
  <2>1. IsFiniteSet({m \in failed : m.topic = "raw"})
    BY FS_Subset DEF ProducerInv, QueueInv
  <2>2. c \in Nat
    BY <2>1, FS_CardinalityType
  <2>3. published = Len(topics["raw"]) + RawCount(queue) + c
    BY DEF ProducerInv, PublishedAccounted
  <2>4. failed' = failed /\ published' = published /\ queue' = Tail(queue)
    BY <1>1 DEF taskVars
  <2>5. Len(topics["raw"]) \in Nat
    BY <1>6, LenProperties DEF Topics
  <2> HIDE DEF c
  <2>6. CASE h.topic = "raw"
    <3>1. Len(topics'["raw"]) = Len(topics["raw"]) + 1
      BY <1>10, <2>6
    <3>2. published = Len(topics'["raw"]) + RawCount(Tail(queue)) + c
      BY <1>3, <1>4, <2>2, <2>3, <2>5, <2>6, <3>1
    <3>. QED
      BY <2>4, <3>2 DEF PublishedAccounted, c
  <2>7. CASE h.topic # "raw"
    <3>1. topics'["raw"] = topics["raw"]
      BY <1>9, <2>7 DEF Topics
    <3>2. published = Len(topics'["raw"]) + RawCount(Tail(queue)) + c
      BY <1>3, <1>4, <2>2, <2>3, <2>5, <2>7, <3>1
    <3>. QED
      BY <2>4, <3>2 DEF PublishedAccounted, c
  <2>. QED
    BY <2>6, <2>7
<1>16. TypeOK'
  BY <1>1, <1>2, <1>9 DEF ProducerInv, TypeOK, taskVars
<1>17. LimitInv' /\ BackoffInv'
  BY <1>1 DEF LimitInv, BackoffInv, ProducerInv, taskVars
<1>. QED
  BY <1>14, <1>15, <1>16, <1>17 DEF ProducerInv

LEMMA DeliverFailsStep == ProducerInv /\ DeliverFails => ProducerInv'
<1> SUFFICES ASSUME ProducerInv, DeliverFails PROVE ProducerInv'
  OBVIOUS
<1>0. PICK h : h = Head(queue)
  OBVIOUS
<1>1. /\ queue # <<>> /\ queue' = Tail(queue) /\ UNCHANGED <<exchange, received, taskVars, topics>>
      /\ failed' = failed \cup {h}
  BY <1>0 DEF DeliverFails
<1>2. /\ h \in Messages /\ queue' \in Seq(Messages)
      /\ ~Landed(h.topic, h.id) /\ ~Lost(h.topic, h.id)
  BY <1>0, <1>1, HeadLeaves
<1>3. RawCount(queue) = RawCount(Tail(queue)) + (IF h.topic = "raw" THEN 1 ELSE 0)
  BY <1>0, <1>1, RawCountTail DEF ProducerInv, TypeOK
<1>4. RawCount(Tail(queue)) \in Nat
  BY <1>1, <1>2, RawCountType
<1>5. h.topic \in Topics /\ h.id \in Nat
  BY <1>2 DEF Messages
<1>6. \A t \in Topics, i \in Nat :
        /\ Landed(t, i)' <=> Landed(t, i)
        /\ Lost(t, i)' <=> Lost(t, i) \/ (t = h.topic /\ i = h.id)
  BY <1>1 DEF Landed, Lost
<1>7. RawOrdered'
  BY <1>1 DEF RawOrdered, ProducerInv, OrderInv
<1>8. IsFiniteSet(failed') /\ UNCHANGED <<exchange, received>>
  BY <1>1, FS_AddElement DEF ProducerInv, QueueInv
<1>9. \A t \in Topics, i \in Nat : ~(Landed(t, i)' /\ Lost(t, i)')
  <2>1. \A t \in Topics, i \in Nat : ~(Landed(t, i) /\ Lost(t, i))
    BY DEF ProducerInv, OrderInv
  <2>. QED
    BY <1>2, <1>6, <2>1
<1>10. KnownInv' /\ OrderInv' /\ RoutedInv' /\ QueueInv'
  <2>1. Lost(h.topic, h.id)'
    BY <1>5, <1>6
  <2>2. \A t \in Topics, i \in Nat :
          /\ Landed(t, i) => Landed(t, i)'
          /\ Lost(t, i) => Lost(t, i)'
          /\ Landed(t, i)' \/ Lost(t, i)' =>
               Landed(t, i) \/ Lost(t, i) \/ (t = h.topic /\ i = h.id)
          /\ ~(Landed(t, i)' /\ Lost(t, i)')
    BY <1>6, <1>9
  <2>. QED
    BY <1>1, <1>7, <1>8, <2>1, <2>2, <1>0, HeadMoves
<1>11. PublishedAccounted'
  <2> DEFINE F == {m \in failed : m.topic = "raw"}
             G == {m \in failed' : m.topic = "raw"}
  <2>1. IsFiniteSet(F)
    BY FS_Subset DEF ProducerInv, QueueInv
  <2>2. Cardinality(F) \in Nat
    BY <2>1, FS_CardinalityType
  <2>3. published = Len(topics["raw"]) + RawCount(queue) + Cardinality(F)
    BY DEF ProducerInv, PublishedAccounted
  <2>4. topics' = topics /\ published' = published /\ queue' = Tail(queue)
    BY <1>1 DEF taskVars
  <2>5. Len(topics["raw"]) \in Nat
    BY LenProperties DEF ProducerInv, TypeOK, Topics
  <2>6. h \notin failed
    BY <1>2 DEF Lost
  <2>7. CASE h.topic = "raw"
    <3>1. G = F \cup {h} /\ h \notin F
      BY <1>1, <2>6, <2>7
    <3> HIDE DEF F, G
    <3>2. Cardinality(G) = Cardinality(F) + 1
      BY <2>1, <3>1, FS_AddElement
    <3>3. published = Len(topics["raw"]) + RawCount(Tail(queue)) + Cardinality(G)
      BY <1>3, <1>4, <2>2, <2>3, <2>5, <2>7, <3>2
    <3>. QED
      BY <2>4, <3>3 DEF PublishedAccounted, G
  <2>8. CASE h.topic # "raw"
    <3>1. G = F
      BY <1>1, <2>8
    <3> HIDE DEF F, G
    <3>2. published = Len(topics["raw"]) + RawCount(Tail(queue)) + Cardinality(G)
      BY <1>3, <1>4, <2>2, <2>3, <2>5, <2>8, <3>1
    <3>. QED
      BY <2>4, <3>2 DEF PublishedAccounted, G
  <2>. QED
    BY <2>7, <2>8
<1>12. TypeOK'
  BY <1>1, <1>2 DEF ProducerInv, TypeOK, taskVars
<1>13. LimitInv' /\ BackoffInv'
  BY <1>1 DEF LimitInv, BackoffInv, ProducerInv, taskVars
<1>. QED
  BY <1>10, <1>11, <1>12, <1>13 DEF ProducerInv

-----------------------------------------------------------------------------
(* The theorems.                                                           *)

LEMMA InitInv == Init => ProducerInv
<1> SUFFICES ASSUME Init PROVE ProducerInv
  OBVIOUS
<1>1. /\ exchange = <<>> /\ received = {} /\ queue = <<>> /\ failed = {}
      /\ topics = [t \in Topics |-> <<>>] /\ published = 0 /\ reconnects = 0
      /\ factor = 1 /\ ceiling = 0 /\ phase = "connecting" /\ outcome = "none"
      /\ producedThisConn = 0
  BY DEF Init
<1>2. IsFiniteSet({}) /\ Cardinality({}) = 0
  BY FS_EmptySet
<1>3. Len(queue) = 0 /\ \A t \in Topics : topics[t] = <<>> /\ Len(topics[t]) = 0
  BY <1>1
<1>4. \A t \in Topics, i \in Nat : ~Queued(t, i) /\ ~Landed(t, i) /\ ~Lost(t, i)
  BY <1>1, <1>3 DEF Queued, Landed, Lost
<1>5. TypeOK
  BY <1>1, ConstantsAssumption DEF TypeOK, AwaitPhases
<1>6. KnownInv /\ RoutedInv
  BY <1>1, <1>4 DEF KnownInv, RoutedInv
<1>7. OrderInv
  BY <1>3, <1>4 DEF OrderInv, RawOrdered
<1>8. LimitInv
  BY <1>1, ConstantsAssumption DEF LimitInv
<1>9. BackoffInv /\ QueueInv
  BY <1>1, <1>2, <1>3, ConstantsAssumption DEF BackoffInv, QueueInv
<1>10. PublishedAccounted
  <2>1. {n \in DOMAIN queue : queue[n].topic = "raw"} = {}
    BY <1>1
  <2>2. RawCount(queue) = 0
    BY <1>2, <2>1 DEF RawCount
  <2>3. {m \in failed : m.topic = "raw"} = {}
    BY <1>1
  <2>4. Cardinality({m \in failed : m.topic = "raw"}) = 0
    BY <1>2, <2>3
  <2>. QED
    BY <1>1, <1>3, <2>2, <2>4 DEF PublishedAccounted, Topics
<1>. QED
  BY <1>5, <1>6, <1>7, <1>8, <1>9, <1>10 DEF ProducerInv

LEMMA StutterStep == ProducerInv /\ UNCHANGED vars => ProducerInv'
<1> SUFFICES ASSUME ProducerInv, UNCHANGED vars PROVE ProducerInv'
  OBVIOUS
<1>1. /\ UNCHANGED mailVars /\ exchange' = exchange
      /\ UNCHANGED <<phase, outcome, reconnects, producedThisConn, factor, ceiling, published>>
  BY DEF vars, taskVars, mailVars
<1>2. LimitInv' /\ BackoffInv'
  BY <1>1, TypesOfTask DEF LimitInv, BackoffInv
<1>. QED
  BY <1>1, <1>2, TypesOfTask, TaskMoves

LEMMA NextStep == ProducerInv /\ [Next]_vars => ProducerInv'
<1> SUFFICES ASSUME ProducerInv, [Next]_vars PROVE ProducerInv'
  OBVIOUS
<1>1. CASE MarketMoves
  BY <1>1, MarketMovesStep
<1>2. CASE Connect \/ Disconnect \/ HandleBroken \/ WakeUp \/ Cancel \/ Exit
  BY <1>2, QuietSteps
<1>3. CASE HandleUpdate
  BY <1>3, HandleUpdateStep
<1>4. CASE HandleSnapshot
  BY <1>4, HandleSnapshotStep
<1>5. CASE FlushReturns \/ StreamEnds
  BY <1>5, ReconnectStep DEF FlushReturns, StreamEnds
<1>6. CASE Deliver
  BY <1>6, DeliverStep
<1>7. CASE DeliverFails
  BY <1>7, DeliverFailsStep
<1>8. CASE UNCHANGED vars
  BY <1>8, StutterStep
<1>. QED
  BY <1>1, <1>2, <1>3, <1>4, <1>5, <1>6, <1>7, <1>8 DEF Next

\* The inductive invariant of the producer (service.py:42-120): every message is
\* about something the exchange sent, each is in one place, in order, and nothing
\* handled is missing; the counters agree with it and stay within the limits.
THEOREM ProducerInvariant == Spec => []ProducerInv
<1>1. Init => ProducerInv
  BY InitInv
<1>2. ProducerInv /\ [Next]_vars => ProducerInv'
  BY NextStep
<1>. QED
  BY <1>1, <1>2, PTL DEF Spec

\* Type correctness; run_producer has an outcome when and only when its loop has
\* ended.
THEOREM ProducerTypes == Spec => []TypeOK
<1>1. ProducerInv => TypeOK
  BY DEF ProducerInv
<1>. QED
  BY <1>1, ProducerInvariant, PTL

\* The raw and the quarantine topic keep the exchange's order without duplicates,
\* however often the producer reconnects (normalize.py:79-80 skips snapshots).
THEOREM TopicsAreOrdered == Spec => []RawOrdered
<1>1. ProducerInv => RawOrdered
  BY DEF ProducerInv, OrderInv
<1>. QED
  BY <1>1, ProducerInvariant, PTL

\* The number run_producer returns counts the raw messages that were delivered,
\* failed or are still in the local queue (service.py:86-100).
THEOREM PublishedCountsRaw == Spec => []PublishedAccounted
<1>1. ProducerInv => PublishedAccounted
  BY DEF ProducerInv
<1>. QED
  BY <1>1, ProducerInvariant, PTL

\* max_messages and max_reconnects are kept (service.py:95-100, 108-111).
THEOREM ProducerLimits == Spec => []LimitsRespected
<1>1. ProducerInv => LimitsRespected
  BY DEF ProducerInv, LimitInv, LimitsRespected
<1>. QED
  BY <1>1, ProducerInvariant, PTL

\* A message is in one place, once.
LEMMA CopiesIs ==
  ASSUME ProducerInv, NEW t \in Topics, NEW i \in Nat
  PROVE  /\ Queued(t, i) \/ Landed(t, i) \/ Lost(t, i) => Copies(t, i) = 1
         /\ ~(Queued(t, i) \/ Landed(t, i) \/ Lost(t, i)) => Copies(t, i) = 0
<1> DEFINE A == {n \in DOMAIN topics[t] : topics[t][n] = i}
           B == {n \in DOMAIN queue : queue[n] = [topic |-> t, id |-> i]}
           C == {m \in failed : m = [topic |-> t, id |-> i]}
<1>1. Copies(t, i) = Cardinality(A) + Cardinality(B) + Cardinality(C)
  BY DEF Copies
<1>2. /\ topics[t] \in Seq(Nat) /\ queue \in Seq(Messages) /\ failed \subseteq Messages
  BY DEF ProducerInv, TypeOK
<1>3. DOMAIN topics[t] = 1..Len(topics[t]) /\ DOMAIN queue = 1..Len(queue)
      /\ Len(queue) \in Nat /\ Len(topics[t]) \in Nat
  BY <1>2, LenProperties
<1>4. \A n \in 1..Len(queue) : queue[n] \in Messages
  BY <1>2, ElementOfSeq
<1>5. \A m \in Messages : m = [topic |-> t, id |-> i] <=> m.topic = t /\ m.id = i
  BY DEF Messages
<1>6. IsFiniteSet({}) /\ Cardinality({}) = 0 /\ \A x : Cardinality({x}) = 1
  BY FS_EmptySet, FS_Singleton
<1>7. \A m, n \in A : m = n
  <2> SUFFICES ASSUME NEW m \in A, NEW n \in A PROVE m = n
    OBVIOUS
  <2>1. /\ m \in 1..Len(topics[t]) /\ n \in 1..Len(topics[t])
        /\ topics[t][m] = i /\ topics[t][n] = i
    BY <1>3
  <2>2. ~(m < n) /\ ~(n < m)
    BY <1>3, <2>1 DEF ProducerInv, OrderInv, RawOrdered
  <2>. QED
    BY <1>3, <2>1, <2>2
<1>8. \A m, n \in B : m = n
  <2> SUFFICES ASSUME NEW m \in B, NEW n \in B PROVE m = n
    OBVIOUS
  <2>1. /\ m \in 1..Len(queue) /\ queue[m].topic = t /\ queue[m].id = i
        /\ n \in 1..Len(queue) /\ queue[n].topic = t /\ queue[n].id = i
    BY <1>3, <1>4, <1>5
  <2>2. ~(m < n) /\ ~(n < m)
    BY <2>1 DEF ProducerInv, OrderInv
  <2>. QED
    BY <1>3, <2>1, <2>2
<1>9. /\ Landed(t, i) <=> A # {}
      /\ Queued(t, i) <=> B # {}
      /\ Lost(t, i) <=> C # {}
  <2>1. Landed(t, i) <=> A # {}
    BY <1>3 DEF Landed
  <2>2. Queued(t, i) <=> B # {}
    BY <1>3, <1>4, <1>5 DEF Queued, QueuedAt
  <2>3. Lost(t, i) <=> C # {}
    BY <1>2, <1>5 DEF Lost
  <2>. QED
    BY <2>1, <2>2, <2>3
<1>10. \A m, n \in C : m = n
  OBVIOUS
<1> HIDE DEF A, B, C
<1>11. /\ A # {} => Cardinality(A) = 1
       /\ B # {} => Cardinality(B) = 1
       /\ C # {} => Cardinality(C) = 1
  <2>1. ASSUME NEW S, S # {}, \A m, n \in S : m = n PROVE Cardinality(S) = 1
    <3>1. PICK x : S = {x}
      BY <2>1
    <3>. QED
      BY <1>6, <3>1
  <2>. QED
    BY <1>7, <1>8, <1>10, <2>1
<1>12. /\ A = {} => Cardinality(A) = 0
       /\ B = {} => Cardinality(B) = 0
       /\ C = {} => Cardinality(C) = 0
  BY <1>6
<1>13. /\ ~(Landed(t, i) /\ Queued(t, i)) /\ ~(Lost(t, i) /\ Queued(t, i))
       /\ ~(Landed(t, i) /\ Lost(t, i))
  BY DEF ProducerInv, OrderInv, Queued, QueuedAt
<1>. QED
  BY <1>1, <1>9, <1>11, <1>12, <1>13

\* Every sub-record of every frame handled is routed once, to the topic it belongs
\* to, whatever its siblings are (normalize.py:62-130).
THEOREM EverythingRoutedOnce == Spec => []RoutedOnce
<1>1. ProducerInv => RoutedOnce
  <2> SUFFICES ASSUME ProducerInv, NEW i \in received
               PROVE  /\ Copies("raw", i) = IF exchange[i] = "valid" THEN 1 ELSE 0
                      /\ Copies("quarantine", i) = IF exchange[i] = "bad" THEN 1 ELSE 0
    BY DEF RoutedOnce
  <2>1. i \in Nat
    BY LenProperties DEF ProducerInv, TypeOK
  <2>2. \A t \in Topics :
          Queued(t, i) \/ Landed(t, i) \/ Lost(t, i) <=> exchange[i] = KindOf[t]
    BY <2>1 DEF ProducerInv, KnownInv, RoutedInv
  <2>3. "raw" \in Topics /\ "quarantine" \in Topics
        /\ KindOf["raw"] = "valid" /\ KindOf["quarantine"] = "bad"
    BY DEF Topics, KindOf
  <2>4. Copies("raw", i) = IF exchange[i] = "valid" THEN 1 ELSE 0
    BY <2>1, <2>2, <2>3, CopiesIs
  <2>5. Copies("quarantine", i) = IF exchange[i] = "bad" THEN 1 ELSE 0
    BY <2>1, <2>2, <2>3, CopiesIs
  <2>. QED
    BY <2>4, <2>5
<1>. QED
  BY <1>1, ProducerInvariant, PTL

\* After a connection that delivered nothing the backoff does not shrink
\* (service.py:8-9, 112-117).
THEOREM BackoffGrows == Spec => NoHotLoop
<1>1. ProducerInv /\ [Next]_vars =>
        (phase # "sleeping" /\ phase' = "sleeping" /\ producedThisConn = 0
           => ceiling' >= Lesser(Cap, 2 * ceiling))
  <2> SUFFICES ASSUME ProducerInv, [Next]_vars, phase # "sleeping", phase' = "sleeping",
                      producedThisConn = 0
               PROVE  ceiling' >= Lesser(Cap, 2 * ceiling)
    OBVIOUS
  <2>1. FlushReturns \/ StreamEnds
    BY DEF Next, vars, taskVars, MarketMoves, Connect, Disconnect, HandleUpdate,
           HandleSnapshot, Handle, HandleBroken, WakeUp, Cancel, Exit, Deliver, DeliverFails
  <2>2. ceiling' = Ceiling(NextFactor)
    BY <2>1 DEF FlushReturns, StreamEnds, Reconnect
  <2>3. NextFactor = factor
    BY DEF NextFactor
  <2> DEFINE b == Base * factor
  <2>4. factor \in Nat /\ ceiling \in Nat /\ 2 * ceiling <= b
    BY TypesOfTask, ConstantsAssumption DEF BackoffInv
  <2>5. b \in Nat
    BY <2>4, ConstantsAssumption
  <2>6. ceiling' = IF Cap < b THEN Cap ELSE b
    BY <2>2, <2>3 DEF Ceiling, Lesser
  <2> HIDE DEF b
  <2>. QED
    BY <2>4, <2>5, <2>6, ConstantsAssumption DEF Lesser
<1>. QED
  BY <1>1, ProducerInvariant, PTL DEF Spec, NoHotLoop

=============================================================================
