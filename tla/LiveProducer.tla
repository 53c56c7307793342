---------------------------- MODULE LiveProducer ----------------------------
(***************************************************************************)
(* The live producer of src/tickstream/producer/service.py: it subscribes  *)
(* to an exchange over a WebSocket, normalizes every frame, and produces   *)
(* the events to the raw topics and the contract violations to the         *)
(* quarantine topic, until it is stopped or reaches a limit.               *)
(*                                                                         *)
(* run_producer is one asyncio task.  Between two awaits (the next frame,  *)
(* the connection, the backoff sleep) it runs undisturbed, so a frame is   *)
(* handled in one step and a signal cancels the task only where it awaits. *)
(* The Kafka client's sender is a thread of its own: it moves messages     *)
(* from the local queue to the broker at any time, also while the task is  *)
(* blocked in flush().                                                     *)
(*                                                                         *)
(* The exchange numbers its sub-records 1, 2, 3, ...  A sub-record is      *)
(* "valid", violates the contract ("bad"), or belongs to a symbol that is  *)
(* not configured ("foreign").  A frame is of type "update" or "snapshot"  *)
(* (of market trades), or "ticker", whatever type its events have.  Ticks  *)
(* have no numbers of their own: each tick of a frame is a new sub-record, *)
(* also one that repeats a price.  A ticker envelope whose timestamp does  *)
(* not parse is one bad sub-record, the payload.  "raw" stands for the raw *)
(* topics of trades and of ticks.                                          *)
(***************************************************************************)
EXTENDS Integers, Sequences, SequencesExt, FiniteSets

CONSTANTS
  MaxMessages,    \* max_messages; 0 stands for no limit, as in the code
  MaxReconnects,  \* max_reconnects, or NoLimit
  NoLimit,
  Base, Cap,      \* _BACKOFF_BASE and _BACKOFF_CAP
  FactorMax,      \* the largest power of two a float holds: 2 ** 1023
  QueueMax,       \* queue.buffering.max.messages of the Kafka client
  FrameMax,       \* bound: sub-records in one frame
  MaxRecords,     \* bound: sub-records the exchange emits
  MaxDrops        \* bound: connections that end

ASSUME ConstantsAssumption ==
  /\ MaxMessages \in Nat
  /\ MaxReconnects \in Nat \cup {NoLimit}
  /\ NoLimit \notin Nat
  /\ Base \in Nat \ {0} /\ Cap \in Nat /\ Base <= Cap
  /\ FactorMax \in Nat \ {0}
  /\ QueueMax \in Nat /\ FrameMax \in Nat \ {0}
  /\ MaxRecords \in Nat /\ MaxDrops \in Nat

VARIABLES
  exchange,    \* what the exchange has emitted: a sequence of kinds
  received,    \* numbers of the sub-records in the frames the task handled
  phase,       \* where the task is
  outcome,     \* how run_producer ends: "none" while it runs
  published, reconnects, producedThisConn,   \* the loop's counters
  factor,      \* 2 ** attempt of the backoff generator
  ceiling,     \* upper end of the current backoff delay
  queue,       \* the client's local queue
  topics,      \* the broker: topic -> sequence of sub-record numbers
  failed       \* messages whose delivery report was an error

taskVars == <<phase, outcome, published, reconnects, producedThisConn,
              factor, ceiling>>
vars == <<exchange, received, taskVars, queue, topics, failed>>

Kinds == {"valid", "bad", "foreign"}
Topics == {"raw", "quarantine"}
Messages == [topic : Topics, id : Nat]

AwaitPhases == {"connecting", "streaming", "sleeping"}

-----------------------------------------------------------------------------
(* normalize_safe and the routing of its results.                          *)

\* Mutant: a snapshot is taken for new market activity.
FreshMutant(type, ids) == ids

\* A market_trades "snapshot" repeats history on (re)subscribe and is skipped;
\* the ticks of a ticker frame are not, whatever its type.
Fresh(type, ids) == IF type = "snapshot" THEN {} ELSE ids

Valid(kinds, ids) == {i \in ids : kinds[i] = "valid"}
Rejects(kinds, ids) == {i \in ids : kinds[i] = "bad"}

\* The sub-records ids one after the other, as the frame lists them (there is
\* one such sequence).
InOrder(ids) ==
  {s \in [1..Cardinality(ids) -> ids] :
     /\ \A i \in ids : \E n \in DOMAIN s : s[n] = i
     /\ \A m, n \in DOMAIN s : m < n => s[m] < s[n]}

To(topic, ids) == [n \in DOMAIN ids |-> [topic |-> topic, id |-> ids[n]]]

\* Mutant: one bad sub-record drops its siblings.
OutgoingMutant(kinds, ids) ==
  IF Rejects(kinds, ids) # {} THEN {To("quarantine", b) : b \in InOrder(Rejects(kinds, ids))}
  ELSE {To("raw", v) : v \in InOrder(Valid(kinds, ids))}

\* The messages of a frame in the order they are produced.
Outgoing(kinds, ids) ==
  {To("quarantine", b) \o To("raw", v) :
     b \in InOrder(Rejects(kinds, ids)), v \in InOrder(Valid(kinds, ids))}

\* Mutant: quarantined sub-records count as published.
RawCountMutant(msgs) == Len(msgs)

RawCount(msgs) == Cardinality({n \in DOMAIN msgs : msgs[n].topic = "raw"})

-----------------------------------------------------------------------------
Init ==
  /\ exchange = <<>>
  /\ received = {}
  /\ phase = "connecting"
  /\ outcome = "none"
  /\ published = 0
  /\ reconnects = 0
  /\ producedThisConn = 0
  /\ factor = 1
  /\ ceiling = 0
  /\ queue = <<>>
  /\ topics = [t \in Topics |-> <<>>]
  /\ failed = {}

\* Nobody is listening while the market moves.
MarketMoves ==
  /\ phase # "streaming"
  /\ Len(exchange) < MaxRecords
  /\ \E k \in Kinds : exchange' = Append(exchange, k)
  /\ UNCHANGED <<received, taskVars, queue, topics, failed>>

\* The client connects and subscribes.
Connect ==
  /\ phase = "connecting"
  /\ phase' = "streaming"
  /\ UNCHANGED <<exchange, received, outcome, published, reconnects,
                 producedThisConn, factor, ceiling, queue, topics, failed>>

LimitReached(n) == MaxMessages > 0 /\ n >= MaxMessages

\* One frame with sub-records ids, of which kinds are the kinds.
Handle(type, kinds, ids) ==
  \E msgs \in Outgoing(kinds, Fresh(type, ids)) :
    LET room == QueueMax - Len(queue)
        sent == IF Len(msgs) <= room THEN msgs ELSE SubSeq(msgs, 1, room)
    IN /\ queue' = queue \o sent
       /\ published' = published + RawCount(sent)
       /\ producedThisConn' = producedThisConn + RawCount(sent)
       /\ \/ /\ sent = msgs
             /\ received' = received \cup Fresh(type, ids)
             /\ IF LimitReached(published')
                THEN phase' = "closing" /\ outcome' = "returned"
                ELSE UNCHANGED <<phase, outcome>>
          \/ /\ sent # msgs    \* produce() raises BufferError
             /\ received' = received
             /\ phase' = "closing"
             /\ outcome' = "overrun"
       /\ UNCHANGED <<reconnects, factor, ceiling, topics, failed>>

\* An update or a ticker frame: the newest sub-records of the exchange.
HandleUpdate ==
  /\ phase = "streaming"
  /\ \E type \in {"update", "ticker"} : \E n \in 1..FrameMax : \E ks \in [1..n -> Kinds] :
       /\ Len(exchange) + n <= MaxRecords
       /\ exchange' = exchange \o ks
       /\ Handle(type, exchange', (Len(exchange) + 1)..(Len(exchange) + n))

\* A snapshot of market trades: history, the latest FrameMax sub-records.
HandleSnapshot ==
  /\ phase = "streaming"
  /\ exchange # <<>>
  /\ LET n == IF Len(exchange) < FrameMax THEN Len(exchange) ELSE FrameMax
     IN Handle("snapshot", exchange, (Len(exchange) - n + 1)..Len(exchange))
  /\ UNCHANGED exchange

\* A frame that is not a JSON object of the expected shape: orjson.loads,
\* payload.get or ts.strip raise what nobody catches.
HandleBroken ==
  /\ phase = "streaming"
  /\ phase' = "closing"
  /\ outcome' = "malformed"
  /\ UNCHANGED <<exchange, received, published, reconnects, producedThisConn,
                 factor, ceiling, queue, topics, failed>>

\* A transport error, while connecting or streaming: WebSocketException or
\* OSError, and the task blocks in flush(5).
Disconnect ==
  /\ phase \in {"connecting", "streaming"}
  /\ reconnects < MaxDrops
  /\ phase' = "flushing"
  /\ UNCHANGED <<exchange, received, outcome, published, reconnects,
                 producedThisConn, factor, ceiling, queue, topics, failed>>

\* Mutant: every reconnect starts the backoff over.
NextFactorMutant == 1

\* The backoff schedule is reset after a productive connection only.
NextFactor == IF producedThisConn > 0 THEN 1 ELSE factor

Lesser(a, b) == IF a < b THEN a ELSE b

\* Mutant: the exponential is not capped.
CeilingMutant(f) == Base * f

\* The next delay is drawn from 0 to Ceiling(factor) (full jitter).
Ceiling(f) == Lesser(Cap, Base * f)

\* Mutant: the ceiling is compared before the increment.
GiveUpMutant == MaxReconnects # NoLimit /\ reconnects > MaxReconnects

GiveUp == MaxReconnects # NoLimit /\ reconnects + 1 > MaxReconnects

\* The shared reconnect path: count, give up or back off.  factor ** attempt is
\* a float: past FactorMax it raises OverflowError, cap or not.
Reconnect ==
  /\ reconnects' = reconnects + 1
  /\ \/ /\ GiveUp
        /\ phase' = "closing" /\ outcome' = "returned"
        /\ UNCHANGED <<factor, ceiling>>
     \/ /\ ~GiveUp /\ NextFactor > FactorMax
        /\ phase' = "closing" /\ outcome' = "overflow"
        /\ UNCHANGED <<factor, ceiling>>
     \/ /\ ~GiveUp /\ NextFactor <= FactorMax
        /\ phase' = "sleeping"
        /\ ceiling' = Ceiling(NextFactor)
        /\ factor' = 2 * NextFactor
        /\ UNCHANGED outcome
  /\ UNCHANGED <<exchange, received, published, producedThisConn, queue, topics, failed>>

\* Mutant: flush() without a timeout waits for the broker.
FlushReturnsMutant == phase = "flushing" /\ queue = <<>> /\ Reconnect

\* flush(5) after an error returns: the queue is empty or time is up.
FlushReturns == phase = "flushing" /\ Reconnect

\* The server closes gracefully.
StreamEnds == phase = "streaming" /\ reconnects < MaxDrops /\ Reconnect

WakeUp ==
  /\ phase = "sleeping"
  /\ phase' = "connecting"
  /\ producedThisConn' = 0
  /\ UNCHANGED <<exchange, received, outcome, published, reconnects, factor,
                 ceiling, queue, topics, failed>>

\* SIGINT or SIGTERM: task.cancel() raises CancelledError at the await.
Cancel ==
  /\ phase \in AwaitPhases
  /\ phase' = "closing"
  /\ outcome' = "cancelled"
  /\ UNCHANGED <<exchange, received, published, reconnects, producedThisConn,
                 factor, ceiling, queue, topics, failed>>

\* Mutant: the final flush() has no timeout.
ExitMutant ==
  /\ phase = "closing" /\ queue = <<>>
  /\ phase' = "exited"
  /\ UNCHANGED <<exchange, received, outcome, published, reconnects,
                 producedThisConn, factor, ceiling, queue, topics, failed>>

\* The final flush(10) returns, empty-handed or not, and the process ends.
Exit ==
  /\ phase = "closing"
  /\ phase' = "exited"
  /\ UNCHANGED <<exchange, received, outcome, published, reconnects,
                 producedThisConn, factor, ceiling, queue, topics, failed>>

\* The sender thread: the broker acknowledges the oldest message (idempotent
\* producer: once, in order) ...
Deliver ==
  /\ phase # "exited"
  /\ queue # <<>>
  /\ LET m == Head(queue) IN topics' = [topics EXCEPT ![m.topic] = Append(@, m.id)]
  /\ queue' = Tail(queue)
  /\ UNCHANGED <<exchange, received, taskVars, failed>>

\* ... or the message expires or is rejected, which delivery_report logs.
DeliverFails ==
  /\ phase # "exited"
  /\ queue # <<>>
  /\ failed' = failed \cup {Head(queue)}
  /\ queue' = Tail(queue)
  /\ UNCHANGED <<exchange, received, taskVars, topics>>

Next ==
  \/ MarketMoves
  \/ Connect \/ Disconnect
  \/ HandleUpdate \/ HandleSnapshot \/ HandleBroken
  \/ FlushReturns \/ StreamEnds \/ WakeUp
  \/ Cancel \/ Exit
  \/ Deliver \/ DeliverFails

Spec == Init /\ [][Next]_vars

\* flush() and sleep() return after their timeout; a connection attempt
\* succeeds or fails within the opening handshake's timeout.
Fairness ==
  /\ WF_vars(FlushReturns)
  /\ WF_vars(WakeUp)
  /\ WF_vars(Exit)
  /\ WF_vars(Connect \/ Disconnect)

FairSpec == Spec /\ Fairness

-----------------------------------------------------------------------------
TypeOK ==
  /\ exchange \in Seq(Kinds)
  /\ received \subseteq 1..Len(exchange)
  /\ phase \in AwaitPhases \cup {"flushing", "closing", "exited"}
  /\ outcome \in {"none", "returned", "cancelled", "malformed", "overrun",
                 "overflow"}
  /\ published \in Nat /\ reconnects \in Nat /\ producedThisConn \in Nat
  /\ factor \in 1..(2 * FactorMax) /\ ceiling \in 0..Cap
  /\ queue \in Seq(Messages)
  /\ topics \in [Topics -> Seq(Nat)]
  /\ failed \subseteq Messages
  /\ phase \in {"closing", "exited"} <=> outcome # "none"

\* How often sub-record i is on its way to, or has reached, topic t.
Copies(t, i) ==
  Cardinality({n \in DOMAIN topics[t] : topics[t][n] = i})
    + Cardinality({n \in DOMAIN queue : queue[n] = [topic |-> t, id |-> i]})
    + Cardinality({m \in failed : m = [topic |-> t, id |-> i]})

\* Every sub-record of every frame handled is routed once and to the topic it
\* belongs to, whatever its siblings are: valid ones to a raw topic, contract
\* violations to quarantine, the others nowhere (normalize.py:62-130).
RoutedOnce ==
  \A i \in received :
    /\ Copies("raw", i) = IF exchange[i] = "valid" THEN 1 ELSE 0
    /\ Copies("quarantine", i) = IF exchange[i] = "bad" THEN 1 ELSE 0

\* The raw topics keep the exchange's order without duplicates across all
\* reconnects, although every subscription repeats the latest trades in a snapshot
\* (normalize.py:77-80).
RawOrdered ==
  \A t \in Topics : \A m, n \in DOMAIN topics[t] :
    m < n => topics[t][m] < topics[t][n]

\* The number run_producer reports is the number of raw messages that were
\* delivered, failed, or still sit in the local queue; only what a flush
\* timeout leaves in the queue is lost without a delivery report.
PublishedAccounted ==
  published = Len(topics["raw"]) + RawCount(queue)
                + Cardinality({m \in failed : m.topic = "raw"})

\* max_messages ends the run within the frame that reaches it, and the run
\* never goes through more connections than max_reconnects + 1.
LimitsRespected ==
  /\ MaxMessages > 0 =>
       /\ published < MaxMessages + FrameMax
       /\ phase \in AwaitPhases => published < MaxMessages
  /\ MaxReconnects # NoLimit =>
       /\ reconnects <= MaxReconnects + 1
       /\ phase \in AwaitPhases => reconnects <= MaxReconnects

\* No hot loop: after a connection that delivered nothing the backoff does not
\* shrink (service.py:8-9).
NoHotLoop ==
  [][(phase # "sleeping" /\ phase' = "sleeping" /\ producedThisConn = 0)
       => ceiling' >= Lesser(Cap, 2 * ceiling)]_vars

\* A connection that ends, in whatever way, leads to a new subscription
\* attempt or to the end of the run.
AlwaysReconnects ==
  (phase = "flushing" \/ phase = "sleeping") ~> (phase \in {"connecting", "exited"})

\* SIGTERM and the limits end the process, even when the broker is away.
EndsAfterStop == (outcome # "none") ~> (phase = "exited")

\* service.py:10-11: a malformed message is skipped, "never crashing the
\* stream".
MalformedNeverFatal == outcome # "malformed"
=============================================================================
