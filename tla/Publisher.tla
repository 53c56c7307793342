----------------------------- MODULE Publisher -----------------------------
(***************************************************************************)
(* publish_events of src/tickstream/producer/publisher.py with the         *)
(* ensure_topics it calls (src/tickstream/kafka_utils.py): several         *)
(* processes start on one broker, each lists the topics, asks for those it *)
(* misses, produces its events and flushes.  Listing and creating are two  *)
(* requests, and the others run in between.                                *)
(***************************************************************************)
EXTENDS Integers, FiniteSets

CONSTANTS
  Clients,   \* the processes
  Topics,    \* the topics each of them needs
  Events     \* events each of them publishes

ASSUME ConstantsAssumption == Events \in Nat \ {0}

VARIABLES
  existing,  \* topics on the broker
  pc,        \* where each client is
  answers,   \* client -> topic -> the future of its creation request
  created,   \* what ensure_topics returned
  queue,     \* messages in the local queue
  acked,     \* messages the broker acknowledged
  rejected   \* messages whose delivery report was an error

vars == <<existing, pc, answers, created, queue, acked, rejected>>

Future == {"not_asked", "pending", "created", "exists", "error"}

Init ==
  /\ existing \in SUBSET Topics
  /\ pc = [c \in Clients |-> "listing"]
  /\ answers = [c \in Clients |-> [t \in Topics |-> "not_asked"]]
  /\ created = [c \in Clients |-> {}]
  /\ queue = [c \in Clients |-> 0]
  /\ acked = [c \in Clients |-> 0]
  /\ rejected = [c \in Clients |-> 0]

\* ensure_topics lists the topics and asks for the missing ones.
ListTopics(c) ==
  /\ pc[c] = "listing"
  /\ LET missing == Topics \ existing
     IN /\ answers' = [answers EXCEPT ![c] =
                         [t \in Topics |-> IF t \in missing THEN "pending"
                                                            ELSE "not_asked"]]
        /\ pc' = [pc EXCEPT ![c] = IF missing = {} THEN "producing" ELSE "creating"]
  /\ UNCHANGED <<existing, created, queue, acked, rejected>>

\* The broker answers one creation request.
Answer(c, t) ==
  /\ pc[c] = "creating" /\ answers[c][t] = "pending"
  /\ \/ /\ answers' = [answers EXCEPT ![c][t] =
                         IF t \in existing THEN "exists" ELSE "created"]
        /\ existing' = existing \cup {t}
     \/ /\ answers' = [answers EXCEPT ![c][t] = "error"]
        /\ UNCHANGED existing
  /\ UNCHANGED <<pc, created, queue, acked, rejected>>

\* ... and also when the client has stopped waiting for the future.
AnswerLate(c, t) ==
  /\ pc[c] = "no_topics" /\ answers[c][t] = "pending"
  /\ existing' = existing \cup {t}
  /\ UNCHANGED <<pc, answers, created, queue, acked, rejected>>

\* Mutant: every KafkaException is treated as "already exists".
TolerableMutant == {"not_asked", "created", "exists", "error"}

\* What the loop over the futures passes over without raising.
Tolerable == {"not_asked", "created", "exists"}

Own(c) == {t \in Topics : answers[c][t] = "created"}

\* Mutant: "already exists" is re-raised like any other error.
EnsureMutant(c) ==
  /\ pc[c] = "creating"
  /\ \A t \in Topics : answers[c][t] # "pending"
  /\ IF \A t \in Topics : answers[c][t] \in {"not_asked", "created"}
     THEN /\ created' = [created EXCEPT ![c] = Own(c)]
          /\ pc' = [pc EXCEPT ![c] = "producing"]
     ELSE /\ pc' = [pc EXCEPT ![c] = "no_topics"]
          /\ UNCHANGED created
  /\ UNCHANGED <<existing, answers, queue, acked, rejected>>

\* All futures are in: ensure_topics returns, or raises the first error.
Ensure(c) ==
  /\ pc[c] = "creating"
  /\ \A t \in Topics : answers[c][t] # "pending"
  /\ IF \A t \in Topics : answers[c][t] \in Tolerable
     THEN /\ created' = [created EXCEPT ![c] = Own(c)]
          /\ pc' = [pc EXCEPT ![c] = "producing"]
     ELSE /\ pc' = [pc EXCEPT ![c] = "no_topics"]
          /\ UNCHANGED created
  /\ UNCHANGED <<existing, answers, queue, acked, rejected>>

\* A future does not resolve in time, or an earlier one is an error.
EnsureGivesUp(c) ==
  /\ pc[c] = "creating"
  /\ \E t \in Topics : answers[c][t] = "pending"
  /\ pc' = [pc EXCEPT ![c] = "no_topics"]
  /\ UNCHANGED <<existing, answers, created, queue, acked, rejected>>

\* The produce loop fills the local queue.
Produce(c) ==
  /\ pc[c] = "producing"
  /\ queue' = [queue EXCEPT ![c] = Events]
  /\ pc' = [pc EXCEPT ![c] = "flushing"]
  /\ UNCHANGED <<existing, answers, created, acked, rejected>>

Acknowledge(c) ==
  /\ pc[c] = "flushing" /\ queue[c] > 0
  /\ queue' = [queue EXCEPT ![c] = @ - 1]
  /\ acked' = [acked EXCEPT ![c] = @ + 1]
  /\ UNCHANGED <<existing, pc, answers, created, rejected>>

Reject(c) ==
  /\ pc[c] = "flushing" /\ queue[c] > 0
  /\ queue' = [queue EXCEPT ![c] = @ - 1]
  /\ rejected' = [rejected EXCEPT ![c] = @ + 1]
  /\ UNCHANGED <<existing, pc, answers, created, acked>>

Outcome(c) == IF queue[c] > 0 THEN "incomplete" ELSE "returned"

\* Mutant: after an incomplete flush everything is produced again.
FlushReturnsMutant(c) ==
  /\ pc[c] = "flushing"
  /\ pc' = [pc EXCEPT ![c] = IF queue[c] > 0 THEN "producing" ELSE "returned"]
  /\ UNCHANGED <<existing, answers, created, queue, acked, rejected>>

\* flush(30) returns; publish_events raises if messages remain queued.
FlushReturns(c) ==
  /\ pc[c] = "flushing"
  /\ pc' = [pc EXCEPT ![c] = Outcome(c)]
  /\ UNCHANGED <<existing, answers, created, queue, acked, rejected>>

Next ==
  \E c \in Clients :
    \/ ListTopics(c) \/ Ensure(c) \/ EnsureGivesUp(c)
    \/ \E t \in Topics : Answer(c, t) \/ AnswerLate(c, t)
    \/ Produce(c) \/ FlushReturns(c)
    \/ Acknowledge(c) \/ Reject(c)

Spec == Init /\ [][Next]_vars

-----------------------------------------------------------------------------
TypeOK ==
  /\ existing \subseteq Topics
  /\ pc \in [Clients -> {"listing", "creating", "no_topics", "producing",
                         "flushing", "incomplete", "returned"}]
  /\ answers \in [Clients -> [Topics -> Future]]
  /\ created \in [Clients -> SUBSET Topics]
  /\ queue \in [Clients -> 0..Events]
  /\ acked \in [Clients -> 0..Events] /\ rejected \in [Clients -> 0..Events]

\* A client produces only to topics that exist, whoever created them
\* (publisher.py:43-45, kafka_utils.py:113-123).
TopicsReady ==
  \A c \in Clients :
    pc[c] \in {"producing", "flushing", "incomplete", "returned"}
      => Topics \subseteq existing

\* However the requests of the clients interleave, a topic is reported as newly
\* created by one of them at most (kafka_utils.py:96).
CreatedByOne ==
  \A c, d \in Clients : c # d => created[c] \cap created[d] = {}

\* Losing the race for a topic fails nobody: with every future in, a client is
\* without topics only if the broker refused one (kafka_utils.py:119-123).
RaceIsBenign ==
  \A c \in Clients :
    pc[c] = "no_topics" =>
      \E t \in Topics : answers[c][t] \in {"pending", "error"}

\* publish_events returns with an empty queue: every message has had its
\* delivery report, good or bad (publisher.py:61-64).
NothingLeftQueued ==
  \A c \in Clients : pc[c] = "returned" => acked[c] + rejected[c] = Events
=============================================================================
