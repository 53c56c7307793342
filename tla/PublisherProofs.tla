-------------------------- MODULE PublisherProofs --------------------------
(***************************************************************************)
(* Proofs about Publisher, for any number of processes, topics and events. *)
(***************************************************************************)
EXTENDS Publisher, TLAPS

-----------------------------------------------------------------------------
(* The inductive invariant.                                                *)

Before == {"listing", "creating", "no_topics", "producing"}
After == {"flushing", "incomplete", "returned"}

\* What a future said is true of the broker: topics are never deleted.
AnswersTrue ==
  \A c \in Clients, t \in Topics :
    /\ answers[c][t] \in {"created", "exists"} => t \in existing
    /\ pc[c] = "creating" /\ answers[c][t] = "not_asked" => t \in existing

\* The broker creates a topic for one request.
OneCreator ==
  \A c, d \in Clients, t \in Topics :
    answers[c][t] = "created" /\ answers[d][t] = "created" => c = d

\* ensure_topics returns what its futures said, and nothing before it returns.
CreatedOwn ==
  \A c \in Clients :
    /\ created[c] \subseteq Own(c)
    /\ pc[c] \in {"listing", "creating"} => created[c] = {}

\* Every event is in the queue or has had its delivery report.
EventsAccounted ==
  \A c \in Clients :
    /\ pc[c] \in Before => queue[c] = 0 /\ acked[c] = 0 /\ rejected[c] = 0
    /\ pc[c] \in After => queue[c] + acked[c] + rejected[c] = Events
    /\ pc[c] = "returned" => queue[c] = 0

TopicsInv == AnswersTrue /\ TopicsReady /\ OneCreator /\ CreatedOwn /\ RaceIsBenign

Inv == TypeOK /\ TopicsInv /\ EventsAccounted

-----------------------------------------------------------------------------
\* The invariant holds before any request.
LEMMA InitInv == Init => Inv
  <1> SUFFICES ASSUME Init PROVE Inv
    OBVIOUS
  <1> USE ConstantsAssumption DEF Init
  <1>1. TypeOK
    BY DEF TypeOK, Future
  <1>2. TopicsInv
    BY DEF TopicsInv, AnswersTrue, TopicsReady, OneCreator, CreatedOwn, Own,
           RaceIsBenign
  <1>3. EventsAccounted
    BY DEF EventsAccounted, Before, After
  <1>4. QED
    BY <1>1, <1>2, <1>3 DEF Inv

\* The places a client can be in.
PC == {"listing", "creating", "no_topics", "producing", "flushing",
       "incomplete", "returned"}

\* A future resolves to a future.
LEMMA AnswerType ==
  ASSUME TypeOK, NEW c \in Clients, NEW t \in Topics, NEW f \in Future
  PROVE  [answers EXCEPT ![c][t] = f] \in [Clients -> [Topics -> Future]]
  <1>1. answers \in [Clients -> [Topics -> Future]]
    BY DEF TypeOK
  <1>2. [answers[c] EXCEPT ![t] = f] \in [Topics -> Future]
    BY <1>1
  <1>3. QED
    BY <1>1, <1>2

\* The broker's answers change these two variables only.
LEMMA AnswerStep ==
  ASSUME TypeOK, NEW c \in Clients, NEW t \in Topics,
         Answer(c, t) \/ AnswerLate(c, t)
  PROVE  /\ answers' \in [Clients -> [Topics -> Future]]
         /\ existing' \subseteq Topics
         /\ existing \subseteq existing'
         /\ UNCHANGED <<pc, created, queue, acked, rejected>>
  <1> USE DEF Answer, AnswerLate
  <1>1. CASE answers' = answers
    BY <1>1 DEF TypeOK
  <1>2. CASE \E f \in Future : answers' = [answers EXCEPT ![c][t] = f]
    BY <1>2, AnswerType DEF TypeOK
  <1>3. answers' = answers \/ \E f \in Future : answers' = [answers EXCEPT ![c][t] = f]
    BY DEF Future
  <1>4. QED
    BY <1>1, <1>2, <1>3 DEF TypeOK

\* Counts stay within the number of events because of EventsAccounted.
LEMMA NextTypes == TypeOK /\ EventsAccounted /\ [Next]_vars => TypeOK'
  <1> SUFFICES ASSUME TypeOK, EventsAccounted, [Next]_vars
               PROVE  TypeOK'
    OBVIOUS
  <1>1. CASE UNCHANGED vars
    BY <1>1 DEF vars, TypeOK
  <1>2. ASSUME NEW c \in Clients, ListTopics(c)
        PROVE  TypeOK'
    BY <1>2 DEF ListTopics, TypeOK, Future
  <1>3. ASSUME NEW c \in Clients, Ensure(c)
        PROVE  TypeOK'
    <2>1. Own(c) \in SUBSET Topics
      BY DEF Own
    <2>2. QED
      BY <1>3, <2>1 DEF Ensure, TypeOK
  <1>4. ASSUME NEW c \in Clients, EnsureGivesUp(c)
        PROVE  TypeOK'
    BY <1>4 DEF EnsureGivesUp, TypeOK
  <1>5. ASSUME NEW c \in Clients, NEW t \in Topics, Answer(c, t) \/ AnswerLate(c, t)
        PROVE  TypeOK'
    BY <1>5, AnswerStep DEF TypeOK
  <1>6. ASSUME NEW c \in Clients, Produce(c)
        PROVE  TypeOK'
    BY <1>6, ConstantsAssumption DEF Produce, TypeOK
  <1>7. ASSUME NEW c \in Clients, FlushReturns(c)
        PROVE  TypeOK'
    BY <1>7 DEF FlushReturns, Outcome, TypeOK
  <1>8. ASSUME NEW c \in Clients, Acknowledge(c)
        PROVE  TypeOK'
    <2>1. queue[c] - 1 \in 0..Events /\ acked[c] + 1 \in 0..Events
      BY <1>8, ConstantsAssumption DEF Acknowledge, TypeOK, EventsAccounted, After
    <2>2. QED
      BY <1>8, <2>1 DEF Acknowledge, TypeOK
  <1>9. ASSUME NEW c \in Clients, Reject(c)
        PROVE  TypeOK'
    <2>1. queue[c] - 1 \in 0..Events /\ rejected[c] + 1 \in 0..Events
      BY <1>9, ConstantsAssumption DEF Reject, TypeOK, EventsAccounted, After
    <2>2. QED
      BY <1>9, <2>1 DEF Reject, TypeOK
  <1>10. QED
    BY <1>1, <1>2, <1>3, <1>4, <1>5, <1>6, <1>7, <1>8, <1>9 DEF Next

\* What a client reports moves with its queue.
LEMMA NextEvents == TypeOK /\ EventsAccounted /\ [Next]_vars => EventsAccounted'
  <1> SUFFICES ASSUME TypeOK, EventsAccounted, [Next]_vars
               PROVE  EventsAccounted'
    OBVIOUS
  <1>t. /\ pc \in [Clients -> PC]
        /\ queue \in [Clients -> Nat] /\ acked \in [Clients -> Nat]
        /\ rejected \in [Clients -> Nat]
    BY ConstantsAssumption DEF TypeOK, PC
  <1> USE <1>t, ConstantsAssumption DEF EventsAccounted, Before, After, PC
  <1>1. CASE UNCHANGED vars
    BY <1>1 DEF vars
  <1>2. ASSUME NEW c \in Clients, ListTopics(c) \/ Ensure(c) \/ EnsureGivesUp(c)
        PROVE  EventsAccounted'
    BY <1>2 DEF ListTopics, Ensure, EnsureGivesUp
  <1>3. ASSUME NEW c \in Clients, NEW t \in Topics, Answer(c, t) \/ AnswerLate(c, t)
        PROVE  EventsAccounted'
    BY <1>3, AnswerStep
  <1>4. ASSUME NEW c \in Clients, Produce(c) \/ FlushReturns(c)
        PROVE  EventsAccounted'
    BY <1>4 DEF Produce, FlushReturns, Outcome
  <1>5. ASSUME NEW c \in Clients, Acknowledge(c) \/ Reject(c)
        PROVE  EventsAccounted'
    BY <1>5 DEF Acknowledge, Reject
  <1>6. QED
    BY <1>1, <1>2, <1>3, <1>4, <1>5 DEF Next

\* The race for the topics.  Only listing, the broker's answers and the end of
\* ensure_topics matter to it.
LEMMA NextTopics == TypeOK /\ TopicsInv /\ [Next]_vars => TopicsInv'
  <1> SUFFICES ASSUME TypeOK, TopicsInv, [Next]_vars
               PROVE  TopicsInv'
    OBVIOUS
  <1>t. /\ pc \in [Clients -> PC]
        /\ answers \in [Clients -> [Topics -> Future]]
        /\ created \in [Clients -> SUBSET Topics]
    BY DEF TypeOK, PC
  <1>i. AnswersTrue /\ TopicsReady /\ OneCreator /\ CreatedOwn /\ RaceIsBenign
    BY DEF TopicsInv
  <1> USE <1>t, <1>i DEF PC, Future
  <1>1. CASE UNCHANGED vars
    BY <1>1 DEF vars, TopicsInv, AnswersTrue, TopicsReady, OneCreator, CreatedOwn,
                Own, RaceIsBenign
  <1>2. ASSUME NEW c \in Clients, ListTopics(c)
        PROVE  TopicsInv'
    <2>1. AnswersTrue'
      BY <1>2 DEF ListTopics, AnswersTrue
    <2>2. TopicsReady'
      BY <1>2 DEF ListTopics, TopicsReady
    <2>3. OneCreator'
      BY <1>2 DEF ListTopics, OneCreator
    <2>4. RaceIsBenign'
      BY <1>2 DEF ListTopics, RaceIsBenign
    <2>5. CreatedOwn'
      BY <1>2 DEF ListTopics, CreatedOwn, Own
    <2>6. QED
      BY <2>1, <2>2, <2>3, <2>4, <2>5 DEF TopicsInv
  <1>3. ASSUME NEW c \in Clients, NEW t \in Topics, Answer(c, t)
        PROVE  TopicsInv'
    <2>1. \A d \in Clients, u \in Topics :
            <<d, u>> # <<c, t>> => answers'[d][u] = answers[d][u]
      BY <1>3 DEF Answer
    <2>2. /\ answers[c][t] = "pending" /\ pc[c] = "creating"
          /\ \/ answers'[c][t] = "exists" /\ t \in existing'
             \/ answers'[c][t] = "created" /\ t \notin existing /\ t \in existing'
             \/ answers'[c][t] = "error"
      BY <1>3 DEF Answer
    <2>3. existing \subseteq existing' /\ pc' = pc /\ created' = created
      BY <1>3, AnswerStep
    <2> HIDE DEF PC, Future
    <2>4. AnswersTrue'
      BY <2>1, <2>2, <2>3 DEF AnswersTrue
    <2>5. TopicsReady'
      BY <2>3 DEF TopicsReady
    <2>6. OneCreator'
      BY <2>1, <2>2 DEF OneCreator, AnswersTrue
    <2>7. RaceIsBenign'
      <3> SUFFICES ASSUME NEW d \in Clients, pc'[d] = "no_topics"
                   PROVE  \E u \in Topics : answers'[d][u] \in {"pending", "error"}
        BY DEF RaceIsBenign
      <3>1. d # c
        BY <2>2, <2>3
      <3>2. QED
        BY <3>1, <2>1, <2>3 DEF RaceIsBenign
    <2>8. CreatedOwn'
      BY <2>1, <2>2, <2>3 DEF CreatedOwn, Own
    <2>9. QED
      BY <2>4, <2>5, <2>6, <2>7, <2>8 DEF TopicsInv
  <1>4. ASSUME NEW c \in Clients, NEW t \in Topics, AnswerLate(c, t)
        PROVE  TopicsInv'
    <2>1. existing \subseteq existing' /\ UNCHANGED <<pc, created, answers>>
      BY <1>4 DEF AnswerLate
    <2>2. QED
      BY <2>1 DEF TopicsInv, AnswersTrue, TopicsReady, OneCreator, CreatedOwn, Own,
                  RaceIsBenign
  <1>5. ASSUME NEW c \in Clients, Ensure(c)
        PROVE  TopicsInv'
    <2>1. UNCHANGED <<answers, existing>> /\ pc[c] = "creating"
      BY <1>5 DEF Ensure
    <2>2. \A d \in Clients : d # c => pc'[d] = pc[d] /\ created'[d] = created[d]
      BY <1>5 DEF Ensure
    <2>3. \/ /\ pc'[c] = "producing" /\ created'[c] = Own(c)
             /\ \A t \in Topics : answers[c][t] \in {"not_asked", "created", "exists"}
          \/ /\ pc'[c] = "no_topics" /\ created' = created
             /\ \E t \in Topics : answers[c][t] = "error"
      BY <1>5 DEF Ensure, Tolerable
    <2>4. AnswersTrue' /\ OneCreator'
      BY <2>1, <2>2, <2>3 DEF AnswersTrue, OneCreator
    <2>5. TopicsReady'
      BY <2>1, <2>2, <2>3 DEF TopicsReady, AnswersTrue
    <2>6. RaceIsBenign'
      BY <2>1, <2>2, <2>3 DEF RaceIsBenign
    <2>7. CreatedOwn'
      BY <2>1, <2>2, <2>3 DEF CreatedOwn, Own
    <2>8. QED
      BY <2>4, <2>5, <2>6, <2>7 DEF TopicsInv
  <1>6. ASSUME NEW c \in Clients, EnsureGivesUp(c)
        PROVE  TopicsInv'
    <2>1. /\ UNCHANGED <<answers, existing, created>>
          /\ pc' = [pc EXCEPT ![c] = "no_topics"]
          /\ \E t \in Topics : answers[c][t] = "pending"
      BY <1>6 DEF EnsureGivesUp
    <2>2. AnswersTrue' /\ OneCreator' /\ CreatedOwn'
      BY <2>1 DEF AnswersTrue, OneCreator, CreatedOwn, Own
    <2>3. TopicsReady' /\ RaceIsBenign'
      BY <2>1 DEF TopicsReady, RaceIsBenign
    <2>4. QED
      BY <2>2, <2>3 DEF TopicsInv
  <1>7. ASSUME NEW c \in Clients,
               Produce(c) \/ FlushReturns(c) \/ Acknowledge(c) \/ Reject(c)
        PROVE  TopicsInv'
    <2>1. /\ UNCHANGED <<answers, existing, created>>
          /\ pc[c] \in {"producing", "flushing"}
          /\ \A d \in Clients : d # c => pc'[d] = pc[d]
          /\ pc'[c] \in {"flushing", "incomplete", "returned"}
      BY <1>7 DEF Produce, FlushReturns, Outcome, Acknowledge, Reject
    <2>2. AnswersTrue' /\ OneCreator' /\ CreatedOwn'
      BY <2>1 DEF AnswersTrue, OneCreator, CreatedOwn, Own
    <2>3. TopicsReady' /\ RaceIsBenign'
      BY <2>1 DEF TopicsReady, RaceIsBenign
    <2>4. QED
      BY <2>2, <2>3 DEF TopicsInv
  <1>8. QED
    BY <1>1, <1>2, <1>3, <1>4, <1>5, <1>6, <1>7 DEF Next

\* The invariant holds in every reachable state.
THEOREM PublisherInv == Spec => []Inv
  <1>1. Init => Inv
    BY InitInv
  <1>2. Inv /\ [Next]_vars => Inv'
    BY NextTypes, NextEvents, NextTopics DEF Inv
  <1>3. QED
    BY <1>1, <1>2, PTL DEF Spec

\* Every reachable state of the clients and the broker is well typed.
THEOREM PublisherTypes == Spec => []TypeOK
  BY PublisherInv, PTL DEF Inv

\* publish_events never produces to a topic that does not exist, however many
\* processes start at once and whoever creates the topics.
THEOREM ProducesToExistingTopics == Spec => []TopicsReady
  BY PublisherInv, PTL DEF Inv, TopicsInv

\* ensure_topics reports a topic as created to one caller at most.
THEOREM TopicCreatedOnce == Spec => []CreatedByOne
  <1>1. Inv => CreatedByOne
    BY DEF Inv, TopicsInv, CreatedOwn, OneCreator, Own, CreatedByOne
  <1>2. QED
    BY <1>1, PublisherInv, PTL

\* Losing the race for a topic fails no process.
THEOREM LosingTheRaceIsBenign == Spec => []RaceIsBenign
  BY PublisherInv, PTL DEF Inv, TopicsInv

\* publish_events returns only when every event has had its delivery report.
THEOREM ReportsForAllEvents == Spec => []NothingLeftQueued
  <1>1. Inv => NothingLeftQueued
    BY ConstantsAssumption DEF Inv, TypeOK, EventsAccounted, After, NothingLeftQueued
  <1>2. QED
    BY <1>1, PublisherInv, PTL
=============================================================================
