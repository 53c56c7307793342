------------------------------ MODULE Recorder ------------------------------
(***************************************************************************)
(* record of src/tickstream/producer/record.py, again and again over one   *)
(* fixture file, with the write_fixture and read_fixture of recording.py   *)
(* that it and replay use.  A call tries its exchanges one after the       *)
(* other; the first capture that is not empty replaces the fixture, which  *)
(* is truncated before it is written.                                      *)
(*                                                                         *)
(* A message is <<call, exchange, seq>>; a line of the file is a message,  *)
(* or Torn when the process died in the middle of it.                      *)
(***************************************************************************)
EXTENDS Integers, Sequences, SequencesExt

CONSTANTS
  Exchanges,    \* the exchanges of source.yaml
  Torn,         \* a line that is not complete
  NoLimit,      \* --max-messages is not given
  Limits,       \* the limits a call may be given, NoLimit among them
  MaxCalls,     \* bound: calls of record
  MaxStream,    \* bound: messages an exchange sends on one connection
  MaxCrashes    \* bound: crashes

ASSUME ConstantsAssumption ==
  /\ Limits \subseteq (Nat \ {0}) \cup {NoLimit}
  /\ NoLimit \notin Nat
  /\ MaxCalls \in Nat /\ MaxStream \in Nat /\ MaxCrashes \in Nat
  /\ IsFiniteSet(Exchanges) /\ Torn \notin Nat \X Exchanges \X Nat

VARIABLES
  call,        \* number of the call of record
  phase,       \* "idle", "trying", "capturing" or "writing"
  todo,        \* candidates not tried yet, the current one first
  limit,       \* max_messages
  captured,    \* messages of the current candidate
  lastError,   \* a candidate raised
  fixture,     \* the lines of the file
  outcome,     \* how the last call ended
  reported,    \* what the call that wrote the fixture returned
  replayed,    \* the last replay: the lines handed to the client, and how it ended
  crashes

fileVars == <<fixture, replayed>>
vars == <<call, phase, todo, limit, captured, lastError, fileVars, outcome,
          reported, crashes>>

\* Nothing is reported of a file whose write has not ended.
Unreported == [exchange |-> "none", count |-> 0]

\* A fixture is committed with the repository: recording 0.
Init ==
  /\ call = 0 /\ phase = "idle" /\ todo = <<>> /\ limit = NoLimit
  /\ captured = <<>> /\ lastError = FALSE
  /\ \E e \in Exchanges :
       /\ fixture = <<<<0, e, 0>>>>
       /\ reported = [exchange |-> e, count |-> 1]
  /\ outcome = "returned"
  /\ replayed = [lines |-> <<>>, raised |-> FALSE]
  /\ crashes = 0

\* The configured exchange first, the others only with fallback.
Candidates == {<<e>> : e \in Exchanges} \cup
              {s \in [1..Cardinality(Exchanges) -> Exchanges] : IsInjective(s)}

Start ==
  /\ phase = "idle" /\ call < MaxCalls
  /\ call' = call + 1
  /\ phase' = "trying"
  /\ todo' \in Candidates
  /\ limit' \in Limits
  /\ captured' = <<>> /\ lastError' = FALSE
  /\ UNCHANGED <<fileVars, outcome, reported, crashes>>

\* Mutant: one list collects the messages of all candidates.
TryMutant ==
  /\ phase = "trying"
  /\ phase' = "capturing"
  /\ UNCHANGED <<call, todo, limit, captured, lastError, fileVars, outcome, reported,
                 crashes>>

\* _record_once with the first candidate left.
Try ==
  /\ phase = "trying"
  /\ phase' = "capturing"
  /\ captured' = <<>>
  /\ UNCHANGED <<call, todo, limit, lastError, fileVars, outcome, reported, crashes>>

\* Mutant: max_messages is compared with > .
LimitReachedMutant(n) == limit # NoLimit /\ n > limit

LimitReached(n) == limit # NoLimit /\ n >= limit

\* Mutant: an empty capture is written as well.
UsableMutant(messages) == TRUE

\* `if messages'.
Usable(messages) == messages # <<>>

\* The current candidate gave nothing: try the next one, or raise.
GiveUpCandidate ==
  /\ todo' = Tail(todo)
  /\ IF todo' # <<>>
     THEN phase' = "trying" /\ UNCHANGED outcome
     ELSE /\ phase' = "idle"
          /\ outcome' = IF lastError' THEN "last_error" ELSE "no_messages"
  /\ UNCHANGED <<fixture, reported>>

\* The candidate ended without an exception: its messages, if there are any,
\* replace the fixture.
Conclude ==
  /\ UNCHANGED lastError
  /\ IF Usable(captured')
     THEN /\ phase' = "writing"
          /\ fixture' = <<>> /\ reported' = Unreported
          /\ UNCHANGED <<todo, outcome>>
     ELSE GiveUpCandidate

\* A message arrives; the one that reaches the limit is the last.
Receive ==
  /\ phase = "capturing" /\ Len(captured) < MaxStream
  /\ captured' = Append(captured, <<call, Head(todo), Len(captured)>>)
  /\ IF LimitReached(Len(captured')) THEN Conclude
     ELSE UNCHANGED <<phase, todo, lastError, outcome, fixture, reported>>
  /\ UNCHANGED <<call, limit, replayed, crashes>>

\* Mutant: without a message the window never elapses.
CaptureEndsMutant ==
  /\ phase = "capturing" /\ captured # <<>>
  /\ UNCHANGED captured
  /\ Conclude
  /\ UNCHANGED <<call, limit, replayed, crashes>>

\* The window has elapsed, connected or not, or the server closed the stream.
CaptureEnds ==
  /\ phase = "capturing"
  /\ UNCHANGED captured
  /\ Conclude
  /\ UNCHANGED <<call, limit, replayed, crashes>>

\* The client cannot be built, or connecting, subscribing or the stream raises:
\* what was captured is dropped.
CandidateFails ==
  /\ phase = "capturing"
  /\ lastError' = TRUE
  /\ GiveUpCandidate
  /\ UNCHANGED <<call, limit, captured, replayed, crashes>>

WriteLine ==
  /\ phase = "writing" /\ Len(fixture) < Len(captured)
  /\ fixture' = Append(fixture, captured[Len(fixture) + 1])
  /\ UNCHANGED <<call, phase, todo, limit, captured, lastError, replayed, outcome,
                 reported, crashes>>

WriteEnds ==
  /\ phase = "writing" /\ Len(fixture) = Len(captured)
  /\ phase' = "idle"
  /\ outcome' = "returned"
  /\ reported' = [exchange |-> Head(todo), count |-> Len(captured)]
  /\ UNCHANGED <<call, todo, limit, captured, lastError, fileVars, crashes>>

\* The process dies, or a write raises: the line it was at may be torn.
Crash ==
  /\ phase # "idle" /\ crashes < MaxCrashes
  /\ crashes' = crashes + 1
  /\ phase' = "idle"
  /\ outcome' = "crashed"
  /\ \/ UNCHANGED fixture
     \/ /\ phase = "writing" /\ Len(fixture) < Len(captured)
        /\ fixture' = Append(fixture, Torn)
  /\ UNCHANGED <<call, todo, limit, captured, lastError, replayed, reported>>

\* read_fixture hands out line after line, and replay hands each to the Kafka
\* client.  When from_json_line raises at a torn one the client is not flushed:
\* of the lines before it, some prefix of each partition has been delivered.
Replay ==
  /\ phase = "idle"
  /\ \E n \in 0..Len(fixture) :
       /\ \A i \in 1..n : fixture[i] # Torn
       /\ n < Len(fixture) => fixture[n + 1] = Torn
       /\ replayed' = [lines |-> SubSeq(fixture, 1, n), raised |-> n < Len(fixture)]
  /\ UNCHANGED <<call, phase, todo, limit, captured, lastError, fixture, outcome,
                 reported, crashes>>

Steps ==
  \/ Try \/ Receive \/ CaptureEnds \/ CandidateFails
  \/ WriteLine \/ WriteEnds

Next == Start \/ Steps \/ Crash \/ Replay

Spec == Init /\ [][Next]_vars

\* asyncio.timeout ends every capture, and the file system answers.
FairSpec ==
  Spec /\ WF_vars(Try) /\ WF_vars(CaptureEnds) /\ WF_vars(WriteLine)
       /\ WF_vars(WriteEnds)

-----------------------------------------------------------------------------
\* The limit of a call bounds what it captures, in every phase of the call, and
\* what its crash or its last candidate leaves until the next call (record.py:49).
TypeOK ==
  /\ call \in 0..MaxCalls /\ crashes \in 0..MaxCrashes
  /\ phase \in {"idle", "trying", "capturing", "writing"}
  /\ outcome \in {"returned", "last_error", "no_messages", "crashed"}
  /\ limit # NoLimit => Len(captured) <= limit
  /\ phase # "idle" => todo # <<>>
  /\ lastError \in BOOLEAN

\* Whatever is cut short, a replay hands the client the beginning of one capture of
\* one exchange, in order and without gaps; two captures are never mixed
\* (recording.py:42, record.py:36-48).
ReplaysOneCapture ==
  \A i \in DOMAIN replayed.lines :
    LET line == replayed.lines[i]
    IN /\ line[1] = replayed.lines[1][1]
       /\ line[2] = replayed.lines[1][2]
       /\ line[3] = i - 1

\* A call that returns has left exactly the capture it reports in the file, and
\* the file stays what it was through calls that fail, find nothing or die before
\* they have messages: only a crash in the middle of a write leaves less than one
\* capture (record.py:65-95).
FixtureSurvives ==
  /\ reported = Unreported => phase = "writing" \/ crashes > 0
  /\ reported # Unreported =>
       /\ Len(fixture) = reported.count /\ reported.count > 0
       /\ \A i \in DOMAIN fixture : fixture[i] # Torn /\ fixture[i][2] = reported.exchange

\* Every call ends, although an exchange may accept and send nothing
\* (record.py:38).
RecordEnds == (phase # "idle") ~> (phase = "idle")
=============================================================================
