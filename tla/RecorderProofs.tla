--------------------------- MODULE RecorderProofs ---------------------------
(***************************************************************************)
(* Proofs about Recorder, for any number of calls, crashes and exchanges,  *)
(* and streams of any length.                                              *)
(***************************************************************************)
EXTENDS Recorder, SequenceTheorems, FiniteSetTheorems, TLAPS

Messages == Nat \X Exchanges \X Nat

-----------------------------------------------------------------------------
(* The inductive invariant.                                                *)

ControlInv ==
  /\ TypeOK
  /\ limit \in Limits \cup {NoLimit}
  /\ todo \in Seq(Exchanges)
  /\ captured \in Seq(Messages)
  /\ fixture \in Seq(Messages \cup {Torn})

\* What the current candidate sent, below the limit until the message that
\* reaches it has been taken.
CaptureInv ==
  /\ phase \in {"capturing", "writing"} =>
       \A i \in 1..Len(captured) : captured[i] = <<call, Head(todo), i - 1>>
  /\ phase = "capturing" /\ limit # NoLimit => Len(captured) < limit

\* The lines of recording c of exchange e, the last one perhaps torn.
LinesOf(lines, c, e) ==
  \A i \in 1..Len(lines) :
    lines[i] = <<c, e, i - 1>> \/ (i = Len(lines) /\ lines[i] = Torn)

\* The file is the beginning of one recording, while it is written of the capture,
\* and all of it once that is reported.
FileInv ==
  /\ \E c \in Nat, e \in Exchanges : LinesOf(fixture, c, e)
  /\ phase = "writing" =>
       /\ reported = Unreported /\ captured # <<>>
       /\ Len(fixture) <= Len(captured)
       /\ \A i \in 1..Len(fixture) : fixture[i] = captured[i]

RecorderInv ==
  ControlInv /\ CaptureInv /\ FileInv /\ ReplaysOneCapture /\ FixtureSurvives

-----------------------------------------------------------------------------
(* The parts of a step.                                                    *)

\* A list of candidates has one.
LEMMA CandidatesAre ==
  ASSUME NEW s \in Candidates, Exchanges # {}
  PROVE  s \in Seq(Exchanges) /\ s # <<>>
<1>1. CASE s \in {<<e>> : e \in Exchanges}
  <2>1. PICK e \in Exchanges : s = <<e>>
    BY <1>1
  <2>. QED
    BY <2>1
<1>2. CASE s \in [1..Cardinality(Exchanges) -> Exchanges]
  <2>1. Cardinality(Exchanges) \in Nat \ {0}
    BY ConstantsAssumption, FS_CardinalityType, FS_EmptySet
  <2>2. s \in Seq(Exchanges) /\ Len(s) = Cardinality(Exchanges)
    BY <1>2, <2>1
  <2>. QED
    BY <2>1, <2>2, EmptySeq
<1>. QED
  BY <1>1, <1>2 DEF Candidates

\* Without a step on the file nor on what is said of it.
LEMMA FileKept ==
  ASSUME ControlInv, FileInv, ReplaysOneCapture, FixtureSurvives,
         UNCHANGED <<fixture, reported, replayed>>,
         crashes' \in Nat /\ crashes' >= crashes,
         phase' # "writing", phase = "writing" => crashes' > crashes
  PROVE  FileInv' /\ ReplaysOneCapture' /\ FixtureSurvives'
<1>1. FileInv' /\ ReplaysOneCapture'
  BY DEF FileInv, LinesOf, ReplaysOneCapture
<1>2. crashes \in Nat
  BY ConstantsAssumption DEF ControlInv, TypeOK
<1>3. reported = Unreported => crashes' > 0
  BY <1>2 DEF FixtureSurvives
<1>. QED
  BY <1>1, <1>3 DEF FixtureSurvives

\* A line that is reported is not torn.
LEMMA LinesAre ==
  ASSUME NEW c \in Nat, NEW e \in Exchanges, NEW n \in Nat
  PROVE  /\ <<c, e, n>> \in Messages /\ <<c, e, n>> # Torn
         /\ <<c, e, n>>[1] = c /\ <<c, e, n>>[2] = e /\ <<c, e, n>>[3] = n
BY ConstantsAssumption DEF Messages

\* The current candidate gave nothing.
LEMMA GiveUpStep ==
  ASSUME RecorderInv, phase = "capturing", GiveUpCandidate,
         UNCHANGED <<call, limit, replayed, crashes>>,
         captured' \in Seq(Messages), lastError' \in BOOLEAN,
         limit # NoLimit => Len(captured') <= limit
  PROVE  RecorderInv'
<1>0. ControlInv /\ TypeOK /\ FileInv /\ ReplaysOneCapture /\ FixtureSurvives
  BY DEF RecorderInv, ControlInv
<1>1. /\ todo' = Tail(todo) /\ UNCHANGED <<fixture, reported>>
      /\ phase' \in {"trying", "idle"}
      /\ phase' = "trying" => todo' # <<>>
      /\ outcome' \in {outcome, "last_error", "no_messages"}
  BY DEF GiveUpCandidate
<1>2. todo' \in Seq(Exchanges)
  BY <1>0, <1>1 DEF ControlInv, TypeOK
<1>3. ControlInv'
  BY <1>0, <1>1, <1>2 DEF ControlInv, TypeOK
<1>4. CaptureInv'
  BY <1>1 DEF CaptureInv
<1>5. FileInv' /\ ReplaysOneCapture' /\ FixtureSurvives'
  BY <1>0, <1>1, FileKept, ConstantsAssumption DEF TypeOK
<1>. QED
  BY <1>3, <1>4, <1>5 DEF RecorderInv

\* The capture is over.
LEMMA ConcludeStep ==
  ASSUME RecorderInv, phase = "capturing", Conclude,
         UNCHANGED <<call, limit, replayed, crashes>>,
         captured' \in Seq(Messages),
         limit # NoLimit => Len(captured') <= limit,
         \A i \in 1..Len(captured') : captured'[i] = <<call, Head(todo), i - 1>>
  PROVE  RecorderInv'
<1>0. ControlInv /\ TypeOK /\ ReplaysOneCapture /\ lastError' = lastError
  BY DEF RecorderInv, ControlInv, Conclude
<1>1. CASE Usable(captured')
  <2>1. /\ phase' = "writing" /\ fixture' = <<>> /\ reported' = Unreported
        /\ todo' = todo /\ outcome' = outcome /\ captured' # <<>>
    BY <1>1 DEF Conclude, Usable
  <2>2. fixture' \in Seq(Messages \cup {Torn}) /\ Len(fixture') = 0
    BY <2>1
  <2>3. ControlInv'
    BY <1>0, <2>1, <2>2 DEF ControlInv, TypeOK
  <2>4. CaptureInv'
    BY <2>1 DEF CaptureInv
  <2>5. FileInv'
    <3>1. call \in Nat /\ Head(todo) \in Exchanges
      BY <1>0, ConstantsAssumption DEF ControlInv, TypeOK
    <3>2. LinesOf(fixture', call, Head(todo))
      BY <2>2 DEF LinesOf
    <3>3. Len(captured') \in Nat
      BY LenProperties
    <3>. QED
      BY <2>1, <2>2, <3>1, <3>2, <3>3 DEF FileInv
  <2>6. ReplaysOneCapture' /\ FixtureSurvives'
    BY <1>0, <2>1 DEF ReplaysOneCapture, FixtureSurvives
  <2>. QED
    BY <2>3, <2>4, <2>5, <2>6 DEF RecorderInv
<1>2. CASE ~Usable(captured')
  BY <1>0, <1>2, GiveUpStep DEF Conclude, TypeOK
<1>. QED
  BY <1>1, <1>2

-----------------------------------------------------------------------------
(* The steps.                                                              *)

LEMMA StartStep == RecorderInv /\ Start => RecorderInv'
<1> SUFFICES ASSUME RecorderInv, Start PROVE RecorderInv'
  OBVIOUS
<1>0. ControlInv /\ TypeOK /\ FileInv /\ ReplaysOneCapture /\ FixtureSurvives
  BY DEF RecorderInv, ControlInv
<1>1. /\ phase = "idle" /\ phase' = "trying" /\ call' \in 0..MaxCalls
      /\ todo' \in Candidates /\ limit' \in Limits /\ lastError' = FALSE
      /\ captured' = <<>>
      /\ UNCHANGED <<fixture, replayed, outcome, reported, crashes>>
  BY <1>0, ConstantsAssumption DEF Start, fileVars, TypeOK
<1>2. Exchanges # {}
  BY <1>0 DEF FileInv
<1>3. todo' \in Seq(Exchanges) /\ todo' # <<>>
  BY <1>1, <1>2, CandidatesAre
<1>4. ControlInv'
  <2>1. captured' \in Seq(Messages) /\ Len(captured') = 0
    BY <1>1
  <2>2. limit' # NoLimit => limit' \in Nat /\ 0 <= limit'
    BY <1>1, ConstantsAssumption
  <2>3. limit' # NoLimit => Len(captured') <= limit'
    BY <2>1, <2>2
  <2>4. TypeOK'
    BY <1>0, <1>1, <1>3, <2>3 DEF TypeOK
  <2>. QED
    BY <1>0, <1>1, <1>3, <2>1, <2>4 DEF ControlInv
<1>5. CaptureInv'
  BY <1>1 DEF CaptureInv
<1>6. FileInv' /\ ReplaysOneCapture' /\ FixtureSurvives'
  BY <1>0, <1>1, FileKept, ConstantsAssumption DEF TypeOK
<1>. QED
  BY <1>4, <1>5, <1>6 DEF RecorderInv

LEMMA TryStep == RecorderInv /\ Try => RecorderInv'
<1> SUFFICES ASSUME RecorderInv, Try PROVE RecorderInv'
  OBVIOUS
<1>0. ControlInv /\ TypeOK /\ FileInv /\ ReplaysOneCapture /\ FixtureSurvives
  BY DEF RecorderInv, ControlInv
<1>1. /\ phase = "trying" /\ phase' = "capturing" /\ captured' = <<>>
      /\ UNCHANGED <<call, todo, limit, lastError, fixture, replayed, outcome,
                     reported, crashes>>
  BY DEF Try, fileVars
<1>2. captured' \in Seq(Messages) /\ Len(captured') = 0
  BY <1>1
<1>3. limit # NoLimit => limit \in Nat \ {0}
  BY <1>0, ConstantsAssumption DEF ControlInv
<1>4. ControlInv' /\ CaptureInv'
  BY <1>0, <1>1, <1>2, <1>3 DEF ControlInv, TypeOK, CaptureInv
<1>5. FileInv' /\ ReplaysOneCapture' /\ FixtureSurvives'
  BY <1>0, <1>1, FileKept, ConstantsAssumption DEF TypeOK
<1>. QED
  BY <1>4, <1>5 DEF RecorderInv

LEMMA ReceiveStep == RecorderInv /\ Receive => RecorderInv'
<1> SUFFICES ASSUME RecorderInv, Receive PROVE RecorderInv'
  OBVIOUS
<1> DEFINE new == <<call, Head(todo), Len(captured)>>
<1>0. /\ ControlInv /\ TypeOK /\ CaptureInv /\ FileInv /\ ReplaysOneCapture
      /\ FixtureSurvives /\ phase = "capturing"
      /\ UNCHANGED <<call, limit, replayed, crashes>>
  BY DEF RecorderInv, ControlInv, Receive
<1>1. captured' = Append(captured, new)
  BY DEF Receive
<1>2. new \in Messages
  BY <1>0, LenProperties, ConstantsAssumption DEF ControlInv, TypeOK, Messages
<1>3. /\ captured' \in Seq(Messages) /\ Len(captured') = Len(captured) + 1
      /\ Len(captured) \in Nat
      /\ \A i \in 1..Len(captured) : captured'[i] = captured[i]
      /\ captured'[Len(captured) + 1] = new
  BY <1>0, <1>1, <1>2, AppendProperties, LenProperties DEF ControlInv
<1>4. \A i \in 1..Len(captured') : captured'[i] = <<call, Head(todo), i - 1>>
  <2>1. ASSUME NEW i \in 1..Len(captured) PROVE captured'[i] = <<call, Head(todo), i - 1>>
    BY <1>0, <1>3, <2>1 DEF CaptureInv
  <2>2. captured'[Len(captured) + 1] = <<call, Head(todo), (Len(captured) + 1) - 1>>
    BY <1>3
  <2>3. \A i \in 1..Len(captured') : i \in 1..Len(captured) \/ i = Len(captured) + 1
    BY <1>3
  <2>. QED
    BY <2>1, <2>2, <2>3
<1>5. limit # NoLimit => limit \in Nat /\ Len(captured') <= limit
  BY <1>0, <1>3, ConstantsAssumption DEF CaptureInv, ControlInv
<1>6. CASE LimitReached(Len(captured'))
  BY <1>0, <1>3, <1>4, <1>5, <1>6, ConcludeStep DEF Receive
<1>7. CASE ~LimitReached(Len(captured'))
  <2>1. UNCHANGED <<phase, todo, lastError, outcome, fixture, reported>>
    BY <1>7 DEF Receive
  <2>2. limit # NoLimit => Len(captured') < limit
    BY <1>3, <1>5, <1>7 DEF LimitReached
  <2>3. ControlInv'
    BY <1>0, <1>3, <1>5, <2>1 DEF ControlInv, TypeOK
  <2>4. CaptureInv'
    BY <1>0, <1>4, <2>1, <2>2 DEF CaptureInv
  <2>5. FileInv' /\ ReplaysOneCapture' /\ FixtureSurvives'
    BY <1>0, <2>1, FileKept, ConstantsAssumption DEF TypeOK
  <2>. QED
    BY <2>3, <2>4, <2>5 DEF RecorderInv
<1>. QED
  BY <1>6, <1>7

LEMMA CaptureEndsStep == RecorderInv /\ CaptureEnds => RecorderInv'
<1> SUFFICES ASSUME RecorderInv, CaptureEnds PROVE RecorderInv'
  OBVIOUS
<1>1. /\ ControlInv /\ CaptureInv /\ phase = "capturing" /\ captured' = captured
      /\ UNCHANGED <<call, limit, replayed, crashes>> /\ Conclude
  BY DEF RecorderInv, CaptureEnds
<1>2. limit # NoLimit => Len(captured') <= limit
  BY <1>1, LenProperties, ConstantsAssumption DEF CaptureInv, ControlInv
<1>. QED
  BY <1>1, <1>2, ConcludeStep DEF ControlInv, CaptureInv

LEMMA CandidateFailsStep == RecorderInv /\ CandidateFails => RecorderInv'
<1> SUFFICES ASSUME RecorderInv, CandidateFails PROVE RecorderInv'
  OBVIOUS
<1>1. /\ ControlInv /\ TypeOK /\ phase = "capturing" /\ GiveUpCandidate
      /\ UNCHANGED <<call, limit, captured, replayed, crashes>> /\ lastError' = TRUE
  BY DEF RecorderInv, ControlInv, CandidateFails
<1>. QED
  BY <1>1, GiveUpStep DEF ControlInv, TypeOK

LEMMA WriteLineStep == RecorderInv /\ WriteLine => RecorderInv'
<1> SUFFICES ASSUME RecorderInv, WriteLine PROVE RecorderInv'
  OBVIOUS
<1> DEFINE new == captured[Len(fixture) + 1]
<1>0. /\ ControlInv /\ TypeOK /\ CaptureInv /\ FileInv /\ ReplaysOneCapture
      /\ FixtureSurvives /\ phase = "writing" /\ Len(fixture) < Len(captured)
      /\ fixture' = Append(fixture, new)
      /\ UNCHANGED <<call, phase, todo, limit, captured, lastError, replayed, outcome,
                     reported, crashes>>
  BY DEF RecorderInv, ControlInv, WriteLine
<1>1. Len(fixture) \in Nat /\ Len(captured) \in Nat /\ Len(fixture) + 1 \in 1..Len(captured)
  BY <1>0, LenProperties DEF ControlInv
<1>2. new \in Messages
  BY <1>0, <1>1 DEF ControlInv
<1>3. /\ fixture' \in Seq(Messages \cup {Torn}) /\ Len(fixture') = Len(fixture) + 1
      /\ \A i \in 1..Len(fixture) : fixture'[i] = fixture[i]
      /\ fixture'[Len(fixture) + 1] = new
  BY <1>0, <1>2, AppendProperties DEF ControlInv
<1>4. \A i \in 1..Len(fixture') : fixture'[i] = captured[i]
  <2>1. \A i \in 1..Len(fixture') : i \in 1..Len(fixture) \/ i = Len(fixture) + 1
    BY <1>1, <1>3
  <2>. QED
    BY <1>0, <1>3, <2>1 DEF FileInv
<1>5. FileInv'
  <2>1. call \in Nat /\ Head(todo) \in Exchanges
    BY <1>0, ConstantsAssumption DEF ControlInv, TypeOK
  <2>2. LinesOf(fixture', call, Head(todo))
    <3>1. \A i \in 1..Len(fixture') : i \in 1..Len(captured)
      BY <1>1, <1>3
    <3>. QED
      BY <1>0, <1>4, <3>1 DEF LinesOf, CaptureInv
  <2>. QED
    BY <1>0, <1>1, <1>3, <1>4, <2>1, <2>2 DEF FileInv
<1>6. ControlInv' /\ CaptureInv'
  BY <1>0, <1>3 DEF ControlInv, TypeOK, CaptureInv
<1>7. ReplaysOneCapture' /\ FixtureSurvives'
  BY <1>0 DEF ReplaysOneCapture, FixtureSurvives, FileInv
<1>. QED
  BY <1>5, <1>6, <1>7 DEF RecorderInv

LEMMA WriteEndsStep == RecorderInv /\ WriteEnds => RecorderInv'
<1> SUFFICES ASSUME RecorderInv, WriteEnds PROVE RecorderInv'
  OBVIOUS
<1>0. /\ ControlInv /\ TypeOK /\ CaptureInv /\ FileInv /\ ReplaysOneCapture
      /\ phase = "writing" /\ Len(fixture) = Len(captured) /\ phase' = "idle"
      /\ outcome' = "returned"
      /\ reported' = [exchange |-> Head(todo), count |-> Len(captured)]
      /\ UNCHANGED <<call, todo, limit, captured, lastError, fixture, replayed, crashes>>
  BY DEF RecorderInv, ControlInv, WriteEnds, fileVars
<1>1. ControlInv' /\ CaptureInv'
  BY <1>0 DEF ControlInv, TypeOK, CaptureInv
<1>2. FileInv' /\ ReplaysOneCapture'
  BY <1>0 DEF FileInv, LinesOf, ReplaysOneCapture
<1>3. FixtureSurvives'
  <2>1. Len(captured) \in Nat \ {0} /\ call \in Nat /\ Head(todo) \in Exchanges
    BY <1>0, EmptySeq, LenProperties, ConstantsAssumption
    DEF ControlInv, FileInv, TypeOK
  <2>2. ASSUME NEW i \in 1..Len(fixture)
        PROVE  fixture[i] # Torn /\ fixture[i][2] = Head(todo)
    <3>1. fixture[i] = <<call, Head(todo), i - 1>> /\ i - 1 \in Nat
      BY <1>0, <2>1, <2>2 DEF FileInv, CaptureInv
    <3>. QED
      BY <2>1, <3>1, LinesAre
  <2>3. DOMAIN fixture = 1..Len(fixture)
    BY <1>0, LenProperties DEF ControlInv
  <2>. QED
    BY <1>0, <2>1, <2>2, <2>3 DEF FixtureSurvives, Unreported
<1>. QED
  BY <1>1, <1>2, <1>3 DEF RecorderInv

LEMMA CrashStep == RecorderInv /\ Crash => RecorderInv'
<1> SUFFICES ASSUME RecorderInv, Crash PROVE RecorderInv'
  OBVIOUS
<1>0. /\ ControlInv /\ TypeOK /\ FileInv /\ ReplaysOneCapture /\ FixtureSurvives
      /\ phase # "idle" /\ phase' = "idle" /\ outcome' = "crashed"
      /\ crashes' = crashes + 1 /\ crashes \in Nat /\ crashes' \in 0..MaxCrashes
      /\ UNCHANGED <<call, todo, limit, captured, lastError, replayed, reported>>
  BY ConstantsAssumption DEF RecorderInv, ControlInv, TypeOK, Crash
<1>1. CaptureInv'
  BY <1>0 DEF CaptureInv
<1>2. CASE UNCHANGED fixture
  <2>1. ControlInv'
    BY <1>0, <1>2 DEF ControlInv, TypeOK
  <2>2. FileInv' /\ ReplaysOneCapture' /\ FixtureSurvives'
    BY <1>0, <1>2, FileKept
  <2>. QED
    BY <1>1, <2>1, <2>2 DEF RecorderInv
<1>3. CASE phase = "writing" /\ fixture' = Append(fixture, Torn)
  <2>1. /\ fixture' \in Seq(Messages \cup {Torn}) /\ Len(fixture') = Len(fixture) + 1
        /\ \A i \in 1..Len(fixture) : fixture'[i] = fixture[i]
        /\ fixture'[Len(fixture) + 1] = Torn /\ Len(fixture) \in Nat
    BY <1>0, <1>3, AppendProperties, LenProperties DEF ControlInv
  <2>2. ControlInv'
    BY <1>0, <2>1 DEF ControlInv, TypeOK
  <2>3. FileInv'
    <3>1. call \in Nat /\ Head(todo) \in Exchanges
      BY <1>0, ConstantsAssumption DEF ControlInv, TypeOK
    <3>2. LinesOf(fixture', call, Head(todo))
      <4>1. \A i \in 1..Len(fixture') : i \in 1..Len(fixture) \/ i = Len(fixture')
        BY <2>1
      <4>2. \A i \in 1..Len(fixture) : fixture[i] = <<call, Head(todo), i - 1>>
        <5>1. Len(captured) \in Nat /\ Len(fixture) <= Len(captured)
          BY <1>0, <1>3, LenProperties DEF FileInv, ControlInv
        <5>2. \A i \in 1..Len(fixture) : i \in 1..Len(captured)
          BY <2>1, <5>1
        <5>. QED
          BY <1>0, <1>3, <5>2 DEF FileInv, CaptureInv, RecorderInv
      <4>. QED
        BY <2>1, <4>1, <4>2 DEF LinesOf
    <3>. QED
      BY <1>0, <3>1, <3>2 DEF FileInv
  <2>4. ReplaysOneCapture' /\ FixtureSurvives'
    BY <1>0, <1>3 DEF ReplaysOneCapture, FixtureSurvives, FileInv
  <2>. QED
    BY <1>1, <2>2, <2>3, <2>4 DEF RecorderInv
<1>. QED
  BY <1>2, <1>3 DEF Crash

LEMMA ReplayStep == RecorderInv /\ Replay => RecorderInv'
<1> SUFFICES ASSUME RecorderInv, Replay PROVE RecorderInv'
  OBVIOUS
<1>0. /\ ControlInv /\ TypeOK /\ CaptureInv /\ FileInv /\ FixtureSurvives
      /\ phase = "idle"
      /\ UNCHANGED <<call, phase, todo, limit, captured, lastError, fixture, outcome,
                     reported, crashes>>
  BY DEF RecorderInv, ControlInv, Replay
<1>1. PICK n \in 0..Len(fixture) :
        /\ \A i \in 1..n : fixture[i] # Torn
        /\ replayed' = [lines |-> SubSeq(fixture, 1, n), raised |-> n < Len(fixture)]
  BY DEF Replay
<1>2. PICK c \in Nat, e \in Exchanges : LinesOf(fixture, c, e)
  BY <1>0 DEF FileInv
<1>3. Len(fixture) \in Nat /\ \A i \in 1..n : fixture[i] \in Messages \cup {Torn}
  BY <1>0, LenProperties DEF ControlInv
<1>4. /\ replayed'.lines \in Seq(Messages \cup {Torn}) /\ Len(replayed'.lines) = n
      /\ \A i \in 1..n : replayed'.lines[i] = fixture[i]
  BY <1>1, <1>3, SubSeqProperties
<1>5. \A i \in 1..n : replayed'.lines[i] = <<c, e, i - 1>>
  BY <1>1, <1>2, <1>3, <1>4 DEF LinesOf
<1>6. DOMAIN replayed'.lines = 1..n
  BY <1>4, LenProperties
<1>7. ReplaysOneCapture'
  <2>1. ASSUME NEW i \in 1..n
        PROVE  LET line == replayed'.lines[i]
               IN /\ line[1] = replayed'.lines[1][1]
                  /\ line[2] = replayed'.lines[1][2]
                  /\ line[3] = i - 1
    <3>1. 1 \in 1..n /\ i - 1 \in Nat /\ 1 - 1 \in Nat
      BY <1>3, <2>1
    <3>2. replayed'.lines[i] = <<c, e, i - 1>> /\ replayed'.lines[1] = <<c, e, 1 - 1>>
      BY <1>5, <2>1, <3>1
    <3>. QED
      BY <3>1, <3>2, LinesAre
  <2>. QED
    BY <1>6, <2>1 DEF ReplaysOneCapture
<1>8. ControlInv' /\ CaptureInv' /\ FileInv' /\ FixtureSurvives'
  BY <1>0 DEF ControlInv, TypeOK, CaptureInv, FileInv, LinesOf, FixtureSurvives
<1>. QED
  BY <1>7, <1>8 DEF RecorderInv

LEMMA InitInv == Init => RecorderInv
<1> SUFFICES ASSUME Init PROVE RecorderInv
  OBVIOUS
<1>1. PICK e \in Exchanges :
        fixture = <<<<0, e, 0>>>> /\ reported = [exchange |-> e, count |-> 1]
  BY DEF Init
<1>2. /\ call = 0 /\ phase = "idle" /\ todo = <<>> /\ limit = NoLimit
      /\ captured = <<>> /\ lastError = FALSE /\ outcome = "returned"
      /\ replayed = [lines |-> <<>>, raised |-> FALSE] /\ crashes = 0
  BY DEF Init
<1>3. <<0, e, 0>> \in Messages /\ <<0, e, 0>> # Torn /\ <<0, e, 0>>[2] = e
  BY LinesAre
<1>4. fixture \in Seq(Messages \cup {Torn}) /\ Len(fixture) = 1 /\ fixture[1] = <<0, e, 0>>
  BY <1>1, <1>3
<1>5. ControlInv /\ CaptureInv
  <2>1. <<>> \in Seq(Exchanges) /\ <<>> \in Seq(Messages)
    OBVIOUS
  <2>2. TypeOK
    <3>1. 0 \in 0..MaxCalls /\ 0 \in 0..MaxCrashes
      BY ConstantsAssumption
    <3>2. /\ call \in 0..MaxCalls /\ crashes \in 0..MaxCrashes /\ lastError \in BOOLEAN
          /\ phase \in {"idle", "trying", "capturing", "writing"}
          /\ outcome \in {"returned", "last_error", "no_messages", "crashed"}
      BY <1>2, <3>1
    <3>. QED
      BY <1>2, <3>2, Zenon DEF TypeOK
  <2>3. ControlInv
    BY <1>2, <1>4, <2>1, <2>2 DEF ControlInv
  <2>. QED
    BY <1>2, <2>3 DEF CaptureInv
<1>6. FileInv
  <2>1. LinesOf(fixture, 0, e)
    BY <1>4 DEF LinesOf
  <2>. QED
    BY <1>2, <2>1 DEF FileInv
<1>7. ReplaysOneCapture
  BY <1>2 DEF ReplaysOneCapture
<1>8. FixtureSurvives
  <2>1. DOMAIN fixture = 1..1
    BY <1>4
  <2>. QED
    BY <1>1, <1>3, <1>4, <2>1 DEF FixtureSurvives, Unreported
<1>. QED
  BY <1>5, <1>6, <1>7, <1>8 DEF RecorderInv

LEMMA StutterStep == RecorderInv /\ UNCHANGED vars => RecorderInv'
<1> SUFFICES ASSUME RecorderInv, UNCHANGED vars PROVE RecorderInv'
  OBVIOUS
<1>1. UNCHANGED <<call, phase, todo, limit, captured, lastError, fixture, replayed,
                  outcome, reported, crashes>>
  BY DEF vars, fileVars
<1>2. ControlInv' /\ CaptureInv'
  BY <1>1 DEF RecorderInv, ControlInv, TypeOK, CaptureInv
<1>3. FileInv' /\ ReplaysOneCapture' /\ FixtureSurvives'
  BY <1>1 DEF RecorderInv, FileInv, LinesOf, ReplaysOneCapture, FixtureSurvives
<1>. QED
  BY <1>2, <1>3 DEF RecorderInv

-----------------------------------------------------------------------------
(* The theorems.                                                           *)

\* The file is the beginning of one recording, and while it is written the
\* beginning of the current candidate's capture (record.py:36-62).
THEOREM RecorderInvariant == Spec => []RecorderInv
<1>1. RecorderInv /\ [Next]_vars => RecorderInv'
  BY StartStep, TryStep, ReceiveStep, CaptureEndsStep, CandidateFailsStep, WriteLineStep,
     WriteEndsStep, CrashStep, ReplayStep, StutterStep DEF Next, Steps
<1>. QED
  BY <1>1, InitInv, PTL DEF Spec

\* What a call captures never exceeds its limit, until the next call starts
\* (record.py:49).
THEOREM RecorderTypes == Spec => []TypeOK
BY RecorderInvariant, PTL DEF RecorderInv, ControlInv

\* A replay hands the client the beginning of one recording, whatever was cut short
\* (recording.py:42, record.py:36-48).
THEOREM ReplaysAreOneCapture == Spec => []ReplaysOneCapture
BY RecorderInvariant, PTL DEF RecorderInv

\* What a call reports of the file is what is in it, and only a crash leaves a file
\* nothing is reported of (record.py:65-95).
THEOREM FixturesSurvive == Spec => []FixtureSurvives
BY RecorderInvariant, PTL DEF RecorderInv
=============================================================================
