----------------------------- MODULE WindowFeed -----------------------------
(***************************************************************************)
(* What a consumer of metrics.windowed may rely on: .final() results are   *)
(* write-once.  A window has no result, or one that is never changed or    *)
(* taken back, however often it is published again.  Once the processor    *)
(* has lost state the feed may contradict itself, but still takes nothing  *)
(* back.                                                                   *)
(***************************************************************************)
CONSTANT Windows

VARIABLES
  results,   \* the different results published for each window
  healthy    \* the processor never lost the state that belongs to its offsets

Init ==
  /\ results = [w \in Windows |-> {}]
  /\ healthy = TRUE

Unwritten(w) == results[w] = {}

\* A batch reports windows that had no result yet.
Report ==
  /\ healthy
  /\ \A w \in Windows :
       results'[w] # results[w] =>
         Unwritten(w) /\ \E v \in results'[w] : results'[w] = {v}
  /\ UNCHANGED healthy

Degrade ==
  /\ healthy' = FALSE
  /\ UNCHANGED results

ReportAnything ==
  /\ ~healthy
  /\ \A w \in Windows : results[w] \subseteq results'[w]
  /\ UNCHANGED healthy

Next == Report \/ Degrade \/ ReportAnything

Spec == Init /\ [][Next]_<<results, healthy>>
=============================================================================
