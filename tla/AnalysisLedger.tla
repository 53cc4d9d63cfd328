--------------------------- MODULE AnalysisLedger ---------------------------
(***************************************************************************)
(* What the analysis workflow promises, as its readers see it: an analysis *)
(* moves draft -> calculated -> approved and never back, reviews accumulate *)
(* only in between, and the approval freezes, in the same step, the        *)
(* execution and every review there is.                                    *)
(***************************************************************************)
CONSTANTS AnalysisId, Execution

VARIABLES
  stage,    \* "absent", "draft", "calculated" or "approved"
  source,   \* the execution it was calculated from, in a set
  reviews,  \* the reviews recorded
  frozen    \* the snapshot: <<execution, reviews>>, in a set

vars == <<stage, source, reviews, frozen>>

Init ==
  /\ stage = [a \in AnalysisId |-> "absent"]
  /\ source = [a \in AnalysisId |-> {}]
  /\ reviews = [a \in AnalysisId |-> {}]
  /\ frozen = [a \in AnalysisId |-> {}]

Draft(a) ==
  /\ stage[a] = "absent"
  /\ stage' = [stage EXCEPT ![a] = "draft"]
  /\ UNCHANGED <<source, reviews, frozen>>

Calculate(a) ==
  /\ stage[a] = "draft"
  /\ stage' = [stage EXCEPT ![a] = "calculated"]
  /\ \E x \in Execution : source' = [source EXCEPT ![a] = {x}]
  /\ UNCHANGED <<reviews, frozen>>

\* A review is an event of its own: it adds exactly one element.
Review(a) ==
  /\ stage[a] = "calculated"
  /\ \E review \in reviews'[a] \ reviews[a] :
       reviews' = [reviews EXCEPT ![a] = @ \cup {review}]
  /\ UNCHANGED <<stage, source, frozen>>

Approve(a) ==
  /\ stage[a] = "calculated"
  /\ reviews[a] # {}
  /\ stage' = [stage EXCEPT ![a] = "approved"]
  /\ frozen' = [frozen EXCEPT ![a] = {<<x, reviews[a]>> : x \in source[a]}]
  /\ UNCHANGED <<source, reviews>>

Next == \E a \in AnalysisId : Draft(a) \/ Calculate(a) \/ Review(a) \/ Approve(a)

Spec == Init /\ [][Next]_vars
=============================================================================
