------------------------- MODULE MCAnalysisWorkflow -------------------------
(* The executions a client may name: a completed one and a failed one of the   *)
(* first match, and one that is not stored.  A draft of the second match has   *)
(* only executions of another match to offer.                                  *)
EXTENDS AnalysisWorkflow

CONSTANTS m1, unknown

MCExecutionMatch == [x \in Execution |-> IF x = unknown THEN NoMatch ELSE m1]
=============================================================================
