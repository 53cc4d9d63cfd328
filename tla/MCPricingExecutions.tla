------------------------ MODULE MCPricingExecutions ------------------------
(* One season of three matches before the target: two for its home team, of *)
(* which the earlier has statistics, and one for its away team, without.    *)
EXTENDS PricingExecutions, TLC

CONSTANTS early, late, away

MCHomeSeries == [t \in Target |-> <<late, early>>]
MCAwaySeries == [t \in Target |-> <<away>>]
MCImported == [m \in {early} |-> 0]

RequestSymmetry == Permutations(Request)
=============================================================================
