------------------------ MODULE MCStatisticRevisions ------------------------
(* A match with statistics and one, created by hand, without; one CHECK        *)
(* constraint between a half-time and a full-time statistic.                   *)
EXTENDS StatisticRevisions

CONSTANTS half, full

MCAtMost == {<<half, full>>}
MCImported == [m \in WithStatistics |-> [f \in Field |-> IF f = half THEN 0 ELSE 1]]
=============================================================================
