----------------------- MODULE MCConfigurationLedger -----------------------
(* Two matches of one competition, so that a competition revision reaches both. *)
EXTENDS ConfigurationLedger

CONSTANT c1

MCCompetitionOf == [m \in Match |-> c1]
=============================================================================
