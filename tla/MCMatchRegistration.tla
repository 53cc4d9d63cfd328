------------------------ MODULE MCMatchRegistration -------------------------
(* Two teams that meet home and away, one name written in two ways, and files   *)
(* with no line, with lines that are not valid or repeat another one, and with  *)
(* matches that another file or a client registers too.  The file that goes     *)
(* from one competition to the other and the draft that starts in the other can *)
(* wait for each other.                                                         *)
EXTENDS MatchRegistration

CONSTANTS gremio, Gremio, inter, serieA, serieB, half, full

MCNormal == [t \in Text |-> IF t = Gremio THEN gremio ELSE t]
MCAtMost == {<<half, full>>}

Stats(h, f) == [x \in Field |-> IF x = half THEN h ELSE f]
Row(d, h, a, s) ==
  [day |-> d, competition |-> serieA, season |-> 2026, home |-> h, away |-> a, statistics |-> s]

InSerieB(match) == [match EXCEPT !.competition = serieB]

MCFile ==
  { << >>,
    << Row(1, gremio, inter, Stats(0, 1)),
       [Row(Invalid, gremio, Gremio, Stats(Invalid, -1)) EXCEPT !.competition = Invalid],
       Row(2, inter, gremio, Stats(2, 1)),
       Row(1, Gremio, inter, Stats(1, 2)) >>,
    << Row(2, gremio, inter, Stats(1, 1)), Row(2, inter, gremio, Stats(1, 1)),
       InSerieB(Row(1, inter, Gremio, Stats(0, 0))) >> }

MCDraft ==
  { [day |-> 1, competition |-> serieA, season |-> 2026, home |-> Gremio, away |-> inter],
    [day |-> 1, competition |-> serieB, season |-> 2026, home |-> inter, away |-> gremio] }
=============================================================================
