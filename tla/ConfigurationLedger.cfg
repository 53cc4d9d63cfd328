SPECIFICATION Spec
CONSTANTS
  Request = {r1, r2}
  Parameter = {p1, p2}
  Match = {m1, m2}
  c1 = c1
  Competition = {c1}
  CompetitionOf <- MCCompetitionOf
  Unknown = unknown
  NoRevision = NoRevision
  MaxClock = 2
  MaxRevision = 3
INVARIANTS
  TypeOK
  ChainsAreLinear
  EffectiveIsNearestHead
PROPERTIES
  EffectiveNeverFallsBack
  ChainsSpec
