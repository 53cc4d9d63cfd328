SPECIFICATION Spec
CONSTANTS
  Request = {r1, r2}
  Target = {t1}
  early = early
  late = late
  away = away
  Match = {early, late, away}
  HomeSeries <- MCHomeSeries
  AwaySeries <- MCAwaySeries
  SampleSize = 1
  Key = {k1}
  NoKey = NoKey
  Imported <- MCImported
  Goals = {0, 1}
  MaxExecution = 2
  MaxAnswer = 2
  MaxReproduction = 1
  MaxVersion = 2
SYMMETRY RequestSymmetry
INVARIANTS
  TypeOK
  ReproductionsAgree
  CompleteSampleIsNotBlocked
PROPERTIES
  StoreSpec
