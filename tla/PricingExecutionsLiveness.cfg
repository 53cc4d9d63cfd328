SPECIFICATION FairSpec
CONSTANTS
  Request = {r1, r2}
  Target = {t1}
  early = early
  late = late
  away = away
  Match = {early, late, away}
  HomeSeries <- MCHomeSeries
  AwaySeries <- MCAwaySeries
  SampleSize = 1
  Key = {k1}
  NoKey = NoKey
  Imported <- MCImported
  Goals = {0}
  MaxExecution = 2
  MaxAnswer = 2
  MaxReproduction = 1
  MaxVersion = 1
PROPERTIES
  RequestsEnd
