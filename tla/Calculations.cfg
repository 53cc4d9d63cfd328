SPECIFICATION Spec
CONSTANTS
  Scorers <- MCScorers
  MarketRequests <- MCMarketRequests
  SeriesChoices <- MCSeriesChoices
  WeightChoices <- MCWeightChoices
  CandidateChoices <- MCCandidateChoices
  Fixtures <- MCFixtures
  Corrections <- MCCorrections
  Requests <- MCRequests
  Targets = {2, 3}
  SampleSize = 2
  MaxMatches = 4
  MaxWrites = 4
  NoValue = NoValue
  Unrevised = Unrevised
  NoSeason = NoSeason
  Anyone = Anyone
  NoMatch = NoMatch
  Idle = Idle
INVARIANTS
  MainLineIsFair
  MarketsAgree
  SidesAreTreatedAlike
  PairsShareOneSelection
  MethodsAgree
PROPERTIES
  SamplesLookBack
