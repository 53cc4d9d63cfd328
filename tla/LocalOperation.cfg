SPECIFICATION LocalSpec
CONSTANTS
  Request = {r1, r2}
  Snapshot = {s1}
  MaxRenderer = 2
  Daily = daily
  Weekly = weekly
  Monthly = monthly
  Limit <- MCLimit
  Sundays = {}
  FirstDays = {1}
  MaxBackup = 1
SYMMETRY MCSymmetry
INVARIANTS
  ArtifactsCanBeDownloaded
  BundlesAreConsistent
  ServingIsKnown
PROPERTY
  AnswerIsStored
