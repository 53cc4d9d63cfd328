SPECIFICATION FairSpec
CONSTANTS
  Request = {r1, r2}
  AnalysisId = {a1, a2}
  m1 = m1
  Match = {m1, m2}
  unknown = unknown
  Execution = {done, failed, unknown}
  ExecutionMatch <- MCExecutionMatch
  Completed = {done}
  NoMatch = NoMatch
  NoExecution = NoExecution
  MaxClock = 1
  MaxEventId = 4
INVARIANTS
  TypeOK
  LegalHistory
  SnapshotCertifiesHistory
  ApprovalShownLast
PROPERTIES
  LedgerSpec
  RequestsEnd
