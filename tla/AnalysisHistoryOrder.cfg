SPECIFICATION Spec
CONSTANTS
  Request = {r1, r2}
  AnalysisId = {a1}
  m1 = m1
  Match = {m1}
  unknown = unknown
  Execution = {done}
  ExecutionMatch <- MCExecutionMatch
  Completed = {done}
  NoMatch = NoMatch
  NoExecution = NoExecution
  MaxClock = 1
  MaxEventId = 3
INVARIANT HistoryStartsWithCalculation
