SPECIFICATION Spec
CONSTANTS
  Request = {r1, r2}
  Match = {m1}
  WithStatistics = {m1}
  half = half
  full = full
  Field = {half, full}
  AtMost <- MCAtMost
  Imported <- MCImported
  Missing = Missing
  MaxValue = 2
  MaxRevision = 2
INVARIANT PreviousIsReplaced
