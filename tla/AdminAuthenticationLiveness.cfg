SPECIFICATION FairSpec
CONSTANTS
  Request = {r1, r2}
  Session = {s1, s2}
  Password = {p1, p2}
  FailureLimit = 1
  LockDuration = 1
  IdleTimeout = 1
  AbsoluteTimeout = 1
  Null = Null
  MaxClock = 1
  MaxHash = 2
PROPERTY RequestsEnd
