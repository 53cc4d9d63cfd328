SPECIFICATION Spec
CONSTANTS
  Request = {r1, r2}
  Session = {s1, s2}
  Password = {p1, p2}
  FailureLimit = 2
  LockDuration = 2
  IdleTimeout = 2
  AbsoluteTimeout = 3
  Null = Null
  MaxClock = 3
  MaxHash = 2
SYMMETRY Symmetry
INVARIANTS
  TypeOK
  NoSessionOutlivesItsPassword
  GuessesAreLimited
  AcceptedSessionIsLive
PROPERTIES
  InvalidationIsFinal
