SPECIFICATION Spec
CONSTANTS
  Request = {r1, r2}
  gremio = gremio
  Gremio = Gremio
  inter = inter
  serieA = serieA
  serieB = serieB
  half = half
  full = full
  Text = {gremio, Gremio, inter, serieA, serieB}
  Normal <- MCNormal
  Label = {2026}
  Day = {1, 2}
  Field = {half, full}
  AtMost <- MCAtMost
  File <- MCFile
  Draft <- MCDraft
  Invalid = Invalid
INVARIANTS
  BatchAccountsForItsRows
  MatchesAreTraceable
PROPERTIES
  ImportIsIdempotent
  RequestsEnd
