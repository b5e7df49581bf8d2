\* Two edits, a write of another device or a record removed for good, and one
\* lost request or crash.
CONSTANTS
  r1 = r1
  r2 = r2
  r3 = r3
  l1 = l1
  c1 = c1
  Records = {r1, r2, r3}
  LocalIds = {l1}
  First = r1
  NoId = NoId
  Calls = {c1}
  MaxEdits = 2
  MaxOthers = 1
  MaxErases = 1
  MaxWrites = 1
  MaxMishaps = 1
SPECIFICATION Spec
SYMMETRY Symmetry
INVARIANTS
  TypeOK
  CursorSound
PROPERTIES
  NothingDropped
