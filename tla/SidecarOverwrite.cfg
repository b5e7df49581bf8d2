\* A created reminder, edited while it is acknowledged, and another device.
CONSTANTS
  r1 = r1
  r2 = r2
  r3 = r3
  l1 = l1
  c1 = c1
  Records = {r1, r2, r3}
  LocalIds = {l1}
  First = r1
  NoId = NoId
  Calls = {c1}
  MaxEdits = 2
  MaxOthers = 1
  MaxErases = 0
  MaxWrites = 1
  MaxMishaps = 0
SPECIFICATION Spec
SYMMETRY Symmetry
PROPERTIES
  NoSilentOverwrite
