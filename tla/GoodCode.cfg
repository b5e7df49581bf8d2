\* Two Apple IDs, one retry of the restore, any answers of Apple.
CONSTANTS
  a1 = a1
  a2 = a2
  Accounts = {a1, a2}
  NoAccount = NoAccount
  MaxRetries = 1
  Lossy = FALSE
  Unasked = TRUE
  Apples <- AnyApple
SPECIFICATION Spec
SYMMETRY Symmetry
INVARIANTS
  GoodCodeSignsIn
