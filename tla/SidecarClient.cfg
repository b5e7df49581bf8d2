\* An account whose replies may get lost; sessions of one to four chunks where
\* three fit; three records, two tokens a loop and two writes of other devices; the
\* group of 11.
CONSTANTS
  s1 = s1
  s2 = s2
  s3 = s3
  s4 = s4
  Sessions = {s1, s2, s3, s4}
  Size <- Lengths
  MaxChunks = 3
  None = None
  Broken = Broken
  Accounts = {"a1"}
  NoAccount = "none"
  MaxRetries = 1
  Lossy = TRUE
  Unasked = FALSE
  Apples <- OneApple
  MaxName = 3
  MaxPages = 2
  MaxWrites = 2
  N = 11
  g = 2
  Hashes = {0, 1, 4, 7, 9}
  Secrets = {2, 5, 8}
SPECIFICATION ClientSpec
INVARIANTS
  TypesOK
  NothingMissed
  PagesBounded
  RightPasswordAgrees
PROPERTIES
  Implements
  RestoreSettles
