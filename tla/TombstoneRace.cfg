\* A record is removed for good while its reminder is edited.
CONSTANTS
  r1 = r1
  r2 = r2
  l1 = l1
  Records = {r1, r2}
  LocalIds = {l1}
  First = r1
  NoId = NoId
  RaceReplies = {"record"}
  ListsInDelta = TRUE
  MaxEdits = 2
  MaxOthers = 0
  MaxErases = 1
  MaxListEdits = 0
  MaxFaults = 0
  MaxEvents = 3
SPECIFICATION Spec
INVARIANTS
  PendingIsDirty
