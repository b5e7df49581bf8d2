\* A refusal names the record without its fields; two edits and a write of another
\* device, and nothing fails.
CONSTANTS
  r1 = r1
  r2 = r2
  l1 = l1
  Records = {r1, r2}
  LocalIds = {l1}
  First = r1
  NoId = NoId
  RaceReplies = {"bare"}
  ListsInDelta = TRUE
  MaxEdits = 2
  MaxOthers = 1
  MaxErases = 0
  MaxListEdits = 0
  MaxFaults = 0
  MaxEvents = 3
SPECIFICATION Spec
PROPERTIES
  NoSilentOverwrite
