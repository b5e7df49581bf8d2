\* Any four of: three edits, a write of another device to reminders or lists, a record
\* removed for good, one fault.  A refused write is answered in every shape.
CONSTANTS
  r1 = r1
  r2 = r2
  r3 = r3
  l1 = l1
  Records = {r1, r2, r3}
  LocalIds = {l1}
  First = r1
  NoId = NoId
  RaceReplies = {"record", "bare", "raw"}
  ListsInDelta = TRUE
  MaxEdits = 3
  MaxEvents = 4
  MaxOthers = 1
  MaxErases = 1
  MaxListEdits = 1
  MaxFaults = 1
SPECIFICATION Spec
SYMMETRY Symmetry
INVARIANTS
  TypeOK
  DirtyMeansPending
  ReadYourWrites
  NoLostEdit
  CursorSound
  OneRecordPerCreate
  ConflictIsGenuine
PROPERTIES
  NoBlindOverwrite
