\* Tickets: three tasks in Sync at once, one failure.  C#: two edits, a write of
\* another device to reminders or lists, one failure.  Rust: two edits and a record
\* removed for good.  No symmetry: the run checks liveness.
CONSTANTS
  c1 = c1
  c2 = c2
  c3 = c3
  r1 = r1
  r2 = r2
  r3 = r3
  l1 = l1
  Callers = {c1, c2, c3}
  Nobody = Nobody
  Batch = 1
  MaxRequests = 2
  MaxFaults = 1
  Records = {r1, r2, r3}
  LocalIds = {l1}
  First = r1
  NoId = NoId
  MaxEdits = 2
  MaxOthers = 1
  MaxListEdits = 1
  MaxEvents = 3
  Calls = {c1}
  MaxErases = 1
  RustRecords = {r1, r2}
SPECIFICATION LiveSpec
INVARIANTS
  TypeOK
  ServedOnReturn
  FullNotForgotten
PROPERTIES
  EveryCallEnds
  EditsAreUploaded
  Converges
  DrainsOrStrands
\* Nobody has to call Sync: with all calls made and answered the engine rests.
CHECK_DEADLOCK FALSE
