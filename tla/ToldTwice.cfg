\* One reminder that is renamed once, no edits and no crash.
CONSTANTS
  Reminders = {r1}
  LastTick = 3   Morning = 1  Stale = 1
  MaxEdits = 0   MaxRenames = 1  MaxCrashes = 0
SPECIFICATION Spec
INVARIANT ToldOnce
CHECK_DEADLOCK FALSE
