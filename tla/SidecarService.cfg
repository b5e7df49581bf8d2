\* Two lines of any kind; streams of up to seven bytes; days of six units;
\* a reminder edited twice over three ticks.
CONSTANTS
  MaxLines = 2   MaxRecovered = 2
  MaxLine = 2    MaxStream = 7
  Zones <- SomeZones
  Floating = Floating
  DayLength = 6  ALL_DAY_HOUR = 2  GapSearch = 3  Horizon = 16
  Reminders = {r1}
  LastTick = 3   Morning = 1  Stale = 1
  MaxEdits = 2   MaxRenames = 1  MaxCrashes = 1
SPECIFICATION ServiceSpec
INVARIANTS
  TypesOK
  OneAnswerEach
  StatusShowsOutcome
  LinesAsSent
  SameClock
  AllDayStaysOnDay
  ToldOnceInTime
PROPERTIES
  QuickCallsAnswered
  DueSurvivesUpload
  EachIsTold
