------------------------- MODULE MCSidecarService -------------------------
(***************************************************************************)
(* One instance for TLC of four parts of the Rust backend that share no    *)
(* state: the request loop, the reader of its lines, the due dates, and    *)
(* the notifications.  A behaviour exercises one part, chosen at the start;*)
(* the others rest in an initial state of theirs.  What is explored is the *)
(* sum of the four state spaces and never their product.                   *)
(***************************************************************************)
EXTENDS SidecarServer

CONSTANTS
  MaxLine, MaxStream,                                               \* LineReader
  Zones, Floating, DayLength, ALL_DAY_HOUR, GapSearch, Horizon,     \* DueDates
  Reminders, LastTick, Morning, Stale, MaxEdits, MaxRenames, MaxCrashes  \* Notifications

VARIABLES
  part,                                                      \* the part exercised
  stream, whole, available, buffer, too_long, out,           \* LineReader
  local_zone, due, allDay, dirty, record,                    \* DueDates
  row, now, enabled, poll, edits, renames, crashes, told, slipped, moved  \* Notifications

(* Days of 6 units.  Forward: the clock goes from 6, a midnight, to 7.      *)
(* Back: 13 is followed by 12, a midnight that comes twice.  Fixed: Tokyo.  *)
Forward == [switch |-> 5, before |-> 1, after |-> 2]
Back    == [switch |-> 11, before |-> 2, after |-> 1]
Fixed   == [switch |-> 0, before |-> 4, after |-> 4]
SomeZones == {Forward, Back, Fixed}

Reader == INSTANCE LineReader
Dates  == INSTANCE DueDates
Toasts == INSTANCE Notifications

ASSUME PartsAssumption == Reader!Bounds /\ Dates!Bounds /\ Toasts!Bounds

readerVars == <<stream, whole, available, buffer, too_long, out>>
datesVars  == <<local_zone, due, allDay, dirty, record>>
toastsVars == <<row, now, enabled, poll, edits, renames, crashes, told, slipped, moved>>
allVars    == <<part, vars, readerVars, datesVars, toastsVars>>

ServiceInit ==
  /\ part \in {"loop", "reader", "dates", "toasts"}
  /\ part = "loop" \/ (part # "loop" /\ starter = "over")
  /\ Init
  /\ part = "reader" \/ (part # "reader" /\ whole = <<>>)
  /\ Reader!Init
  /\ \/ part = "dates"
     \/ /\ part # "dates" /\ local_zone = Fixed
        /\ record = [due |-> 0, zone |-> Floating, allDay |-> FALSE]
  /\ Dates!Init
  /\ \/ part = "toasts"
     \/ /\ part # "toasts"
        /\ row = [r \in Reminders |-> [due |-> 1, all_day |-> TRUE, open |-> TRUE,
                                       notified |-> FALSE, name |-> 0]]
  /\ Toasts!Init

LoopPart   == part = "loop" /\ Next /\ UNCHANGED <<part, readerVars, datesVars, toastsVars>>
ReaderPart == part = "reader" /\ Reader!Next /\ UNCHANGED <<part, vars, datesVars, toastsVars>>
DatesPart  == part = "dates" /\ Dates!Next /\ UNCHANGED <<part, vars, readerVars, toastsVars>>
ToastsPart == part = "toasts" /\ Toasts!Next /\ UNCHANGED <<part, vars, readerVars, datesVars>>

ServiceNext == LoopPart \/ ReaderPart \/ DatesPart \/ ToastsPart

(* The fairness of SidecarServer and of Notifications, each for its part.   *)
ServiceSpec ==
  /\ ServiceInit /\ [][ServiceNext]_allVars
  /\ WF_vars(part = "loop" /\ LoopStep)
  /\ \A i \in Ids : WF_vars(part = "loop" /\ Quick(i))
  /\ WF_toastsVars(part = "toasts" /\ Toasts!PollStep)
  /\ WF_toastsVars(part = "toasts" /\ Toasts!Tick)

-----------------------------------------------------------------------------
(* Properties of the parts, stated there. *)

(* The lines served are the lines sent: main.rs, read_bounded_line.         *)
LinesAsSent == Reader!LinesAsSent

(* Dates set here survive their upload, dates of others keep their clock    *)
(* time, and all-day dates their day: timeutil.rs.                          *)
DueSurvivesUpload == Dates!DueSurvivesUpload
SameClock         == part = "dates" => Dates!SameClock
AllDayStaysOnDay  == part = "dates" => Dates!AllDayStaysOnDay

(* Reminders are told once and in time, and each of them is: notifications.rs. *)
ToldOnceInTime == Toasts!ToldOnceInTime
EachIsTold     == Toasts!EachIsTold

(* The types of all four. *)
TypesOK == TypeOK /\ Reader!TypeOK /\ Dates!TypeOK /\ Toasts!TypeOK

-----------------------------------------------------------------------------
(* Not a property of the code: README, "Divergences", has the behaviour.    *)

(* What auth_snapshot says of the session never goes back to what it was.   *)
SnapshotGoesForward == [][snapshot' >= snapshot]_vars
=============================================================================
