------------------------------ MODULE DueDates ------------------------------
(***************************************************************************)
(* Due dates of the Rust backend: timeutil.rs, and the two places of       *)
(* icloud.rs where a date crosses to and from a record.                    *)
(*                                                                         *)
(* The cache keeps a due date as an instant.  A record keeps it as a wall  *)
(* clock "disguised as a UTC timestamp", with a time zone or without one,  *)
(* when it is read on the clock of whoever looks.  A wall clock skips some *)
(* times when it is put forward and shows some twice when it is put back.  *)
(*                                                                         *)
(* Time is counted in coarse units: a zone changes its offset once, by as  *)
(* little as one unit.  Text forms of an instant are not modelled.         *)
(***************************************************************************)
EXTENDS Integers, FiniteSets, FiniteSetsExt

CONSTANTS
  Zones,        \* the zones of devices: [switch, before, after]
  Floating,     \* stands for a record without a TimeZone
  DayLength,    \* units in a day
  ALL_DAY_HOUR, \* the unit of the day at which an all-day reminder alerts
  GapSearch,    \* bound of the code: the units it looks ahead in a gap
  Horizon       \* bound: dates lie in 0..Horizon

(* A clock is less than a day from UTC (chrono has no other offset), none   *)
(* skips more than the code looks ahead, and an alert that is put off by as *)
(* much stays on its day.                                                   *)
Bounds ==
  /\ Zones \subseteq [switch : Int, before : Int, after : Int]
  /\ \A z \in Zones : {z.before, z.after} \subseteq 1 - DayLength..DayLength - 1
  /\ \A z \in Zones : z.after - z.before <= GapSearch
  /\ {GapSearch, ALL_DAY_HOUR, Horizon} \subseteq Nat
  /\ DayLength \in Nat \ {0} /\ ALL_DAY_HOUR + GapSearch < DayLength

VARIABLES
  local_zone,   \* the zone of this PC, which stays the same
  due, allDay,  \* the row in the cache
  dirty,        \* it holds a date iCloud has not got yet
  record        \* the record: its wall clock, its zone, whether it is all-day

vars == <<local_zone, due, allDay, dirty, record>>

-----------------------------------------------------------------------------
(* Offsets from UTC: a zone's wall clock at an instant, and back. *)

Offset(zone, instant) == IF instant < zone.switch THEN zone.before ELSE zone.after
naive_local(zone, instant) == instant + Offset(zone, instant)
from_local(zone, wall) ==
  {i \in {wall - zone.before, wall - zone.after} : naive_local(zone, i) = wall}

(* Mutant of anchor: a clock time shown twice is taken as the second one. *)
anchor_last(zone, wall) ==
  LET gaps == {d \in 1..GapSearch : Cardinality(from_local(zone, wall + d)) = 1} IN
  IF from_local(zone, wall) # {} THEN Max(from_local(zone, wall))
  ELSE IF gaps # {} THEN CHOOSE i \in from_local(zone, wall + Min(gaps)) : TRUE
  ELSE wall

(* Mutant of anchor: a clock time that is skipped is taken as UTC. *)
anchor_utc(zone, wall) ==
  IF from_local(zone, wall) # {} THEN Min(from_local(zone, wall)) ELSE wall

(* The instant of a wall clock: the earlier of two, and after a gap the     *)
(* first clock time that exists once.                                       *)
anchor(zone, wall) ==
  LET gaps == {d \in 1..GapSearch : Cardinality(from_local(zone, wall + d)) = 1} IN
  IF from_local(zone, wall) # {} THEN Min(from_local(zone, wall))
  ELSE IF gaps # {} THEN CHOOSE i \in from_local(zone, wall + Min(gaps)) : TRUE
  ELSE wall

named_zone(zone) == IF zone = Floating THEN local_zone ELSE zone
floating_millis_to_instant(wall, zone) == anchor(named_zone(zone), wall)
instant_to_floating_millis(instant, zone) == naive_local(named_zone(zone), instant)

DayOf(wall) == wall \div DayLength
LocalDay(instant) == DayOf(naive_local(local_zone, instant))
DayStart(day) == anchor(local_zone, day * DayLength)

(* Mutant of normalize_due: midnight of the day in UTC. *)
normalize_utc(instant, all_day) ==
  IF all_day THEN DayStart(DayOf(instant)) ELSE instant

normalize_due(instant, all_day) ==
  IF all_day THEN DayStart(LocalDay(instant)) ELSE instant

notify_at(instant, all_day) ==
  IF all_day THEN anchor(local_zone, LocalDay(instant) * DayLength + ALL_DAY_HOUR) ELSE instant

local_day_bounds(now) == <<DayStart(LocalDay(now)), DayStart(LocalDay(now) + 1)>>

-----------------------------------------------------------------------------

Instants == 0..Horizon
Walls    == 0..Horizon

(* A date does not drift, however often it is edited and uploaded: a clock  *)
(* is less than a day from UTC, a day begins where it was, and of two equal *)
(* clock times the first is its own first.                                  *)
Reach == -(8 * DayLength)..Horizon + 2 * DayLength

TypeOK ==
  /\ local_zone \in Zones
  /\ due \in Reach /\ allDay \in BOOLEAN /\ dirty \in BOOLEAN
  /\ record \in [due : Reach, zone : Zones \cup {Floating}, allDay : BOOLEAN]

(* record_to_reminder, the part about dates. *)
Shown(r) == floating_millis_to_instant(r.due, r.zone)

(* A reminder made on some device and downloaded. *)
Init ==
  /\ local_zone \in Zones
  /\ record \in [due : Walls, zone : Zones \cup {Floating}, allDay : BOOLEAN]
  /\ record.allDay => record.due % DayLength = 0
  /\ due = Shown(record) /\ allDay = record.allDay /\ dirty = FALSE

(* update_reminder with a date; the user gives an instant or a wall clock   *)
(* of this PC, which parse_instant anchors.                                 *)
SetDue(given, all_day) ==
  /\ due' = normalize_due(given, all_day)
  /\ allDay' = all_day /\ dirty' = TRUE /\ UNCHANGED <<local_zone, record>>

update_due(all_day) ==
  \/ \E i \in Instants : SetDue(i, all_day)
  \/ \E w \in Walls : SetDue(anchor(local_zone, w), all_day)

(* update_reminder that only turns all-day on or off: on moves the date. *)
update_all_day(all_day) ==
  /\ due' = IF all_day THEN normalize_due(due, TRUE) ELSE due
  /\ allDay' = all_day /\ dirty' = TRUE /\ UNCHANGED <<local_zone, record>>

(* The upload writes the date in the record's zone, and the answer, read    *)
(* back, becomes the row.                                                   *)
update_fields ==
  /\ dirty /\ dirty' = FALSE
  /\ record' = [record EXCEPT !.due = instant_to_floating_millis(due, record.zone),
                              !.allDay = allDay]
  /\ due' = Shown(record') /\ UNCHANGED <<local_zone, allDay>>

(* Another device gives the reminder a date and the next pull brings it.    *)
(* While an edit waits here it would end in a conflict instead.             *)
OtherDevice(w, zone, all_day) ==
  /\ ~dirty /\ (all_day => w % DayLength = 0)
  /\ record' = [due |-> w, zone |-> zone, allDay |-> all_day]
  /\ due' = Shown(record') /\ allDay' = all_day /\ UNCHANGED <<local_zone, dirty>>

Next ==
  \/ \E all_day \in BOOLEAN : update_due(all_day) \/ update_all_day(all_day)
  \/ update_fields
  \/ \E w \in Walls, zone \in Zones \cup {Floating}, all_day \in BOOLEAN :
       OtherDevice(w, zone, all_day)

Spec == Init /\ [][Next]_vars

-----------------------------------------------------------------------------
(* Properties. *)

(* The clock of zone shows the time of this instant a second time. *)
Repeated(zone, instant) ==
  \E i \in from_local(zone, naive_local(zone, instant)) : i < instant

(* An upload and the download that answers it leave the date the user chose *)
(* (timeutil.rs: new_york_wall_clock_round_trips_across_dst), for the zone  *)
(* of any record.  Only the second of two equal clock times cannot be told  *)
(* from the first, and becomes "the first occurrence users see".            *)
DueSurvivesUpload ==
  [][dirty /\ ~dirty' => \/ due' = due
                         \/ Repeated(named_zone(record.zone), due) /\ due' < due]_vars

(* What other devices wrote is what this PC would write back: an edit that  *)
(* sends the date along does not move it, unless that clock time does not   *)
(* exist, and then it moves to the first that does.                         *)
SameClock ==
  ~dirty =>
    LET zone == named_zone(record.zone)
        back == naive_local(zone, due)
    IN back >= record.due /\ \A w \in record.due..back - 1 : from_local(zone, w) = {}

(* An all-day date set here stays on the day of this PC on which it was set,*)
(* through midnights that are skipped or come twice ("avoids silently       *)
(* moving to the previous day"), and its alert comes on that day, after it. *)
AllDayStaysOnDay ==
  /\ \A i \in Instants : LocalDay(normalize_due(i, TRUE)) = LocalDay(i)
  /\ dirty /\ allDay =>
       LET day == local_day_bounds(due) IN
       /\ LocalDay(due) = LocalDay(notify_at(due, TRUE)) /\ due <= notify_at(due, TRUE)
       /\ day[1] = due /\ due < day[2]
=============================================================================
