--------------------------- MODULE Notifications ---------------------------
(***************************************************************************)
(* The due notifications of the Rust backend: due_notifications of         *)
(* server.rs, plan of notifications.rs and the columns of cache.rs that    *)
(* they read and write.                                                    *)
(*                                                                         *)
(* The UI polls, one call at a time, and shows the toasts of the answer.   *)
(* plan reads the due rows in one statement and marks them notified in a   *)
(* second; an edit of the user, a pass that gives a new reminder the name  *)
(* iCloud chose, or the end of the process may fall between the two.       *)
(* Toasts are sets of reminders: their wording is left out.                *)
(***************************************************************************)
EXTENDS Naturals, FiniteSets

CONSTANTS
  Reminders,    \* reminders, whatever they are called at the moment
  LastTick,     \* bound: the clock runs from 0 to LastTick
  Morning,      \* ticks from the date of an all-day reminder to its alert
  Stale,        \* stale_after_minutes, once clamped, in ticks
  MaxEdits,     \* bound: reminders moved, completed or reopened
  MaxRenames,   \* bound: reminders renamed after their upload
  MaxCrashes    \* bound: deaths of the process

(* What is assumed of the constants. *)
Bounds == {LastTick, Morning, Stale, MaxEdits, MaxRenames, MaxCrashes} \subseteq Nat

VARIABLES
  row,          \* due, all_day, open (neither deleted nor completed), notified, name
  now,
  enabled,      \* the setting notifications_enabled
  poll,         \* the call in hand: its stage, its clock and the rows it read
  edits, renames, crashes,
  told,         \* history: how often each reminder was in toasts the UI got,
  slipped,      \* those renamed between the two statements of a call that had
                \* found them, and
  moved         \* those that the user has edited since the call in hand found them

history == <<told, slipped, moved>>
vars == <<row, now, enabled, poll, edits, renames, crashes, history>>

Row  == [due : Nat, all_day : BOOLEAN, open : BOOLEAN, notified : BOOLEAN, name : Nat]
Seen == [r : Reminders, name : Nat]
Poll == [stage : {"none", "mark", "reply"}, missed : SUBSET Seen, fresh : SUBSET Seen]
NoPoll == [stage |-> "none", missed |-> {}, fresh |-> {}]

TypeOK ==
  /\ row \in [Reminders -> Row] /\ now \in 0..LastTick /\ enabled \in BOOLEAN
  /\ poll.stage \in {"none", "mark", "reply"}
  /\ poll.missed \subseteq Seen /\ poll.fresh \subseteq Seen
  /\ poll.stage = "none" => poll = NoPoll
  /\ edits \in 0..MaxEdits /\ renames \in 0..MaxRenames /\ crashes \in 0..MaxCrashes
  /\ told \in [Reminders -> Nat] /\ slipped \subseteq Reminders /\ moved \subseteq Reminders

Init ==
  /\ row \in [Reminders -> [due : 0..1, all_day : BOOLEAN, open : {TRUE},
                          notified : {FALSE}, name : {0}]]
  /\ now = 0 /\ enabled = TRUE /\ poll = NoPoll
  /\ edits = 0 /\ renames = 0 /\ crashes = 0
  /\ told = [r \in Reminders |-> 0] /\ slipped = {} /\ moved = {}

-----------------------------------------------------------------------------
notify_at(x) == IF x.all_day THEN x.due + Morning ELSE x.due

(* cache.due_unnotified: the date is due; the alert may still lie ahead. *)
due_unnotified == {r \in Reminders : row[r].open /\ ~row[r].notified /\ row[r].due <= now}

Alerts == {r \in due_unnotified : notify_at(row[r]) <= now}
Missed(r) == notify_at(row[r]) + Stale < now
As(rs) == {[r |-> r, name |-> row[r].name] : r \in rs}

(* Mutant of plan: what was missed gets no toast. *)
plan_fresh_only ==
  /\ poll.stage = "none" /\ enabled
  /\ poll' = [stage |-> "mark", missed |-> {}, fresh |-> As({r \in Alerts : ~Missed(r)})]
  /\ moved' = {}
  /\ UNCHANGED <<row, now, enabled, edits, renames, crashes, told, slipped>>

(* due_notifications up to plan's first statement. *)
plan ==
  /\ poll.stage = "none" /\ enabled
  /\ poll' = [stage |-> "mark", missed |-> As({r \in Alerts : Missed(r)}),
              fresh |-> As({r \in Alerts : ~Missed(r)})]
  /\ moved' = {}
  /\ UNCHANGED <<row, now, enabled, edits, renames, crashes, told, slipped>>

notified_ids == poll.missed \cup poll.fresh

(* Mutant of mark_notified: what was missed while the app was closed is not marked. *)
mark_fresh ==
  /\ poll.stage = "mark" /\ poll' = [poll EXCEPT !.stage = "reply"]
  /\ row' = [r \in Reminders |->
               IF [r |-> r, name |-> row[r].name] \in poll.fresh
               THEN [row[r] EXCEPT !.notified = TRUE] ELSE row[r]]
  /\ UNCHANGED <<now, enabled, edits, renames, crashes, history>>

(* The second statement finds rows by the names read in the first one. *)
mark_notified ==
  /\ poll.stage = "mark" /\ poll' = [poll EXCEPT !.stage = "reply"]
  /\ row' = [r \in Reminders |->
               IF [r |-> r, name |-> row[r].name] \in notified_ids
               THEN [row[r] EXCEPT !.notified = TRUE] ELSE row[r]]
  /\ UNCHANGED <<now, enabled, edits, renames, crashes, history>>

(* The UI shows the toasts: one each, or one for all that are fresh if they *)
(* are too many, and one for all that were missed.                          *)
Reply ==
  /\ poll.stage = "reply" /\ poll' = NoPoll /\ moved' = {}
  /\ told' = [r \in Reminders |->
                IF \E s \in notified_ids : s.r = r THEN told[r] + 1 ELSE told[r]]
  /\ UNCHANGED <<row, now, enabled, edits, renames, crashes, slipped>>

-----------------------------------------------------------------------------
(* What happens beside a poll. *)

Tick ==
  /\ now < LastTick /\ now' = now + 1
  /\ UNCHANGED <<row, enabled, poll, edits, renames, crashes, history>>

(* apply_local_edit writes the columns of the edit; notified is not one.    *)
apply_local_edit(r, change) == row' = [row EXCEPT ![r] = change]

Edit(r) ==
  /\ edits < MaxEdits /\ edits' = edits + 1
  /\ \/ \E due \in 0..LastTick, all_day \in BOOLEAN :
          apply_local_edit(r, [row[r] EXCEPT !.due = due, !.all_day = all_day])
     \/ apply_local_edit(r, [row[r] EXCEPT !.open = ~row[r].open])
  /\ moved' = IF poll.stage = "none" THEN moved ELSE moved \cup {r}
  /\ UNCHANGED <<now, enabled, poll, renames, crashes, told, slipped>>

(* A reminder created here gets the name of its record. *)
replace_id(r) ==
  /\ renames < MaxRenames /\ renames' = renames + 1 /\ row[r].name = 0
  /\ row' = [row EXCEPT ![r].name = 1]
  /\ slipped' = IF poll.stage = "mark" /\ \E s \in notified_ids : s.r = r
                THEN slipped \cup {r} ELSE slipped
  /\ UNCHANGED <<now, enabled, poll, edits, crashes, told, moved>>

set_settings ==
  /\ enabled' = ~enabled
  /\ UNCHANGED <<row, now, poll, edits, renames, crashes, history>>

(* Rows outlive the process, the answer does not. *)
Crash ==
  /\ crashes < MaxCrashes /\ crashes' = crashes + 1
  /\ poll' = NoPoll /\ moved' = {}
  /\ UNCHANGED <<row, now, enabled, edits, renames, told, slipped>>

PollStep == plan \/ mark_notified \/ Reply
Next ==
  \/ PollStep \/ Tick \/ set_settings \/ Crash
  \/ \E r \in Reminders : Edit(r) \/ replace_id(r)

Spec == Init /\ [][Next]_vars

(* The UI's timer polls for ever and a call that can go on does; the clock  *)
(* runs to the end of the bound.                                            *)
FairSpec == Spec /\ WF_vars(PollStep) /\ WF_vars(Tick)

-----------------------------------------------------------------------------
(* Properties. *)

(* A reminder is told of once, whatever the user does to it between the two *)
(* statements, through crashes and whenever it is renamed: once more only   *)
(* if it got its name between the statements of a call that had found it,   *)
(* for the second then does not.  And no call has one in hand whose alert   *)
(* is to come, which an all-day reminder has in the morning although its    *)
(* row is found from midnight on, unless the user has moved it meanwhile.   *)
ToldOnceInTime ==
  /\ \A r \in Reminders : told[r] <= IF r \in slipped THEN 2 ELSE 1
  /\ \A s \in notified_ids : s.r \in moved \/ notify_at(row[s.r]) <= now

(* cache.rs, the test due_reminders_are_reported_once: once told, a reminder*)
(* "must not fire again".  Not so of those that slipped.                    *)
ToldOnce == \A r \in Reminders : told[r] <= 1

(* A reminder whose alert has come is told of, once it stays as it is and   *)
(* notifications stay on.                                                   *)
EachIsTold ==
  \A r \in Reminders :
    <>[](enabled /\ row[r].open /\ notify_at(row[r]) <= now /\ crashes = 0)
      => <>(told[r] > 0)
=============================================================================
