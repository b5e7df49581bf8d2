----------------------------- MODULE SidecarSync -----------------------------
(***************************************************************************)
(* The synchronisation of the Rust backend (src/sidecar): sync.rs over     *)
(* cache.rs, beside the calls of server.rs that change reminders.          *)
(*                                                                         *)
(* The tables are those of CacheOps.  What differs from the C# engine of   *)
(* SyncCore is where it can be interrupted.  A call of the user runs on a  *)
(* task of its own and takes the cache's lock anew for each statement: it  *)
(* reads the row, edits it and queues the edit in three steps.  Settling a *)
(* conflict takes five statements, marking a tombstone two.  Passes are    *)
(* serial (the lock of sync_now), so one pc stands for the engine.         *)
(*                                                                         *)
(* iCloud is external, as in SyncCore: a change tag is the value of a      *)
(* clock that counts the writes to the zone, a sync token is such a value. *)
(***************************************************************************)
EXTENDS CacheOps, FiniteSets

CONSTANTS
  Records,      \* ids that iCloud records can have
  LocalIds,     \* ids "local/..." of reminders created here
  First,        \* the record that exists at the start
  NoId,         \* stands for an answer that names no record
  Calls,        \* tasks on which server.rs runs the user's calls
  MaxEdits,     \* bound: calls that change a reminder
  MaxOthers,    \* bound: writes of another device
  MaxErases,    \* bound: records removed from iCloud for good
  MaxWrites,    \* bound: the two together
  MaxMishaps    \* bound: failed requests, lost replies and deaths of the process

Ids == Records \cup LocalIds

ASSUME IdsAssumption ==
  /\ Records \cap LocalIds = {} /\ NoId \notin Ids /\ First \in Records
ASSUME BoundsAssumption ==
  /\ MaxEdits \in Nat /\ MaxOthers \in Nat /\ MaxErases \in Nat /\ MaxWrites \in Nat
  /\ MaxMishaps \in Nat

VARIABLES
  (* The cache, which survives a crash. *)
  rows, outbox,
  conflicts,    \* table conflicts, oldest first
  cursor,       \* meta sync_cursor; 0 when there is none
  protocol,     \* meta cloudkit_read_protocol holds the current version
  (* iCloud. *)
  cloud, clock,
  (* The running pass. *)
  pc,
  reply,        \* what iCloud answered to the request in hand
  local,        \* the row as read for the conflict in hand
  full,         \* the pull is a full one
  updated,      \* downloaded records
  deleted,      \* downloaded tombstones not yet applied
  victim,       \* the tombstone being applied
  next,         \* the sync token to save; 0 when iCloud gave none
  (* The user's calls. *)
  call,
  (* How much the environment has done. *)
  edits, others, erases, faults, crashes,
  minted,       \* the local ids given out; a GUID is never given out twice
  (* History, read by no action. *)
  wish,         \* the last text the user gave each reminder
  uploaded      \* the texts iCloud has accepted from this PC

cacheVars == <<rows, outbox, conflicts, cursor, protocol>>
cloudVars == <<cloud, clock>>
passVars  == <<pc, reply, local, full, updated, deleted, victim, next>>
envVars   == <<edits, others, erases, faults, crashes, minted>>
history   == <<wish, uploaded>>
vars      == <<cacheVars, cloudVars, passVars, call, envVars, history>>

Places ==
  {"idle", "head", "modify", "replace", "ack", "upsert",
   "clash", "record", "clear", "takeover", "dequeue",
   "pull", "lists", "query", "apply", "tags", "mark", "unmark", "stamp"}

Record == [state : {"none", "live", "erased"}, title : Text, deleted : BOOLEAN,
           tag : Nat, by : {"pc", "other"}, born : Nat]
Reply  == [id : Records \cup {NoId}, title : Text, deleted : BOOLEAN, tag : Nat]
Change == [id : Records, title : Text, deleted : BOOLEAN, tag : Nat]
Conflict == [id : Ids, local : Row, remote : Reply, resolved : BOOLEAN]
Call == [stage : {"none", "edit", "reread", "enqueue", "resolve"},
         op : {"create", "update", "delete"}, id : Ids, patch : Patch, base : Nat,
         conflict : Nat]

TypeOK ==
  /\ rows \in [Ids -> Row] /\ outbox \in Seq(Item(Ids))
  /\ conflicts \in Seq(Conflict)
  /\ cursor \in Nat /\ protocol \in BOOLEAN
  /\ cloud \in [Records -> Record] /\ clock \in Nat
  /\ pc \in Places /\ reply \in Reply /\ local \in Row /\ full \in BOOLEAN
  /\ updated \subseteq Change /\ deleted \subseteq Records
  /\ victim \in Records \cup {NoId} /\ next \in Nat
  /\ call \in [Calls -> Call]
  /\ edits \in Nat /\ others \in Nat /\ erases \in Nat /\ faults \in Nat
  /\ crashes \in Nat /\ minted \subseteq LocalIds
  /\ wish \in [Ids -> Nat] /\ uploaded \subseteq Nat

NoReply == [id |-> NoId, title |-> Blank, deleted |-> FALSE, tag |-> NoTag]
NoCall  == [stage |-> "none", op |-> "update", id |-> First, patch |-> NoPatch,
            base |-> NoTag, conflict |-> 0]
Written(state, v, by, born) ==
  [state |-> state, title |-> v.title, deleted |-> v.deleted, tag |-> v.tag,
   by |-> by, born |-> born]
Answer(r, v) == [id |-> r, title |-> v.title, deleted |-> v.deleted, tag |-> v.tag]

(* The text of the next write, different from every text before. *)
Fresh == edits + others + 3

-----------------------------------------------------------------------------
(* The statements of cache.rs. *)

apply_local_edit(id, p) == Edit(rows, id, p, TRUE)

insert_local_reminder(id, t) == UpsertLocal(rows, id, t)

(* Every row of the downloaded set but the dirty ones, in one transaction. *)
upsert_reminders(xs) ==
  [id \in Ids |->
     IF ~rows[id].dirty /\ \E x \in xs : x.id = id
     THEN LET x == CHOOSE y \in xs : y.id = id IN
          [here |-> TRUE, title |-> x.title, deleted |-> x.deleted, tag |-> x.tag,
           dirty |-> FALSE]
     ELSE rows[id]]

clear_dirty(id, tag) ==
  IF rows[id].here THEN [rows EXCEPT ![id].dirty = FALSE, ![id].tag = tag] ELSE rows

acknowledge_push(id, tag) ==
  /\ outbox' = AcknowledgeOutbox(outbox, id, tag)
  /\ rows' = AcknowledgeRows(rows, outbox, id, tag)

(* The row's key in the statements is a primary key: nothing to move, no move. *)
replace_id(old, new) ==
  /\ rows' = ReplaceIdRows(rows, old, new)
  /\ outbox' = ReplaceIdOutbox(outbox, old, new)

record_conflict(id, mine, theirs) ==
  conflicts' = Append(conflicts, [id |-> id, local |-> mine, remote |-> theirs,
                                  resolved |-> FALSE])

-----------------------------------------------------------------------------

(* The cache is empty, or up to date, or was left by the first read         *)
(* protocol: a cursor over a snapshot that came out empty.                  *)
Init ==
  /\ cloud = [r \in Records |->
                IF r = First
                THEN Written("live", [title |-> 2, deleted |-> FALSE, tag |-> 1], "other", NoText)
                ELSE Written("none", NoRow, "other", NoText)]
  /\ clock = 1
  /\ \/ rows = [id \in Ids |-> NoRow] /\ cursor = 0 /\ protocol = FALSE
     \/ rows = [id \in Ids |-> NoRow] /\ cursor = clock /\ protocol = FALSE
     \/ /\ rows = Upsert([id \in Ids |-> NoRow], First, cloud[First])
        /\ cursor = clock /\ protocol = TRUE
  /\ outbox = <<>> /\ conflicts = <<>>
  /\ pc = "idle" /\ reply = NoReply /\ local = NoRow /\ full = FALSE
  /\ updated = {} /\ deleted = {} /\ victim = NoId /\ next = 0
  /\ call = [c \in Calls |-> NoCall]
  /\ edits = 0 /\ others = 0 /\ erases = 0 /\ faults = 0 /\ crashes = 0
  /\ minted = {}
  /\ wish = [id \in Ids |-> NoText] /\ uploaded = {}

-----------------------------------------------------------------------------
(* The user's calls. *)

Idle(c) == call[c].stage = "none"
To(c, stage) == call' = [call EXCEPT ![c].stage = stage]
Finish(c) == call' = [call EXCEPT ![c] = NoCall]
Mishap == faults + crashes < MaxMishaps
UserCall == edits < MaxEdits /\ edits' = edits + 1

(* create_reminder inserts the row, and queues it in a second statement. *)
create_reminder(c, id) ==
  /\ UserCall /\ Idle(c)
  /\ id \in LocalIds \ minted /\ minted' = minted \cup {id}
  /\ rows' = insert_local_reminder(id, Fresh)
  /\ call' = [call EXCEPT ![c] = [NoCall EXCEPT !.stage = "enqueue", !.op = "create",
                                                !.id = id, !.patch = SetTitle(Fresh)]]
  /\ wish' = [wish EXCEPT ![id] = Fresh]
  /\ UNCHANGED <<outbox, conflicts, cursor, protocol, cloudVars, passVars, others,
                 erases, faults, crashes, uploaded>>

(* update, delete and restore first read the row, which must exist. *)
Begin(c, id, op, p) ==
  /\ UserCall /\ Idle(c) /\ rows[id].here
  /\ call' = [call EXCEPT ![c] = [NoCall EXCEPT !.stage = "edit", !.op = op, !.id = id,
                                                !.patch = p, !.base = rows[id].tag]]
  /\ wish' = IF p.title = NoText THEN wish ELSE [wish EXCEPT ![id] = p.title]
  /\ UNCHANGED <<cacheVars, cloudVars, passVars, others, erases, faults, crashes,
                 minted, uploaded>>

(* Mutant of restore_reminder: an operation that flush_outbox does not know. *)
restore_as_restore(c, id) == Begin(c, id, "restore", SetDeleted("clear"))

update_reminder(c, id)  == Begin(c, id, "update", SetTitle(Fresh))
delete_reminder(c, id)  == Begin(c, id, "delete", SetDeleted("set"))
restore_reminder(c, id) == Begin(c, id, "update", SetDeleted("clear"))

(* resolve_conflict, keep = local: the kept text becomes an edit. *)
keep_local(c, i) ==
  LET x == conflicts[i] IN
  /\ UserCall /\ Idle(c) /\ ~x.resolved
  /\ call' = [call EXCEPT ![c] = [NoCall EXCEPT !.stage = "edit", !.id = x.id,
                                  !.patch = SetTitle(x.local.title), !.conflict = i]]
  /\ wish' = [wish EXCEPT ![x.id] = x.local.title]
  /\ UNCHANGED <<cacheVars, cloudVars, passVars, others, erases, faults, crashes,
                 minted, uploaded>>

resolve_conflict(c, i) ==
  /\ Idle(c) /\ ~conflicts[i].resolved
  /\ conflicts' = [conflicts EXCEPT ![i].resolved = TRUE]
  /\ UNCHANGED <<rows, outbox, cursor, protocol, cloudVars, passVars, call, envVars,
                 history>>

(* The second statement.  A kept conflict reads the tag only after it. *)
ApplyEdit(c) ==
  /\ call[c].stage = "edit"
  /\ rows' = apply_local_edit(call[c].id, call[c].patch)
  /\ To(c, IF call[c].conflict = 0 THEN "enqueue" ELSE "reread")
  /\ UNCHANGED <<outbox, conflicts, cursor, protocol, cloudVars, passVars, envVars,
                 history>>

Reread(c) ==
  /\ call[c].stage = "reread"
  /\ call' = [call EXCEPT ![c].stage = "enqueue", ![c].base = rows[call[c].id].tag]
  /\ UNCHANGED <<cacheVars, cloudVars, passVars, envVars, history>>

(* The last statement, and then kick_push: a pass that may start at any time. *)
EnqueueEdit(c) ==
  LET k == call[c] IN
  /\ k.stage = "enqueue"
  /\ outbox' = Enqueue(outbox, k.id, k.op, IF k.op = "delete" THEN NoPatch ELSE k.patch,
                       k.base)
  /\ IF k.conflict = 0 THEN Finish(c) ELSE To(c, "resolve")
  /\ UNCHANGED <<rows, conflicts, cursor, protocol, cloudVars, passVars, envVars,
                 history>>

MarkResolved(c) ==
  /\ call[c].stage = "resolve"
  /\ conflicts' = [conflicts EXCEPT ![call[c].conflict].resolved = TRUE]
  /\ Finish(c)
  /\ UNCHANGED <<rows, outbox, cursor, protocol, cloudVars, passVars, envVars, history>>

UserNext ==
  \E c \in Calls :
    \/ \E id \in LocalIds : create_reminder(c, id)
    \/ \E id \in Ids :
         update_reminder(c, id) \/ delete_reminder(c, id) \/ restore_reminder(c, id)
    \/ \E i \in 1..Len(conflicts) : keep_local(c, i) \/ resolve_conflict(c, i)

CallStep == \E c \in Calls : ApplyEdit(c) \/ Reread(c) \/ EnqueueEdit(c) \/ MarkResolved(c)

-----------------------------------------------------------------------------
(* Another device of the same account. *)

OtherWrites(r, title, state) ==
  /\ cloud[r].state = "live"
  /\ clock' = clock + 1
  /\ cloud' = [cloud EXCEPT ![r] = Written(state, [title |-> title, deleted |-> @.deleted,
                                                   tag |-> clock + 1], "other", @.born)]
  /\ UNCHANGED <<cacheVars, passVars, call, edits, faults, crashes, minted, history>>

OtherMay == others + erases < MaxWrites

OtherEdit(r) ==
  /\ others < MaxOthers /\ OtherMay /\ others' = others + 1
  /\ OtherWrites(r, Fresh, "live") /\ UNCHANGED erases

OtherErase(r) ==
  /\ erases < MaxErases /\ OtherMay /\ erases' = erases + 1
  /\ OtherWrites(r, cloud[r].title, "erased") /\ UNCHANGED others

-----------------------------------------------------------------------------
(* The upload, flush_outbox. *)

Forget == /\ reply' = NoReply /\ local' = NoRow /\ full' = FALSE
          /\ updated' = {} /\ deleted' = {} /\ victim' = NoId /\ next' = 0

Abort == pc' = "idle" /\ Forget
Kept  == UNCHANGED <<local, full, updated, deleted, victim, next>>

(* The answer v is worked on at the given place, or is lost with the pass. *)
Received(lost, place, v) ==
  IF lost
  THEN faults' = faults + 1 /\ Abort
  ELSE pc' = place /\ reply' = v /\ Kept /\ UNCHANGED faults

StartPass ==
  /\ pc = "idle" /\ pc' = "head"
  /\ Kept /\ UNCHANGED <<cacheVars, cloudVars, reply, call, envVars, history>>

(* The entry in hand; the loop asks for the oldest one each time.           *)
item == Head(outbox)
HeadPatch == IF item.op = "delete" THEN SetDeleted("set") ELSE item.patch

(* ICloudClient.create: a record under a UUID chosen anew each time.        *)
create(r, lost) ==
  LET v == [title |-> PatchedTitle(NoRow, HeadPatch), deleted |-> FALSE, tag |-> clock + 1] IN
  /\ pc = "head" /\ outbox # <<>> /\ item.op = "create" /\ cloud[r].state = "none"
  /\ lost => Mishap
  /\ clock' = clock + 1
  /\ cloud' = [cloud EXCEPT ![r] = Written("live", v, "pc", HeadPatch.title)]
  /\ uploaded' = uploaded \cup {HeadPatch.title}
  /\ Received(lost, "replace", Answer(r, v))
  /\ UNCHANGED <<cacheVars, call, edits, others, erases, crashes, minted, wish>>

(* Mutant of lookup: a mismatch of the tags fails the pass. *)
lookup_throws ==
  LET r == item.id IN
  /\ pc = "head" /\ outbox # <<>> /\ item.op # "create"
  /\ IF r \in Records /\ cloud[r].state = "live" /\ item.base \in {NoTag, cloud[r].tag}
     THEN pc' = "modify" /\ reply' = Answer(r, cloud[r]) /\ Kept
     ELSE Abort
  /\ UNCHANGED <<cacheVars, cloudVars, call, envVars, history>>

(* ICloudClient.update up to the comparison of the tags.  A name iCloud     *)
(* does not know, be it erased or local, fails the pass and stays queued.   *)
lookup ==
  LET r == item.id IN
  /\ pc = "head" /\ outbox # <<>> /\ item.op # "create"
  /\ IF r \in Records /\ cloud[r].state = "live"
     THEN /\ pc' = IF item.base \in {NoTag, cloud[r].tag} THEN "modify" ELSE "clash"
          /\ reply' = Answer(r, cloud[r]) /\ Kept
     ELSE Abort
  /\ UNCHANGED <<cacheVars, cloudVars, call, envVars, history>>

(* ICloudClient.update's write, accepted while the tag looked up is current. *)
modify(lost) ==
  LET r == reply.id
      v == [title |-> PatchedTitle(cloud[r], HeadPatch),
            deleted |-> PatchedDeleted(cloud[r], HeadPatch), tag |-> clock + 1] IN
  /\ pc = "modify" /\ cloud[r].state = "live" /\ cloud[r].tag = reply.tag
  /\ lost => Mishap
  /\ clock' = clock + 1
  /\ cloud' = [cloud EXCEPT ![r] = Written("live", v, "pc", @.born)]
  /\ uploaded' = uploaded \cup {HeadPatch.title}
  /\ Received(lost, "ack", Answer(r, v))
  /\ UNCHANGED <<cacheVars, call, edits, others, erases, crashes, minted, wish>>

(* Another device wrote in between.  What refuses the write is an error     *)
(* item or the text of an HTTP 409; neither reads as a reminder.            *)
ModifyRefused ==
  /\ pc = "modify" /\ cloud[reply.id].tag # reply.tag
  /\ IF cloud[reply.id].state = "live"
     THEN pc' = "clash" /\ reply' = NoReply /\ Kept
     ELSE Abort
  /\ UNCHANGED <<cacheVars, cloudVars, call, envVars, history>>

ReplaceId ==
  LET old == item.id IN
  /\ pc = "replace" /\ pc' = "ack"
  /\ replace_id(old, reply.id)
  /\ wish' = [wish EXCEPT ![reply.id] = wish[old],
                          ![old] = IF old = reply.id THEN @ ELSE NoText]
  /\ Kept
  /\ UNCHANGED <<conflicts, cursor, protocol, cloudVars, reply, call, envVars, uploaded>>

AcknowledgePush ==
  /\ pc = "ack" /\ pc' = "upsert"
  /\ acknowledge_push(reply.id, reply.tag) /\ Kept
  /\ UNCHANGED <<conflicts, cursor, protocol, cloudVars, reply, call, envVars, history>>

UpsertReply ==
  /\ pc = "upsert" /\ pc' = "head" /\ Forget
  /\ rows' = upsert_reminders({reply})
  /\ UNCHANGED <<outbox, conflicts, cursor, protocol, cloudVars, call, envVars, history>>

(* The five statements of a conflict; a refusal that is no reminder skips   *)
(* the two that touch the row.                                              *)
ReadLocal ==
  /\ pc = "clash" /\ pc' = "record" /\ local' = rows[item.id]
  /\ UNCHANGED <<cacheVars, cloudVars, reply, full, updated, deleted, victim, next,
                 call, envVars, history>>

(* Mutant of RecordConflict: the insert fails and its error is ignored. *)
RecordNothing ==
  /\ pc = "record" /\ pc' = IF reply.id = NoId THEN "dequeue" ELSE "clear"
  /\ Kept
  /\ UNCHANGED <<cacheVars, cloudVars, reply, call, envVars, history>>

RecordConflict ==
  /\ pc = "record" /\ pc' = IF reply.id = NoId THEN "dequeue" ELSE "clear"
  /\ record_conflict(item.id, local, reply) /\ Kept
  /\ UNCHANGED <<rows, outbox, cursor, protocol, cloudVars, reply, call, envVars, history>>

ClearConflicting ==
  /\ pc = "clear" /\ pc' = "takeover"
  /\ rows' = clear_dirty(item.id, reply.tag) /\ Kept
  /\ UNCHANGED <<outbox, conflicts, cursor, protocol, cloudVars, reply, call, envVars,
                 history>>

TakeRemote ==
  /\ pc = "takeover" /\ pc' = "dequeue"
  /\ rows' = upsert_reminders({reply}) /\ Kept
  /\ UNCHANGED <<outbox, conflicts, cursor, protocol, cloudVars, reply, call, envVars,
                 history>>

Dequeue ==
  /\ pc = "dequeue" /\ pc' = "head" /\ Forget
  /\ outbox' = Tail(outbox)
  /\ UNCHANGED <<rows, conflicts, cursor, protocol, cloudVars, call, envVars, history>>

(* The outbox is empty: pull_with_reauth decides how to read.  A full pull  *)
(* may be asked for, and is needed without a cursor this protocol saved.    *)
PushDone(asked) ==
  /\ pc = "head" /\ outbox = <<>> /\ pc' = "pull"
  /\ full' = (asked \/ cursor = 0 \/ ~protocol)
  /\ UNCHANGED <<cacheVars, cloudVars, reply, local, updated, deleted, victim, next,
                 call, envVars, history>>

-----------------------------------------------------------------------------
(* The download. *)

Download(r) == [id |-> r, title |-> cloud[r].title, deleted |-> cloud[r].deleted,
                tag |-> cloud[r].tag]
Live(since) == {Download(r) : r \in {q \in Records : cloud[q].state = "live"
                                                       /\ cloud[q].tag > since}}
Erased(since) == {r \in Records : cloud[r].state = "erased" /\ cloud[r].tag > since}

(* full_sync: the token first, which iCloud may fail to give. *)
SyncCursor ==
  /\ pc = "pull" /\ full /\ pc' = "lists"
  /\ next' \in {clock, 0}
  /\ UNCHANGED <<cacheVars, cloudVars, reply, local, full, updated, deleted, victim,
                 call, envVars, history>>

(* delta_sync: lists are read first if the answer mentions one. *)
ChangesSince ==
  /\ pc = "pull" /\ ~full /\ pc' \in {"lists", "apply"}
  /\ updated' = Live(cursor) /\ deleted' = Erased(cursor)
  /\ next' \in {clock, 0}
  /\ UNCHANGED <<cacheVars, cloudVars, reply, local, full, victim, call, envVars,
                 history>>

Lists ==
  /\ pc = "lists" /\ pc' = IF full THEN "query" ELSE "apply"
  /\ UNCHANGED <<cacheVars, cloudVars, reply, call, envVars, history>> /\ Kept

(* One list stands for all: its reminders, then one transaction. *)
RemindersFor ==
  /\ pc = "query" /\ pc' = "apply"
  /\ updated' = Live(0)
  /\ UNCHANGED <<cacheVars, cloudVars, reply, local, full, deleted, victim, next,
                 call, envVars, history>>

(* Tags are asked for by a full pull, and by a delta that mentions one. *)
UpsertDownload ==
  /\ pc = "apply" /\ pc' \in (IF full THEN {"tags"} ELSE {"tags", "mark"})
  /\ rows' = upsert_reminders(updated) /\ updated' = {}
  /\ UNCHANGED <<outbox, conflicts, cursor, protocol, cloudVars, reply, local, full,
                 deleted, victim, next, call, envVars, history>>

Tags ==
  /\ pc = "tags" /\ pc' = "mark"
  /\ UNCHANGED <<cacheVars, cloudVars, reply, call, envVars, history>> /\ Kept

(* A tombstone goes over the row whatever is queued for it: as an edit of   *)
(* this PC first, whose dirty mark is taken back in a second statement.     *)
MarkDeleted(r) ==
  /\ pc = "mark" /\ r \in deleted /\ pc' = "unmark"
  /\ deleted' = deleted \ {r} /\ victim' = r
  /\ rows' = apply_local_edit(r, SetDeleted("set"))
  /\ UNCHANGED <<outbox, conflicts, cursor, protocol, cloudVars, reply, local, full,
                 updated, next, call, envVars, history>>

ClearDeleted ==
  /\ pc = "unmark" /\ pc' = "mark" /\ victim' = NoId
  /\ rows' = clear_dirty(victim, NoTag)
  /\ UNCHANGED <<outbox, conflicts, cursor, protocol, cloudVars, reply, local, full,
                 updated, deleted, next, call, envVars, history>>

(* Mutant of SaveCursor: the position now, not the one before the download. *)
SaveCursorNow ==
  /\ pc = "mark" /\ deleted = {}
  /\ cursor' = clock
  /\ IF full
     THEN pc' = "stamp" /\ UNCHANGED <<reply, local, full, updated, deleted, victim, next>>
     ELSE pc' = "idle" /\ Forget
  /\ UNCHANGED <<rows, outbox, conflicts, protocol, cloudVars, call, envVars, history>>

(* The token is saved last, and the protocol's version after it. *)
SaveCursor ==
  /\ pc = "mark" /\ deleted = {}
  /\ cursor' = IF next = 0 THEN cursor ELSE next
  /\ IF full
     THEN pc' = "stamp" /\ UNCHANGED <<reply, local, full, updated, deleted, victim, next>>
     ELSE pc' = "idle" /\ Forget
  /\ UNCHANGED <<rows, outbox, conflicts, protocol, cloudVars, call, envVars, history>>

Stamp ==
  /\ pc = "stamp" /\ pc' = "idle" /\ Forget
  /\ protocol' = TRUE
  /\ UNCHANGED <<rows, outbox, conflicts, cursor, cloudVars, call, envVars, history>>

-----------------------------------------------------------------------------
(* Failures. *)

(* A request fails with nothing done, or ten minutes are over.  The pass    *)
(* ends, or recover_session restores the session and the push or the pull   *)
(* is run again.                                                            *)
Throw ==
  /\ Mishap /\ faults' = faults + 1
  /\ \/ pc = "head" /\ outbox # <<>> /\ pc' \in {"idle", "head"} /\ Forget
     \/ pc = "modify" /\ pc' \in {"idle", "head"} /\ Forget
     \/ pc \in {"pull", "lists", "query", "tags"} /\ Abort
     \/ /\ pc \in {"pull", "lists", "query", "tags"} /\ pc' = "pull"
        /\ updated' = {} /\ deleted' = {} /\ next' = 0
        /\ UNCHANGED <<reply, local, full, victim>>
  /\ UNCHANGED <<cacheVars, cloudVars, call, edits, others, erases, crashes, minted,
                 history>>

(* The process dies between any two statements; what is committed stays. *)
Crash ==
  /\ Mishap /\ crashes' = crashes + 1
  /\ Abort
  /\ call' = [c \in Calls |-> NoCall]
  /\ UNCHANGED <<cacheVars, cloudVars, edits, others, erases, faults, minted, history>>

EngineStep ==
  \/ StartPass
  \/ \E r \in Records : create(r, FALSE)
  \/ lookup \/ modify(FALSE) \/ ModifyRefused
  \/ ReplaceId \/ AcknowledgePush \/ UpsertReply
  \/ ReadLocal \/ RecordConflict \/ ClearConflicting \/ TakeRemote \/ Dequeue
  \/ \E asked \in BOOLEAN : PushDone(asked)
  \/ SyncCursor \/ ChangesSince \/ Lists \/ RemindersFor \/ UpsertDownload \/ Tags
  \/ \E r \in Records : MarkDeleted(r)
  \/ ClearDeleted \/ SaveCursor \/ Stamp

FaultNext ==
  \/ \E r \in Records : create(r, TRUE)
  \/ modify(TRUE) \/ Throw \/ Crash

OtherNext == \E r \in Records : OtherEdit(r) \/ OtherErase(r)

Next == UserNext \/ CallStep \/ OtherNext \/ EngineStep \/ FaultNext

Spec == Init /\ [][Next]_vars

(* Tasks that can run do, and passes are asked for again and again (the     *)
(* timer of the UI, each edit); users, devices and faults owe nothing.      *)
FairSpec == Spec /\ WF_vars(EngineStep) /\ WF_vars(CallStep)

-----------------------------------------------------------------------------
(* Properties. *)

Entries(text) == \E i \in 1..Len(outbox) : outbox[i].patch.title = text
Settled(id) == ~rows[id].dirty /\ ~Pending(outbox, id)

(* Once settled rows are trusted, they show iCloud's version up to the      *)
(* saved token, and the next delta misses nothing: through edits, their     *)
(* conflicts, tombstones and failures, and whatever an older protocol left. *)
CursorSound ==
  protocol /\ crashes = 0 =>
    \A r \in Records :
      cloud[r].state = "live" /\ cloud[r].tag <= cursor /\ Settled(r)
        => /\ rows[r].here /\ rows[r].tag = cloud[r].tag
           /\ rows[r].title = cloud[r].title /\ rows[r].deleted = cloud[r].deleted

(* An edit leaves the outbox only when iCloud has accepted it or a conflict *)
(* about its reminder has been recorded, also with crashes between the      *)
(* statements that settle one.                                              *)
NothingDropped ==
  [][Len(outbox') < Len(outbox) =>
       \/ item.patch.title \in uploaded
       \/ \E i \in 1..Len(conflicts) : conflicts[i].id = item.id]_vars

(* Local writes carry the tag of the version they were made against, and a  *)
(* write over another device's version compares it.                         *)
NoSilentOverwrite ==
  [][\A r \in Records :
       cloud[r].by = "other" /\ cloud[r].state # "none" /\ cloud'[r].by = "pc"
         => item.base = cloud[r].tag]_vars

(* The head of the queue names no record that iCloud will ever know. *)
Stranded == outbox # <<>> /\ item.op # "create" /\
            (item.id \in LocalIds \/ cloud[item.id].state = "erased")

(* Queued edits are uploaded or become conflicts, unless an entry whose     *)
(* record is gone, or whose local id was replaced while the call that       *)
(* queues it was under way, has got to the head.                            *)
DrainsOrStrands == outbox # <<>> ~> (outbox = <<>> \/ Stranded)
=============================================================================
