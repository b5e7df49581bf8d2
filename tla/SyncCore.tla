------------------------------ MODULE SyncCore ------------------------------
(***************************************************************************)
(* One PC synchronising reminders with iCloud: the user's calls into       *)
(* ReminderService, the passes of SyncEngine over the cache, CloudKit's    *)
(* answers, another device writing to the same account, lost replies and   *)
(* crashes.                                                                *)
(*                                                                         *)
(* A pass runs beside the user's calls: each of its steps below is one     *)
(* request to iCloud or one transaction of the cache, and edits may happen *)
(* between any two of them.  Passes themselves never overlap (module       *)
(* SyncTickets), so one pc stands for the engine.                          *)
(*                                                                         *)
(* The cloud is external.  A record's change tag is the value of a clock   *)
(* that counts the writes to the zone; a sync token is a clock value, and  *)
(* the changes since a token are the records with a later tag.             *)
(***************************************************************************)
EXTENDS CacheOps, FiniteSets

CONSTANTS
  Records,      \* ids that iCloud records can have
  LocalIds,     \* ids "local/..." of reminders created here
  First,        \* the record that exists at the start
  NoId,         \* stands for an answer that names no record
  RaceReplies,  \* how iCloud may refuse a write whose record changed meanwhile
  ListsInDelta, \* whether the change stream tells of changed lists
  MaxEdits,     \* bound: calls of the user that change a reminder
  MaxOthers,    \* bound: writes of the other device, to reminders or lists
  MaxErases,    \* bound: records the other device removes for good
  MaxListEdits, \* bound: how many of them may be to the lists
  MaxFaults,    \* bound: failed requests, lost replies and crashes
  MaxEvents     \* bound: all of these together

Ids == Records \cup LocalIds

(* "record": the refusal carries the current record; "bare": it names the   *)
(* record but has no fields and no tag, as CloudKit.Reject makes it; "raw": *)
(* HTTP 409 with any other text.                                            *)
ASSUME IdsAssumption ==
  /\ Records \cap LocalIds = {} /\ NoId \notin Ids /\ First \in Records
ASSUME RepliesAssumption ==
  /\ RaceReplies \subseteq {"record", "bare", "raw"} /\ ListsInDelta \in BOOLEAN
ASSUME BoundsAssumption ==
  /\ MaxEdits \in Nat /\ MaxOthers \in Nat /\ MaxErases \in Nat
  /\ MaxListEdits \in Nat /\ MaxFaults \in Nat /\ MaxEvents \in Nat

VARIABLES
  (* The cache, which survives a crash. *)
  rows,         \* table reminders
  outbox,       \* table outbox, oldest first
  conflicts,    \* table conflicts, with the version each one was settled for
  cursor,       \* meta sync_cursor; 0 when there is none
  lists,        \* the version of the lists in table lists
  (* iCloud. *)
  cloud, clock, cloudLists,
  (* The running pass. *)
  pc,
  reply,        \* what iCloud answered to the request in hand
  local,        \* the row as read before the conflict transaction
  inbox,        \* downloaded records not yet applied
  next,         \* the sync token to save when all of them are
  victim,       \* the row whose deletion has been decided on
  listsChanged, \* a list was among the downloaded records
  (* How much the environment has done. *)
  edits, others, erases, listEdits, faults,
  minted,       \* the local ids given out; a GUID is never given out twice
  (* History, read by no action. *)
  wish,         \* the last text the user gave each row
  uploaded      \* the texts iCloud has accepted from this PC

cacheVars == <<rows, outbox, conflicts, cursor, lists>>
cloudVars == <<cloud, clock, cloudLists>>
passVars  == <<pc, reply, local, inbox, next, victim, listsChanged>>
envVars   == <<edits, others, erases, listEdits, faults, minted>>
history   == <<wish, uploaded>>
vars      == <<cacheVars, cloudVars, passVars, envVars, history>>

Stages == {"idle", "head", "modify", "replace", "ack", "upsert", "clash", "settle",
           "pull", "lists", "query", "apply", "tombstone"}

Record == [state : {"none", "live", "erased"}, title : Text, deleted : BOOLEAN,
           tag : Nat, by : {"pc", "other"}, born : Nat]
Reply  == [id : Records \cup {NoId}, title : Text, deleted : BOOLEAN, tag : Nat]
Change == [id : Records, state : {"live", "erased"}, title : Text,
           deleted : BOOLEAN, tag : Nat]
Conflict == [id : Ids, local : Row, remote : Reply, kept : {"none", "local", "remote"}]

CacheOK ==
  /\ rows \in [Ids -> Row]
  /\ outbox \in Seq(Item(Ids))
  /\ conflicts \in Seq(Conflict)
  /\ cursor \in Nat /\ lists \in Nat
CloudOK ==
  /\ cloud \in [Records -> Record]
  /\ clock \in Nat /\ cloudLists \in Nat
PassOK ==
  /\ pc \in Stages
  /\ reply \in Reply /\ local \in Row
  /\ inbox \subseteq Change
  /\ next \in Nat /\ victim \in Records \cup {NoId} /\ listsChanged \in BOOLEAN
EnvOK ==
  /\ edits \in Nat /\ others \in Nat /\ erases \in Nat /\ listEdits \in Nat
  /\ faults \in Nat
  /\ minted \subseteq LocalIds
  /\ wish \in [Ids -> Nat] /\ uploaded \subseteq Nat

TypeOK == CacheOK /\ CloudOK /\ PassOK /\ EnvOK

NoReply == [id |-> NoId, title |-> Blank, deleted |-> FALSE, tag |-> NoTag]

(* The environment may go on. *)
Budget == edits + others + erases + listEdits + faults < MaxEvents
MayFail == faults < MaxFaults /\ Budget

Written(state, title, deleted, tag, by, born) ==
  [state |-> state, title |-> title, deleted |-> deleted, tag |-> tag, by |-> by,
   born |-> born]
NoRecord == Written("none", Blank, FALSE, NoTag, "other", NoText)

(* The text of the next write, different from every text before. *)
Fresh == edits + others + 3

(* No sync token: none saved yet, or none in iCloud's answer. *)
NoCursor == 0

Answer(r, v) == [id |-> r, title |-> v.title, deleted |-> v.deleted, tag |-> v.tag]

(* The PC has either never synchronised or is up to date. *)
Init ==
  /\ cloud = [r \in Records |->
                IF r = First THEN Written("live", 2, FALSE, 1, "other", NoText)
                             ELSE NoRecord]
  /\ clock = 1 /\ cloudLists = 0 /\ lists = 0
  /\ \/ rows = [id \in Ids |-> NoRow] /\ cursor = 0
     \/ /\ rows = Upsert([id \in Ids |-> NoRow], First, cloud[First])
        /\ cursor = clock
  /\ outbox = <<>> /\ conflicts = <<>>
  /\ pc = "idle" /\ reply = NoReply /\ local = NoRow /\ inbox = {} /\ next = 0
  /\ victim = NoId /\ listsChanged = FALSE
  /\ edits = 0 /\ others = 0 /\ erases = 0 /\ listEdits = 0 /\ faults = 0
  /\ minted = {}
  /\ wish = [id \in Ids |-> NoText] /\ uploaded = {}

-----------------------------------------------------------------------------
(* The user, through ReminderService.  Each call is one transaction.        *)

UserCall == edits < MaxEdits /\ Budget /\ edits' = edits + 1

CreateReminder(id) ==
  /\ UserCall
  /\ id \in LocalIds \ minted /\ minted' = minted \cup {id}
  /\ rows' = UpsertLocal(rows, id, Fresh)
  /\ outbox' = Enqueue(outbox, id, "create", SetTitle(Fresh), NoTag)
  /\ wish' = [wish EXCEPT ![id] = Fresh]
  /\ UNCHANGED <<conflicts, cursor, lists, cloudVars, passVars, others, erases,
                 listEdits, faults, uploaded>>

(* LocalChange: the row and the outbox change together, and the entry      *)
(* carries the tag of the version the user was looking at.                 *)
LocalChange(id, o, p) ==
  /\ rows[id].here
  /\ rows' = Edit(rows, id, p, TRUE)
  /\ outbox' = Enqueue(outbox, id, o, IF o = "delete" THEN NoPatch ELSE p, rows[id].tag)
  /\ wish' = IF p.title = NoText THEN wish ELSE [wish EXCEPT ![id] = p.title]

UpdateReminder(id) ==
  /\ UserCall
  /\ LocalChange(id, "update", SetTitle(Fresh))
  /\ UNCHANGED <<conflicts, cursor, lists, cloudVars, passVars, others, erases,
                 listEdits, faults, minted, uploaded>>

DeleteReminder(id) ==
  /\ UserCall
  /\ LocalChange(id, "delete", SetDeleted("set"))
  /\ UNCHANGED <<conflicts, cursor, lists, cloudVars, passVars, others, erases,
                 listEdits, faults, minted, uploaded>>

(* Mutant of RestoreReminder: an operation the upload does not know. *)
RestoreAsRestore(id) ==
  /\ UserCall
  /\ LocalChange(id, "restore", SetDeleted("clear"))
  /\ UNCHANGED <<conflicts, cursor, lists, cloudVars, passVars, others, erases,
                 listEdits, faults, minted, uploaded>>

RestoreReminder(id) ==
  /\ UserCall
  /\ LocalChange(id, "update", SetDeleted("clear"))
  /\ UNCHANGED <<conflicts, cursor, lists, cloudVars, passVars, others, erases,
                 listEdits, faults, minted, uploaded>>

(* "Keep this PC": the fields of the kept version go through LocalChange as *)
(* an update, which knows the text fields and not the deletion mark.        *)
KeepLocal(i) ==
  /\ UserCall
  /\ conflicts[i].kept = "none"
  /\ LocalChange(conflicts[i].id, "update", SetTitle(conflicts[i].local.title))
  /\ conflicts' = [conflicts EXCEPT ![i].kept = "local"]
  /\ UNCHANGED <<cursor, lists, cloudVars, passVars, others, erases, listEdits,
                 faults, minted, uploaded>>

KeepRemote(i) ==
  /\ conflicts[i].kept = "none"
  /\ conflicts' = [conflicts EXCEPT ![i].kept = "remote"]
  /\ UNCHANGED <<rows, outbox, cursor, lists, cloudVars, passVars, envVars, history>>

UserNext ==
  \/ \E id \in LocalIds : CreateReminder(id)
  \/ \E id \in Ids : UpdateReminder(id)
  \/ \E id \in Ids : DeleteReminder(id)
  \/ \E id \in Ids : RestoreReminder(id)
  \/ \E i \in 1..Len(conflicts) : KeepLocal(i)
  \/ \E i \in 1..Len(conflicts) : KeepRemote(i)

-----------------------------------------------------------------------------
(* Another device of the same account. *)

OtherWrites(r, title, deleted, state) ==
  /\ cloud[r].state = "live"
  /\ clock' = clock + 1
  /\ cloud' = [cloud EXCEPT ![r] = Written(state, title, deleted, clock + 1,
                                           "other", cloud[r].born)]
  /\ UNCHANGED <<cloudLists, cacheVars, passVars, edits, listEdits, faults, minted,
                 history>>

OtherMay == others + listEdits < MaxOthers /\ Budget

OtherEdit(r) ==
  /\ OtherMay /\ others' = others + 1
  /\ OtherWrites(r, Fresh, cloud[r].deleted, "live")
  /\ UNCHANGED erases

OtherDelete(r) ==
  /\ OtherMay /\ others' = others + 1
  /\ ~cloud[r].deleted
  /\ OtherWrites(r, cloud[r].title, TRUE, "live")
  /\ UNCHANGED erases

OtherErase(r) ==
  /\ erases < MaxErases /\ Budget /\ erases' = erases + 1
  /\ OtherWrites(r, cloud[r].title, TRUE, "erased")
  /\ UNCHANGED others

OtherList ==
  /\ OtherMay /\ listEdits < MaxListEdits /\ listEdits' = listEdits + 1
  /\ clock' = clock + 1
  /\ cloudLists' = clock + 1
  /\ UNCHANGED <<cloud, cacheVars, passVars, edits, others, erases, faults, minted,
                 history>>

OtherNext ==
  \/ \E r \in Records : OtherEdit(r) \/ OtherDelete(r) \/ OtherErase(r)
  \/ OtherList

-----------------------------------------------------------------------------
(* A pass of SyncEngine. *)

Forget == /\ reply' = NoReply /\ local' = NoRow /\ inbox' = {} /\ next' = 0
          /\ victim' = NoId /\ listsChanged' = FALSE

(* An exception leaves the pass; only the cache and iCloud remember. *)
Abort == pc' = "idle" /\ Forget

(* The answer v arrives and the pass goes on at the given place, or it is   *)
(* lost and the pass ends.                                                  *)
Received(lost, place, v) ==
  IF lost
  THEN faults' = faults + 1 /\ Abort
  ELSE /\ pc' = place /\ reply' = v
       /\ UNCHANGED <<faults, local, inbox, next, victim, listsChanged>>

StartPass ==
  /\ pc = "idle" /\ pc' = "head"
  /\ UNCHANGED <<cacheVars, cloudVars, reply, local, inbox, next, victim,
                 listsChanged, envVars, history>>

(* The entry being uploaded, and what it asks iCloud to change. *)
HeadItem  == Head(outbox)
HeadPatch == IF HeadItem.op = "delete" THEN SetDeleted("set") ELSE HeadItem.patch

(* Push, a create: the record is made under an id chosen anew each time.    *)
(* The reply may be lost after iCloud has done its part.                    *)
PushCreate(r, lost) ==
  /\ pc = "head" /\ outbox # <<>> /\ HeadItem.op = "create"
  /\ cloud[r].state = "none"
  /\ lost => MayFail
  /\ clock' = clock + 1
  /\ cloud' = [cloud EXCEPT ![r] =
                 Written("live", PatchedTitle(NoRecord, HeadPatch), FALSE, clock + 1,
                         "pc", HeadPatch.title)]
  /\ uploaded' = uploaded \cup {HeadPatch.title}
  /\ Received(lost, "replace", Answer(r, cloud'[r]))
  /\ UNCHANGED <<cacheVars, cloudLists, edits, others, erases, listEdits, minted,
                 wish>>

(* The service may refuse a create outright (HTTP 409).  No record is named: *)
(* the id was chosen for this attempt and nobody else has it.               *)
CreateRefused ==
  /\ pc = "head" /\ outbox # <<>> /\ HeadItem.op = "create"
  /\ "raw" \in RaceReplies
  /\ MayFail /\ faults' = faults + 1
  /\ pc' = "clash" /\ reply' = NoReply
  /\ UNCHANGED <<cacheVars, cloudVars, local, inbox, next, victim, listsChanged,
                 edits, others, erases, listEdits, minted, history>>

(* Mutant of PushLookup: the base tag is not compared. *)
PushLookupBlind ==
  LET r == HeadItem.id IN
  /\ pc = "head" /\ outbox # <<>> /\ HeadItem.op # "create"
  /\ IF r \in Records /\ cloud[r].state = "live"
     THEN /\ pc' = "modify"
          /\ reply' = Answer(r, cloud[r])
          /\ UNCHANGED <<local, inbox, next, victim, listsChanged>>
     ELSE Abort
  /\ UNCHANGED <<cacheVars, cloudVars, envVars, history>>

(* Push, an update or a delete: Update looks the record up first.  A base   *)
(* tag that is not the record's is a conflict; no base tag never is.        *)
PushLookup ==
  LET r == HeadItem.id IN
  /\ pc = "head" /\ outbox # <<>> /\ HeadItem.op # "create"
  /\ IF r \in Records /\ cloud[r].state = "live"
     THEN /\ pc' = IF HeadItem.base \in {NoTag, cloud[r].tag} THEN "modify" ELSE "clash"
          /\ reply' = Answer(r, cloud[r])
          /\ UNCHANGED <<local, inbox, next, victim, listsChanged>>
     ELSE Abort
  /\ UNCHANGED <<cacheVars, cloudVars, envVars, history>>

(* Update's write, which iCloud takes if the tag looked up is still current. *)
PushModify(lost) ==
  LET r == reply.id
      changed == Written("live", PatchedTitle(cloud[r], HeadPatch),
                         PatchedDeleted(cloud[r], HeadPatch), clock + 1, "pc",
                         cloud[r].born)
  IN
  /\ pc = "modify"
  /\ cloud[r].state = "live" /\ cloud[r].tag = reply.tag
  /\ lost => MayFail
  /\ clock' = clock + 1
  /\ cloud' = [cloud EXCEPT ![r] = changed]
  /\ uploaded' = uploaded \cup {HeadPatch.title}
  /\ Received(lost, "ack", Answer(r, changed))
  /\ UNCHANGED <<cacheVars, cloudLists, edits, others, erases, listEdits, minted,
                 wish>>

(* Another device wrote between the lookup and the write. *)
Refusal(r, kind) ==
  CASE kind = "record" -> Answer(r, cloud[r])
    [] kind = "bare"   -> [NoReply EXCEPT !.id = r]
    [] kind = "raw"    -> NoReply

PushRefused(kind) ==
  LET r == reply.id IN
  /\ pc = "modify" /\ cloud[r].tag # reply.tag
  /\ IF cloud[r].state = "live"
     THEN Received(FALSE, "clash", Refusal(r, kind))
     ELSE Abort /\ UNCHANGED faults
  /\ UNCHANGED <<cacheVars, cloudVars, edits, others, erases, listEdits, minted,
                 history>>

(* A create is done: the id iCloud knows replaces the local one. *)
ReplaceId ==
  LET old == HeadItem.id IN
  /\ pc = "replace" /\ pc' = "ack"
  /\ rows' = ReplaceIdRows(rows, old, reply.id)
  /\ outbox' = ReplaceIdOutbox(outbox, old, reply.id)
  /\ wish' = [wish EXCEPT ![reply.id] = wish[old],
                          ![old] = IF old = reply.id THEN @ ELSE NoText]
  /\ UNCHANGED <<conflicts, cursor, lists, cloudVars, reply, local, inbox, next,
                 victim, listsChanged, envVars, uploaded>>

Ack ==
  /\ pc = "ack" /\ pc' = "upsert"
  /\ rows' = AcknowledgeRows(rows, outbox, reply.id, reply.tag)
  /\ outbox' = AcknowledgeOutbox(outbox, reply.id, reply.tag)
  /\ UNCHANGED <<conflicts, cursor, lists, cloudVars, reply, local, inbox, next,
                 victim, listsChanged, envVars, history>>

UpsertReply ==
  /\ pc = "upsert" /\ pc' = "head" /\ Forget
  /\ rows' = Upsert(rows, reply.id, reply)
  /\ UNCHANGED <<outbox, conflicts, cursor, lists, cloudVars, envVars, history>>

(* A conflict: the row is read, and then in one transaction both versions   *)
(* are kept, the entry leaves, and the row takes iCloud's version unless it *)
(* has later entries or the refusal named no record.                        *)
ReadLocal ==
  /\ pc = "clash" /\ pc' = "settle"
  /\ local' = rows[HeadItem.id]
  /\ UNCHANGED <<cacheVars, cloudVars, reply, inbox, next, victim, listsChanged,
                 envVars, history>>

(* Mutant of Settle: the row keeps the rejected edit. *)
SettleKeepsRow ==
  LET id == HeadItem.id IN
  /\ pc = "settle" /\ pc' = "head" /\ Forget
  /\ conflicts' = Append(conflicts, [id |-> id, local |-> local, remote |-> reply,
                                     kept |-> "none"])
  /\ outbox' = Tail(outbox)
  /\ UNCHANGED <<rows, cursor, lists, cloudVars, envVars, history>>

Settle ==
  LET id == HeadItem.id IN
  /\ pc = "settle" /\ pc' = "head" /\ Forget
  /\ conflicts' = Append(conflicts, [id |-> id, local |-> local, remote |-> reply,
                                     kept |-> "none"])
  /\ outbox' = Tail(outbox)
  /\ rows' = IF reply.id = NoId \/ Pending(outbox', id)
             THEN rows
             ELSE Upsert([rows EXCEPT ![id].dirty = FALSE], reply.id, reply)
  /\ UNCHANGED <<cursor, lists, cloudVars, envVars, history>>

PushDone ==
  /\ pc = "head" /\ outbox = <<>> /\ pc' = "pull"
  /\ UNCHANGED <<cacheVars, cloudVars, reply, local, inbox, next, victim,
                 listsChanged, envVars, history>>

-----------------------------------------------------------------------------
(* The pull.  A full one may be asked for at any time and is needed when    *)
(* there is no cursor.                                                      *)

Download(r) == [id |-> r, state |-> cloud[r].state, title |-> cloud[r].title,
                deleted |-> cloud[r].deleted, tag |-> cloud[r].tag]

Delta ==
  /\ pc = "pull" /\ cursor # NoCursor /\ pc' = "apply"
  /\ inbox' = {Download(r) : r \in {q \in Records : cloud[q].tag > cursor}}
  /\ next' \in {clock, NoCursor}
  /\ listsChanged' = (ListsInDelta /\ cloudLists > cursor)
  /\ UNCHANGED <<cacheVars, cloudVars, reply, local, victim, envVars, history>>

(* The sync token is taken before anything is downloaded. *)
FullCursor ==
  /\ pc = "pull" /\ pc' = "lists"
  /\ next' \in {clock, NoCursor}
  /\ UNCHANGED <<cacheVars, cloudVars, reply, local, inbox, victim, listsChanged,
                 envVars, history>>

FullLists ==
  /\ pc = "lists" /\ pc' = "query"
  /\ lists' = cloudLists
  /\ UNCHANGED <<rows, outbox, conflicts, cursor, cloudVars, reply, local, inbox,
                 next, victim, listsChanged, envVars, history>>

(* One list stands for all of them. *)
FullQuery ==
  /\ pc = "query" /\ pc' = "apply"
  /\ inbox' = {Download(r) : r \in {q \in Records : cloud[q].state = "live"}}
  /\ UNCHANGED <<cacheVars, cloudVars, reply, local, next, victim, listsChanged,
                 envVars, history>>

ApplyLive(x) ==
  /\ pc = "apply" /\ x.state = "live"
  /\ inbox' = inbox \ {x}
  /\ rows' = Upsert(rows, x.id, x)
  /\ UNCHANGED <<outbox, conflicts, cursor, lists, cloudVars, pc, reply, local, next,
                 victim, listsChanged, envVars, history>>

(* A removed record: the row is read, and marked in a second statement. *)
ReadTombstone(x) ==
  /\ pc = "apply" /\ x.state = "erased"
  /\ inbox' = inbox \ {x}
  /\ IF rows[x.id].dirty
     THEN UNCHANGED <<pc, victim>>
     ELSE pc' = "tombstone" /\ victim' = x.id
  /\ UNCHANGED <<cacheVars, cloudVars, reply, local, next, listsChanged, envVars,
                 history>>

MarkTombstone ==
  /\ pc = "tombstone" /\ pc' = "apply" /\ victim' = NoId
  /\ rows' = Edit(rows, victim, SetDeleted("set"), FALSE)
  /\ UNCHANGED <<outbox, conflicts, cursor, lists, cloudVars, reply, local, inbox,
                 next, listsChanged, envVars, history>>

RefreshLists ==
  /\ pc = "apply" /\ inbox = {} /\ listsChanged
  /\ lists' = cloudLists /\ listsChanged' = FALSE
  /\ UNCHANGED <<rows, outbox, conflicts, cursor, cloudVars, pc, reply, local, inbox,
                 next, victim, envVars, history>>

(* Mutant of Save: the position now, not the one before the download. *)
SaveNow ==
  /\ pc = "apply" /\ inbox = {} /\ ~listsChanged
  /\ pc' = "idle" /\ Forget
  /\ cursor' = clock
  /\ UNCHANGED <<rows, outbox, conflicts, lists, cloudVars, envVars, history>>

Save ==
  /\ pc = "apply" /\ inbox = {} /\ ~listsChanged
  /\ pc' = "idle" /\ Forget
  /\ cursor' = IF next = NoCursor THEN cursor ELSE next
  /\ UNCHANGED <<rows, outbox, conflicts, lists, cloudVars, envVars, history>>

-----------------------------------------------------------------------------
(* Failures. *)

(* A request fails and iCloud has done nothing.  The pass ends, or, when    *)
(* the session had expired and could be restored, Recover runs the push or  *)
(* the pull again from its start.                                           *)
Throw ==
  /\ MayFail /\ faults' = faults + 1
  /\ \/ pc = "head" /\ outbox # <<>> /\ pc' \in {"idle", "head"}
     \/ pc = "modify" /\ pc' \in {"idle", "head"}
     \/ pc \in {"pull", "lists", "query"} /\ pc' \in {"idle", "pull"}
     \/ pc = "apply" /\ inbox = {} /\ listsChanged /\ pc' \in {"idle", "pull"}
  /\ Forget
  /\ UNCHANGED <<cacheVars, cloudVars, edits, others, erases, listEdits, minted,
                 history>>

(* The process dies; the cache is on disk. *)
Crash ==
  /\ MayFail /\ faults' = faults + 1
  /\ pc # "idle" /\ Abort
  /\ UNCHANGED <<cacheVars, cloudVars, edits, others, erases, listEdits, minted,
                 history>>

-----------------------------------------------------------------------------

(* The steps a pass takes when nothing goes wrong. *)
EngineStep ==
  \/ StartPass
  \/ \E r \in Records : PushCreate(r, FALSE)
  \/ PushLookup \/ PushModify(FALSE)
  \/ \E kind \in RaceReplies : PushRefused(kind)
  \/ ReplaceId \/ Ack \/ UpsertReply \/ ReadLocal \/ Settle \/ PushDone
  \/ Delta \/ FullCursor \/ FullLists \/ FullQuery
  \/ \E x \in inbox : ApplyLive(x) \/ ReadTombstone(x)
  \/ MarkTombstone \/ RefreshLists \/ Save

FaultNext ==
  \/ \E r \in Records : PushCreate(r, TRUE)
  \/ PushModify(TRUE)
  \/ CreateRefused
  \/ Throw \/ Crash

Next == UserNext \/ OtherNext \/ EngineStep \/ FaultNext

Spec == Init /\ [][Next]_vars

(* Each edit, the timer and the start of the program ask for a pass, and    *)
(* SyncTickets shows that a request is served; a pass that has begun goes   *)
(* on.  The user, the other device and the faults owe nothing.              *)
FairSpec == Spec /\ WF_vars(EngineStep)

-----------------------------------------------------------------------------
(* Properties. *)

(* A row whose reminder has an entry in the outbox is marked dirty, which   *)
(* is all that Upsert and the tombstone check go by when they spare it: a   *)
(* clean one would be overwritten by a download before it is uploaded.      *)
PendingIsDirty == \A id \in Ids : Pending(outbox, id) => rows[id].dirty

(* An entry settled from a refusal that named no record: nothing clears the  *)
(* mark of its row.                                                         *)
Orphaned(id) ==
  \E i \in 1..Len(conflicts) : conflicts[i].id = id /\ conflicts[i].remote.id = NoId

ErasedRecord(id) == id \in Records /\ cloud[id].state = "erased"

(* A row is dirty exactly while its reminder has an entry, through every    *)
(* interleaving of edits with the acknowledgement of earlier ones.  The two *)
(* exceptions: the tombstone of a record removed for good may come between  *)
(* (the unconditional claim is PendingIsDirty, which fails), and a refusal  *)
(* that names no record leaves the mark behind.                             *)
DirtyMeansPending ==
  \A id \in Ids :
    /\ Pending(outbox, id) => rows[id].dirty \/ ErasedRecord(id)
    /\ rows[id].dirty => Pending(outbox, id) \/ Orphaned(id)

Texts(id) == {i \in 1..Len(outbox) : outbox[i].id = id /\ outbox[i].patch.title # NoText}

(* What the user typed last and has not been uploaded is what the list      *)
(* shows: neither a download nor the answer to an earlier upload shows      *)
(* through a newer edit.                                                    *)
ReadYourWrites ==
  \A id \in Ids : \A i \in Texts(id) :
    (\A j \in Texts(id) : j <= i) => rows[id].title = outbox[i].patch.title

(* The last text the user gave a reminder has reached iCloud, waits in the  *)
(* outbox, or is kept as the local version of a conflict, whatever the      *)
(* crashes, lost replies and the other device did.                          *)
NoLostEdit ==
  \A id \in Ids : wish[id] # NoText =>
    \/ wish[id] \in uploaded
    \/ \E i \in Texts(id) : outbox[i].patch.title = wish[id]
    \/ \E i \in 1..Len(conflicts) : conflicts[i].local.title = wish[id]

(* This PC replaces another device's version. *)
Overwrites(r) ==
  cloud[r].by = "other" /\ cloud[r].state # "none" /\ cloud'[r].by = "pc"

(* It does so only when the edit it uploads was made against that version:  *)
(* docs/protocol-findings.md, "mismatches become user-visible conflicts     *)
(* rather than last-write-wins overwrites".                                 *)
NoSilentOverwrite ==
  [][\A r \in Records : Overwrites(r) => HeadItem.base = cloud[r].tag]_vars

(* A conflict of id was settled from a refusal that did not tell which      *)
(* version the edit lost against.                                           *)
Untold(id) ==
  \E i \in 1..Len(conflicts) : conflicts[i].id = id /\ conflicts[i].remote.tag = NoTag

(* In which cases it does, whatever shape iCloud's refusals have: the edit  *)
(* was made against that very version, or it carries no tag and there has   *)
(* been an untold conflict of the reminder.  It is never an edit of an      *)
(* older version, and without such a conflict never one of a version that   *)
(* is not known.                                                            *)
NoBlindOverwrite ==
  [][\A r \in Records : Overwrites(r) =>
       \/ HeadItem.base = cloud[r].tag
       \/ HeadItem.base = NoTag /\ Untold(r)]_vars

(* Changes up to the saved token have been taken over: a clean row shows    *)
(* every record that is not newer than the token, so the next delta, which  *)
(* starts there, misses nothing.                                            *)
CursorSound ==
  \A r \in Records :
    cloud[r].state = "live" /\ cloud[r].tag <= cursor /\ ~rows[r].dirty
      => /\ rows[r].here
         /\ rows[r].title = cloud[r].title
         /\ rows[r].deleted = cloud[r].deleted
         /\ rows[r].tag = cloud[r].tag

(* One reminder created here is one record in iCloud, and one more for each *)
(* reply or process lost between iCloud's doing and the acknowledgement.    *)
OneRecordPerCreate ==
  \A r \in Records : cloud[r].born # NoText =>
    Cardinality({q \in Records : cloud[q].born = cloud[r].born}) <= 1 + faults

(* Edits of this PC alone never end in a conflict with themselves, however  *)
(* many are queued while others are being uploaded: it takes another        *)
(* device, or an answer that got lost.                                      *)
ConflictIsGenuine == conflicts # <<>> => others + faults > 0

Synced ==
  /\ outbox = <<>>
  /\ \A r \in Records : cloud[r].state = "live" =>
       /\ rows[r].here
       /\ rows[r].title = cloud[r].title /\ rows[r].deleted = cloud[r].deleted

(* Once everybody stops editing, every queued edit leaves the outbox,       *)
(* uploaded or turned into a conflict, and the cache comes to show the      *)
(* reminders that iCloud has.                                               *)
Converges == <>[]Synced

(* "Keep this PC" brings back the version that was edited on this PC. *)
KeepsThisPc ==
  [][\A i \in 1..Len(conflicts) :
       conflicts[i].kept = "none" /\ conflicts'[i].kept = "local"
         => LET row == rows'[conflicts[i].id] IN
            /\ row.title = conflicts[i].local.title
            /\ row.deleted = conflicts[i].local.deleted]_vars
=============================================================================
