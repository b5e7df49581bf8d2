------------------------- MODULE SidecarSyncProofs -------------------------
(***************************************************************************)
(* The types of SidecarSync, that no edit is dropped, and that the saved   *)
(* token is sound, for any number of tasks, records, edits, writes of      *)
(* other devices and mishaps.                                              *)
(***************************************************************************)
EXTENDS SidecarSync, CacheOpsProofs

CacheOK ==
  /\ rows \in [Ids -> Row] /\ outbox \in Seq(Item(Ids)) /\ conflicts \in Seq(Conflict)
  /\ cursor \in Nat /\ protocol \in BOOLEAN
CloudOK == cloud \in [Records -> Record] /\ clock \in Nat
PassOK ==
  /\ pc \in Places /\ reply \in Reply /\ local \in Row /\ full \in BOOLEAN
  /\ updated \subseteq Change /\ deleted \subseteq Records
  /\ victim \in Records \cup {NoId} /\ next \in Nat
CallOK == call \in [Calls -> Call]
EnvOK ==
  /\ edits \in Nat /\ others \in Nat /\ erases \in Nat /\ faults \in Nat
  /\ crashes \in Nat /\ minted \subseteq LocalIds
  /\ wish \in [Ids -> Nat] /\ uploaded \subseteq Nat

(* The parts of the type invariant. *)
LEMMA TypeParts == TypeOK <=> CacheOK /\ CloudOK /\ PassOK /\ CallOK /\ EnvOK
BY DEF TypeOK, CacheOK, CloudOK, PassOK, CallOK, EnvOK

Settling == {"clash", "record", "clear", "takeover", "dequeue"}
Writing  == {"replace", "ack", "upsert"}

(* While an entry is uploaded or its conflict settled, it is the first of   *)
(* the outbox, for calls only append, and the answer in hand is about its   *)
(* record.                                                                  *)
Upload ==
  /\ pc \in {"modify", "replace", "ack"} \cup Settling => outbox # <<>>
  /\ pc \in {"modify", "clear", "takeover"} \cup Writing => reply.id \in Records
  /\ pc \in {"modify", "ack"} => item.id = reply.id
  /\ pc \in Settling => item.id \in Records /\ reply.id \in {item.id, NoId}
  /\ pc = "unmark" => victim \in Records

Typed == CacheOK /\ CloudOK /\ PassOK /\ CallOK /\ EnvOK /\ Upload

(* The patches and the empty values are of the right kind. *)
LEMMA Constants ==
  /\ NoReply \in Reply /\ NoRow \in Row /\ NoPatch \in Patch /\ NoCall \in Call
  /\ \A t \in Nat : SetTitle(t) \in Patch /\ SetTitle(t).title = t
  /\ \A m \in Marks : SetDeleted(m) \in Patch /\ SetDeleted(m).title = NoText
  /\ Text \subseteq Nat /\ Blank \in Text /\ NoPatch.title = NoText
  /\ Records \subseteq Ids /\ LocalIds \subseteq Ids /\ NoId \notin Records
<1> USE IdsAssumption DEF NoText, Blank, NoTag, Text, Ids
<1>1. NoReply \in Reply /\ NoRow \in Row
  BY DEF NoReply, Reply, NoRow, Row
<1>2. NoPatch \in Patch /\ NoPatch = [title |-> 0, deleted |-> "keep"]
  BY DEF NoPatch, Patch, Marks
<1>3. NoCall \in Call
  BY <1>2 DEF NoCall, Call
<1>4. \A t \in Nat : SetTitle(t) \in Patch /\ SetTitle(t).title = t
  BY <1>2 DEF SetTitle, Patch, Marks
<1>5. \A m \in Marks : SetDeleted(m) \in Patch /\ SetDeleted(m).title = 0
  <2> TAKE m \in Marks
  <2>1. SetDeleted(m) = [title |-> 0, deleted |-> m]
    BY DEF SetDeleted, NoPatch
  <2> QED
    BY <2>1 DEF Patch
<1> QED
  BY <1>1, <1>2, <1>3, <1>4, <1>5

(* A text somebody types is a text. *)
LEMMA FreshType ==
  ASSUME EnvOK
  PROVE  Fresh \in Text /\ Fresh \in Nat
BY DEF EnvOK, Fresh, Text, NoText

(* The entry in hand. *)
LEMMA HeadTyped ==
  ASSUME CacheOK, outbox # <<>>
  PROVE  /\ item \in Item(Ids) /\ item = outbox[1] /\ 1 \in 1..Len(outbox)
         /\ item.id \in Ids /\ item.base \in Nat /\ item.patch \in Patch
         /\ HeadPatch \in Patch /\ HeadPatch.title \in Nat
         /\ Tail(outbox) \in Seq(Item(Ids))
<1>1. /\ item \in Item(Ids) /\ item = outbox[1] /\ 1 \in 1..Len(outbox)
      /\ Tail(outbox) \in Seq(Item(Ids))
  BY HeadTailType DEF CacheOK, item
<1>2. item.id \in Ids /\ item.base \in Nat /\ item.patch \in Patch
  BY <1>1 DEF Item
<1>3. HeadPatch \in Patch
  BY <1>2, Constants DEF HeadPatch, Marks
<1>4. HeadPatch.title \in Nat
  BY <1>3 DEF Patch
<1> QED
  BY <1>1, <1>2, <1>3, <1>4

(* A patch applied to something with a text and a mark gives both. *)
LEMMA PatchedTypes ==
  ASSUME NEW p \in Patch, NEW r, r.title \in Text, r.deleted \in BOOLEAN
  PROVE  PatchedTitle(r, p) \in Text /\ PatchedDeleted(r, p) \in BOOLEAN
BY DEF PatchedTitle, PatchedDeleted, Patch, Marks, Text

(* What iCloud sends is of the right kind. *)
LEMMA AnswerTyped ==
  ASSUME NEW r \in Records, NEW v, v.title \in Text, v.deleted \in BOOLEAN,
         v.tag \in Nat
  PROVE  /\ Answer(r, v) \in Reply /\ Answer(r, v).id = r /\ Answer(r, v).tag = v.tag
         /\ Answer(r, v).title = v.title /\ Answer(r, v).deleted = v.deleted
BY DEF Answer, Reply

(* So is a record of the account, and what is downloaded of it. *)
LEMMA RecordTyped ==
  ASSUME CloudOK, NEW r \in Records
  PROVE  /\ cloud[r].title \in Text /\ cloud[r].deleted \in BOOLEAN
         /\ cloud[r].tag \in Nat /\ cloud[r] \in Record /\ cloud[r].born \in Nat
         /\ Download(r) \in Change /\ Download(r).id = r
         /\ Download(r).tag = cloud[r].tag /\ Download(r).title = cloud[r].title
         /\ Download(r).deleted = cloud[r].deleted
<1>1. cloud[r] \in Record
  BY DEF CloudOK
<1>2. /\ cloud[r].title \in Text /\ cloud[r].deleted \in BOOLEAN
      /\ cloud[r].tag \in Nat /\ cloud[r].born \in Nat
  BY <1>1 DEF Record
<1> QED
  BY <1>1, <1>2 DEF Download, Change

(* A record as somebody writes it. *)
LEMMA WrittenTyped ==
  ASSUME NEW v, v.title \in Text, v.deleted \in BOOLEAN, v.tag \in Nat,
         NEW state \in {"none", "live", "erased"}, NEW by \in {"pc", "other"},
         NEW born \in Nat
  PROVE  /\ Written(state, v, by, born) \in Record
         /\ Written(state, v, by, born).state = state
         /\ Written(state, v, by, born).tag = v.tag
         /\ Written(state, v, by, born).title = v.title
         /\ Written(state, v, by, born).deleted = v.deleted
BY DEF Written, Record

(* Downloaded versions go over the rows that are not dirty. *)
LEMMA UpsertedRows ==
  ASSUME CacheOK, NEW xs \in SUBSET (Change \cup Reply), NEW q \in Ids
  PROVE  /\ upsert_reminders(xs) \in [Ids -> Row]
         /\ upsert_reminders(xs)[q].dirty = rows[q].dirty
         /\ rows[q].dirty \/ (\A x \in xs : x.id # q) => upsert_reminders(xs)[q] = rows[q]
         /\ ~rows[q].dirty /\ (\E x \in xs : x.id = q)
              => \E x \in xs : /\ x.id = q
                               /\ upsert_reminders(xs)[q].here
                               /\ upsert_reminders(xs)[q].tag = x.tag
                               /\ upsert_reminders(xs)[q].title = x.title
                               /\ upsert_reminders(xs)[q].deleted = x.deleted
<1> DEFINE new == upsert_reminders(xs)
           Chosen(id) == CHOOSE y \in xs : y.id = id
           Takes(id) == ~rows[id].dirty /\ \E x \in xs : x.id = id
<1>1. \A id \in Ids : rows[id] \in Row /\ rows[id].dirty \in BOOLEAN
  BY DEF CacheOK, Row
<1>2. \A id \in Ids : new[id] =
        IF Takes(id)
        THEN [here |-> TRUE, title |-> Chosen(id).title, deleted |-> Chosen(id).deleted,
              tag |-> Chosen(id).tag, dirty |-> FALSE]
        ELSE rows[id]
  BY DEF upsert_reminders
<1>3. \A id \in Ids : Takes(id) => Chosen(id) \in xs /\ Chosen(id).id = id
  OBVIOUS
<1>4. \A x \in xs : x.title \in Text /\ x.deleted \in BOOLEAN /\ x.tag \in Nat
  BY DEF Change, Reply
<1> DEFINE Taken(id) == [here |-> TRUE, title |-> Chosen(id).title,
                         deleted |-> Chosen(id).deleted, tag |-> Chosen(id).tag,
                         dirty |-> FALSE]
<1>5. ASSUME NEW id \in Ids PROVE new[id] \in Row
  <2>1. CASE Takes(id)
    <3>1. Chosen(id) \in xs
      BY <1>3, <2>1
    <3>2. /\ Chosen(id).title \in Text /\ Chosen(id).deleted \in BOOLEAN
          /\ Chosen(id).tag \in Nat
      BY <1>4, <3>1
    <3>3. new[id] = Taken(id)
      BY <1>2, <2>1
    <3> HIDE DEF Chosen, Takes, new
    <3> QED
      BY <3>2, <3>3 DEF Row
  <2>2. CASE ~Takes(id)
    BY <1>1, <1>2, <2>2
  <2> QED
    BY <2>1, <2>2
<1>6. new \in [Ids -> Row]
  BY <1>5 DEF upsert_reminders
<1>7. Takes(q) => ~new[q].dirty /\ ~rows[q].dirty /\ new[q].here
                  /\ new[q].tag = Chosen(q).tag /\ new[q].title = Chosen(q).title
                  /\ new[q].deleted = Chosen(q).deleted
  <2> SUFFICES ASSUME Takes(q)
               PROVE  /\ ~new[q].dirty /\ ~rows[q].dirty /\ new[q].here
                      /\ new[q].tag = Chosen(q).tag /\ new[q].title = Chosen(q).title
                      /\ new[q].deleted = Chosen(q).deleted
    OBVIOUS
  <2>1. new[q] = Taken(q) /\ ~rows[q].dirty
    BY <1>2
  <2> HIDE DEF Chosen, Takes, new
  <2> QED
    BY <2>1
<1>8. ~Takes(q) => new[q] = rows[q]
  BY <1>2
<1> HIDE DEF Chosen
<1>9. new[q].dirty = rows[q].dirty
  BY <1>1, <1>5, <1>7, <1>8 DEF Row
<1> HIDE DEF new
<1>10. /\ new \in [Ids -> Row] /\ new[q].dirty = rows[q].dirty
       /\ rows[q].dirty \/ (\A x \in xs : x.id # q) => new[q] = rows[q]
       /\ ~rows[q].dirty /\ (\E x \in xs : x.id = q)
            => \E x \in xs : /\ x.id = q /\ new[q].here /\ new[q].tag = x.tag
                             /\ new[q].title = x.title /\ new[q].deleted = x.deleted
  BY <1>3, <1>6, <1>7, <1>8, <1>9
<1> QED
  BY <1>10 DEF new

(* A row made clean keeps its text. *)
LEMMA ClearedRows ==
  ASSUME CacheOK, NEW id \in Ids, NEW tag \in Nat, NEW q \in Ids
  PROVE  /\ clear_dirty(id, tag) \in [Ids -> Row]
         /\ q # id => clear_dirty(id, tag)[q] = rows[q]
<1> DEFINE r == [rows[id] EXCEPT !.dirty = FALSE, !.tag = tag]
<1>1. rows \in [Ids -> Row] /\ rows[id] \in Row
  BY DEF CacheOK
<1>2. r \in Row
  BY <1>1 DEF Row
<1>3. clear_dirty(id, tag) = IF rows[id].here THEN [rows EXCEPT ![id] = r] ELSE rows
  BY DEF clear_dirty
<1> HIDE DEF r
<1> QED
  BY <1>1, <1>2, <1>3

-----------------------------------------------------------------------------
(* The types. *)

(* The user's calls keep the types and the entry in hand. *)
CallKeeps ==
  /\ CacheOK' /\ CallOK' /\ EnvOK' /\ UNCHANGED <<cloud, clock>> /\ UNCHANGED passVars
  /\ outbox # <<>> => outbox' # <<>> /\ Head(outbox') = Head(outbox)

(* An edit applied to the rows keeps their types.                           *)
LEMMA EditTyped ==
  ASSUME CacheOK, NEW id \in Ids, NEW p \in Patch
  PROVE  /\ apply_local_edit(id, p) \in [Ids -> Row]
         /\ \A q \in Ids \ {id} : apply_local_edit(id, p)[q] = rows[q]
         /\ apply_local_edit(id, p)[id].here = rows[id].here
         /\ apply_local_edit(id, p)[id].tag = rows[id].tag
         /\ rows[id].here /\ p # NoPatch => apply_local_edit(id, p)[id].dirty
<1>1. PICK d \in BOOLEAN : d = TRUE
  OBVIOUS
<1>2. apply_local_edit(id, p) = Edit(rows, id, p, d)
  BY <1>1, Zenon DEF apply_local_edit
<1>3. rows \in [Ids -> Row]
  BY DEF CacheOK
<1>4. /\ Edit(rows, id, p, d) \in [Ids -> Row]
      /\ \A q \in Ids \ {id} : Edit(rows, id, p, d)[q] = rows[q]
      /\ Edit(rows, id, p, d)[id].here = rows[id].here
      /\ Edit(rows, id, p, d)[id].tag = rows[id].tag
      /\ rows[id].here /\ p # NoPatch => Edit(rows, id, p, d)[id].dirty = d
  BY <1>3, EditRows
<1> QED
  BY <1>1, <1>2, <1>4

(* A conflict in the table, marked as resolved or not. *)
LEMMA ResolvedTyped ==
  ASSUME CacheOK, NEW i
  PROVE  /\ [conflicts EXCEPT ![i].resolved = TRUE] \in Seq(Conflict)
         /\ Len([conflicts EXCEPT ![i].resolved = TRUE]) = Len(conflicts)
         /\ \A j \in 1..Len(conflicts) :
              [conflicts EXCEPT ![i].resolved = TRUE][j].id = conflicts[j].id
<1> DEFINE w == [conflicts[i] EXCEPT !.resolved = TRUE]
           new == [conflicts EXCEPT ![i] = w]
<1>1. conflicts \in Seq(Conflict) /\ Len(conflicts) \in Nat
      /\ conflicts \in [1..Len(conflicts) -> Conflict]
  BY DEF CacheOK
<1>2. i \in 1..Len(conflicts) => w \in Conflict /\ w.id = conflicts[i].id
  BY <1>1 DEF Conflict
<1> HIDE DEF w
<1>3. new \in [1..Len(conflicts) -> Conflict]
  BY <1>1, <1>2
<1>4. \A j \in 1..Len(conflicts) : new[j].id = conflicts[j].id
  BY <1>1, <1>2
<1>5. new \in Seq(Conflict) /\ Len(new) = Len(conflicts)
  <2> HIDE DEF new
  <2> QED
    BY <1>1, <1>3
<1> QED
  BY <1>4, <1>5 DEF new, w

(* A new reminder gets a row and a local id that was never used.            *)
LEMMA CreateKeeps ==
  ASSUME Typed, NEW c \in Calls, NEW id \in LocalIds, create_reminder(c, id)
  PROVE  CallKeeps
<1> USE DEF Typed
<1>1. id \in Ids /\ SetTitle(Fresh) \in Patch /\ Fresh \in Text /\ Fresh \in Nat
  BY FreshType, Constants
<1> DEFINE r == [here |-> TRUE, title |-> Fresh, deleted |-> FALSE, tag |-> NoTag,
                 dirty |-> TRUE]
           k == [NoCall EXCEPT !.stage = "enqueue", !.op = "create", !.id = id,
                               !.patch = SetTitle(Fresh)]
<1>2. r \in Row
  BY <1>1 DEF Row, NoTag
<1>3. k \in Call
  BY <1>1, Constants DEF Call
<1>4. rows' = [rows EXCEPT ![id] = r] /\ call' = [call EXCEPT ![c] = k]
  BY DEF create_reminder, insert_local_reminder, UpsertLocal
<1> HIDE DEF r, k
<1>5. CacheOK'
  BY <1>1, <1>2, <1>4 DEF CacheOK, create_reminder
<1>6. CallOK'
  BY <1>3, <1>4 DEF CallOK
<1>7. EnvOK'
  BY <1>1 DEF EnvOK, create_reminder, UserCall
<1> QED
  BY <1>5, <1>6, <1>7 DEF CallKeeps, create_reminder, cloudVars

(* An update, a delete or a restore writes its row first.                   *)
LEMMA BeginKeeps ==
  ASSUME Typed, NEW c \in Calls, NEW id \in Ids, NEW op \in {"update", "delete"},
         NEW p \in Patch, Begin(c, id, op, p)
  PROVE  CallKeeps
<1> USE DEF Typed
<1> DEFINE k == [NoCall EXCEPT !.stage = "edit", !.op = op, !.id = id,
                               !.patch = p, !.base = rows[id].tag]
<1>1. rows[id].tag \in Nat /\ p.title \in Nat
  BY DEF CacheOK, Row, Patch
<1>2. k \in Call
  BY <1>1, Constants DEF Call
<1>3. call' = [call EXCEPT ![c] = k]
  BY DEF Begin
<1> HIDE DEF k
<1>4. CallOK'
  BY <1>2, <1>3 DEF CallOK
<1>5. EnvOK'
  BY <1>1 DEF EnvOK, Begin, UserCall
<1> QED
  BY <1>4, <1>5 DEF CallKeeps, Begin, cloudVars, cacheVars, CacheOK

(* Keeping this PC's version takes up an edit with the text the PC had.     *)
LEMMA KeepLocalKeeps ==
  ASSUME Typed, NEW c \in Calls, NEW i \in 1..Len(conflicts), keep_local(c, i)
  PROVE  CallKeeps
<1> USE DEF Typed
<1> DEFINE x == conflicts[i]
           k == [NoCall EXCEPT !.stage = "edit", !.id = x.id,
                               !.patch = SetTitle(x.local.title), !.conflict = i]
<1>1. x \in Conflict /\ i \in Nat
  BY DEF CacheOK
<1>2. x.id \in Ids /\ x.local.title \in Nat
  BY <1>1 DEF Conflict, Row, Text
<1>3. call' = [call EXCEPT ![c] = k] /\ wish' = [wish EXCEPT ![x.id] = x.local.title]
  BY DEF keep_local
<1> HIDE DEF x
<1>4. k \in Call
  BY <1>1, <1>2, Constants DEF Call
<1> HIDE DEF k
<1>5. CallOK'
  BY <1>3, <1>4 DEF CallOK
<1>6. /\ UserCall /\ UNCHANGED <<cacheVars, cloudVars, passVars, others, erases, faults>>
      /\ UNCHANGED <<crashes, minted, uploaded>>
  BY DEF keep_local
<1>7. wish' \in [Ids -> Nat]
  BY <1>2, <1>3 DEF EnvOK
<1>8. EnvOK'
  BY <1>6, <1>7 DEF EnvOK, UserCall
<1> QED
  BY <1>5, <1>6, <1>8 DEF CallKeeps, cloudVars, cacheVars, CacheOK

(* What a call under way is about. *)
LEMMA CallFields ==
  ASSUME CallOK, NEW c \in Calls
  PROVE  /\ call[c] \in Call /\ call[c].id \in Ids /\ call[c].patch \in Patch
         /\ call[c].base \in Nat /\ call[c].op \in {"create", "update", "delete"}
BY DEF CallOK, Call

(* A call appends its entry, and so never moves the first one.              *)
LEMMA EnqueueKeeps ==
  ASSUME Typed, NEW c \in Calls, EnqueueEdit(c)
  PROVE  /\ CallKeeps
         /\ Len(outbox') = Len(outbox) + 1
         /\ \A i \in 1..Len(outbox) : outbox'[i] = outbox[i]
         /\ outbox'[Len(outbox) + 1].op = call[c].op
         /\ outbox'[Len(outbox) + 1].id = call[c].id
         /\ outbox'[Len(outbox) + 1].patch
              = IF call[c].op = "delete" THEN NoPatch ELSE call[c].patch
<1> USE DEF Typed
<1> DEFINE k == call[c]
           p == IF k.op = "delete" THEN NoPatch ELSE k.patch
<1>1. k \in Call /\ k.id \in Ids /\ p \in Patch /\ k.base \in Nat
      /\ k.op \in {"create", "update", "delete"}
  BY CallFields, Constants
<1>2. outbox' = Enqueue(outbox, k.id, k.op, p, k.base)
  BY DEF EnqueueEdit
<1>3. call' = [call EXCEPT ![c] = NoCall] \/ call' = [call EXCEPT ![c].stage = "resolve"]
  BY DEF EnqueueEdit, Finish, To
<1>4. CallOK'
  BY <1>1, <1>3, Constants DEF CallOK, Call
<1> HIDE DEF k, p
<1>5. /\ outbox' \in Seq(Item(Ids)) /\ outbox' # <<>>
      /\ Len(outbox') = Len(outbox) + 1
      /\ outbox'[Len(outbox) + 1] = [op |-> k.op, id |-> k.id, patch |-> p, base |-> k.base]
      /\ \A i \in 1..Len(outbox) : outbox'[i] = outbox[i]
      /\ outbox # <<>> => Head(outbox') = Head(outbox)
  BY <1>1, <1>2, EnqueueEntries DEF CacheOK
<1>6. CacheOK'
  BY <1>5 DEF CacheOK, EnqueueEdit
<1>7. EnvOK'
  BY DEF EnvOK, EnqueueEdit, envVars, history
<1>8. UNCHANGED <<cloud, clock>> /\ UNCHANGED passVars
  BY DEF EnqueueEdit, cloudVars
<1>9. /\ outbox'[Len(outbox) + 1].op = k.op /\ outbox'[Len(outbox) + 1].id = k.id
      /\ outbox'[Len(outbox) + 1].patch = p
  BY <1>5
<1> QED
  BY <1>4, <1>5, <1>6, <1>7, <1>8, <1>9 DEF CallKeeps, k, p

(* So it is for every step of a call.                                       *)
LEMMA CallsKeep ==
  ASSUME Typed, UserNext \/ CallStep
  PROVE  CallKeeps
<1> USE DEF Typed
<1>1. ASSUME NEW c \in Calls, NEW id \in LocalIds, create_reminder(c, id) PROVE CallKeeps
  BY <1>1, CreateKeeps
<1>2. ASSUME NEW c \in Calls, NEW id \in Ids,
             update_reminder(c, id) \/ delete_reminder(c, id) \/ restore_reminder(c, id)
      PROVE  CallKeeps
  <2>1. /\ SetTitle(Fresh) \in Patch /\ SetDeleted("set") \in Patch
        /\ SetDeleted("clear") \in Patch
    BY FreshType, Constants DEF Marks
  <2> QED
    BY <1>2, <2>1, BeginKeeps DEF update_reminder, delete_reminder, restore_reminder
<1>3. ASSUME NEW c \in Calls, NEW i \in 1..Len(conflicts),
             keep_local(c, i) \/ resolve_conflict(c, i)
      PROVE  CallKeeps
  <2>1. CASE keep_local(c, i)
    BY <2>1, KeepLocalKeeps
  <2>2. CASE resolve_conflict(c, i)
    <3>1. conflicts' \in Seq(Conflict)
      BY <2>2, ResolvedTyped DEF resolve_conflict
    <3> QED
      BY <2>2, <3>1 DEF CallKeeps, resolve_conflict, CacheOK, CallOK, EnvOK, cloudVars,
         envVars, history
  <2> QED
    BY <1>3, <2>1, <2>2
<1>4. ASSUME NEW c \in Calls, ApplyEdit(c) PROVE CallKeeps
  <2>1. rows' \in [Ids -> Row]
    BY <1>4, CallFields, EditTyped DEF ApplyEdit
  <2>2. call' \in [Calls -> Call]
    BY <1>4, CallFields DEF ApplyEdit, To, CallOK, Call
  <2> QED
    BY <1>4, <2>1, <2>2 DEF CallKeeps, ApplyEdit, CacheOK, CallOK, EnvOK, cloudVars,
       envVars, history
<1>5. ASSUME NEW c \in Calls, Reread(c) PROVE CallKeeps
  <2> DEFINE k == [call[c] EXCEPT !.stage = "enqueue", !.base = rows[call[c].id].tag]
  <2>1. rows[call[c].id].tag \in Nat /\ call[c] \in Call
    BY CallFields DEF CacheOK, Row
  <2>2. k \in Call
    BY <2>1 DEF Call
  <2>3. call' = [call EXCEPT ![c] = k]
    BY <1>5 DEF Reread
  <2> HIDE DEF k
  <2>4. call' \in [Calls -> Call]
    BY <2>2, <2>3 DEF CallOK
  <2> QED
    BY <1>5, <2>4 DEF CallKeeps, Reread, CacheOK, CallOK, EnvOK, cacheVars, cloudVars,
       envVars, history
<1>6. ASSUME NEW c \in Calls, EnqueueEdit(c) PROVE CallKeeps
  BY <1>6, EnqueueKeeps
<1>7. ASSUME NEW c \in Calls, MarkResolved(c) PROVE CallKeeps
  <2>1. conflicts' \in Seq(Conflict)
    BY <1>7, ResolvedTyped DEF MarkResolved
  <2>2. call' \in [Calls -> Call]
    BY <1>7, Constants DEF MarkResolved, Finish, CallOK
  <2> QED
    BY <1>7, <2>1, <2>2 DEF CallKeeps, MarkResolved, CacheOK, CallOK, EnvOK, cloudVars,
       envVars, history
<1> QED
  BY <1>1, <1>2, <1>3, <1>4, <1>5, <1>6, <1>7 DEF UserNext, CallStep

-----------------------------------------------------------------------------
(* The types: the steps of a pass. *)

(* A pass that ends, or an entry that is done with, leaves nothing in hand. *)
LEMMA ForgottenTyped ==
  ASSUME Forget, pc' \in {"idle", "head"}
  PROVE  PassOK' /\ Upload'
<1>1. NoReply \in Reply /\ NoRow \in Row
  BY Constants
<1>2. PassOK'
  BY <1>1 DEF Forget, PassOK, Places
<1>3. Upload'
  BY DEF Upload, Writing, Settling
<1> QED
  BY <1>2, <1>3

(* Creating a record keeps the types. *)
LEMMA CreatesTyped ==
  ASSUME Typed, NEW r \in Records, NEW lost \in BOOLEAN, create(r, lost)
  PROVE  Typed'
<1> USE DEF Typed
<1> DEFINE v == [title |-> PatchedTitle(NoRow, HeadPatch), deleted |-> FALSE,
                 tag |-> clock + 1]
           w == Written("live", v, "pc", HeadPatch.title)
<1>1. HeadPatch \in Patch /\ HeadPatch.title \in Nat
  BY HeadTyped DEF create
<1>2. NoRow.title \in Text /\ NoRow.deleted \in BOOLEAN
  BY DEF NoRow, Text, NoText, Blank
<1>3. PatchedTitle(NoRow, HeadPatch) \in Text
  BY <1>1, <1>2, PatchedTypes
<1>4. v.title \in Text /\ v.deleted \in BOOLEAN /\ v.tag \in Nat
  BY <1>3 DEF CloudOK
<1>5. cloud' = [cloud EXCEPT ![r] = w] /\ clock' = clock + 1
      /\ Received(lost, "replace", Answer(r, v))
      /\ uploaded' = uploaded \cup {HeadPatch.title} /\ outbox # <<>>
      /\ UNCHANGED <<cacheVars, call, edits, others, erases, crashes, minted, wish>>
  BY DEF create
<1> HIDE DEF v
<1>6. w \in Record
  BY <1>1, <1>4, WrittenTyped
<1> HIDE DEF w
<1>7. CloudOK'
  BY <1>5, <1>6 DEF CloudOK
<1>8. Answer(r, v) \in Reply /\ Answer(r, v).id = r
  BY <1>4, AnswerTyped
<1>9. PassOK' /\ Upload' /\ faults' \in Nat
  <2>1. CASE lost
    <3>1. Forget /\ pc' = "idle" /\ faults' = faults + 1
      BY <1>5, <2>1 DEF Received, Abort
    <3> QED
      BY <3>1, ForgottenTyped DEF EnvOK
  <2>2. CASE ~lost
    <3>1. pc' = "replace" /\ reply' = Answer(r, v) /\ Kept /\ UNCHANGED faults
      BY <1>5, <2>2 DEF Received
    <3>2. PassOK' /\ faults' \in Nat
      BY <1>8, <3>1 DEF PassOK, EnvOK, Kept, Places
    <3>3. outbox' # <<>>
      BY <1>5 DEF cacheVars
    <3>4. Upload'
      BY <1>8, <3>1, <3>3 DEF Upload, Settling, Writing
    <3> QED
      BY <3>2, <3>4, <3>1
  <2> QED
    BY <2>1, <2>2
<1>10. CacheOK' /\ CallOK'
  BY <1>5 DEF CacheOK, CallOK, cacheVars
<1>11. EnvOK'
  BY <1>1, <1>5, <1>9 DEF EnvOK
<1> QED
  BY <1>7, <1>9, <1>10, <1>11

(* Writing a record keeps the types.                                        *)
LEMMA ModifiesTyped ==
  ASSUME Typed, NEW lost \in BOOLEAN, modify(lost)
  PROVE  Typed'
<1> USE DEF Typed
<1> DEFINE r == reply.id
           v == [title |-> PatchedTitle(cloud[r], HeadPatch),
                 deleted |-> PatchedDeleted(cloud[r], HeadPatch), tag |-> clock + 1]
           w == Written("live", v, "pc", cloud[r].born)
<1>1. pc = "modify" /\ outbox # <<>> /\ r \in Records /\ item.id = r
  BY DEF modify, Upload, Settling, Writing
<1>2. HeadPatch \in Patch /\ HeadPatch.title \in Nat
  BY <1>1, HeadTyped
<1>3. cloud[r].title \in Text /\ cloud[r].deleted \in BOOLEAN /\ cloud[r].born \in Nat
  BY <1>1, RecordTyped
<1>4. v.title \in Text /\ v.deleted \in BOOLEAN /\ v.tag \in Nat
  BY <1>2, <1>3, PatchedTypes DEF CloudOK
<1>5. cloud' = [cloud EXCEPT ![r] = w] /\ clock' = clock + 1
      /\ Received(lost, "ack", Answer(r, v))
      /\ uploaded' = uploaded \cup {HeadPatch.title}
      /\ UNCHANGED <<cacheVars, call, edits, others, erases, crashes, minted, wish>>
  BY DEF modify
<1> HIDE DEF v
<1>6. w \in Record
  BY <1>3, <1>4, WrittenTyped
<1> HIDE DEF w, r
<1>a. cloud' = [cloud EXCEPT ![r] = w] /\ clock' = clock + 1
  BY <1>5
<1>b. cloud \in [Records -> Record] /\ clock \in Nat
  BY DEF CloudOK
<1>c. cloud' \in [Records -> Record]
  BY <1>6, <1>a, <1>b
<1>d. clock' \in Nat
  BY <1>a, <1>b
<1>7. CloudOK'
  BY <1>c, <1>d DEF CloudOK
<1>8. Answer(r, v) \in Reply /\ Answer(r, v).id = r
  BY <1>1, <1>4, AnswerTyped
<1> HIDE DEF r
<1>9. PassOK' /\ Upload' /\ faults' \in Nat
  <2>1. CASE lost
    <3>1. Forget /\ pc' = "idle" /\ faults' = faults + 1
      BY <1>5, <2>1 DEF Received, Abort
    <3> QED
      BY <3>1, ForgottenTyped DEF EnvOK
  <2>2. CASE ~lost
    <3>1. pc' = "ack" /\ reply' = Answer(r, v) /\ Kept /\ UNCHANGED faults
      BY <1>5, <2>2 DEF Received
    <3>2. PassOK' /\ faults' \in Nat
      BY <1>8, <3>1 DEF PassOK, EnvOK, Kept, Places
    <3>3. outbox' # <<>> /\ item' = item
      BY <1>1, <1>5 DEF cacheVars, item
    <3>4. reply'.id = r /\ item'.id = r
      BY <1>1, <1>8, <3>1, <3>3
    <3>5. Upload'
      BY <1>1, <3>1, <3>3, <3>4 DEF Upload, Settling, Writing
    <3> QED
      BY <3>2, <3>5, <3>1
  <2> QED
    BY <2>1, <2>2
<1>10. CacheOK' /\ CallOK'
  BY <1>5 DEF CacheOK, CallOK, cacheVars
<1>11. EnvOK'
  BY <1>2, <1>5, <1>9 DEF EnvOK
<1> QED
  BY <1>7, <1>9, <1>10, <1>11

(* Looking a record up keeps the types.                                     *)
LEMMA LookupTyped ==
  ASSUME Typed, lookup
  PROVE  Typed'
<1> USE DEF Typed
<1>1. CacheOK' /\ CloudOK' /\ CallOK' /\ EnvOK'
  BY DEF lookup, CacheOK, CloudOK, CallOK, EnvOK, cacheVars, cloudVars, envVars, history
<1>2. outbox # <<>> /\ outbox' = outbox /\ item' = item
  BY DEF lookup, cacheVars, item
<1>3. CASE item.id \in Records /\ cloud[item.id].state = "live"
  <2>1. pc' \in {"modify", "clash"} /\ reply' = Answer(item.id, cloud[item.id]) /\ Kept
    BY <1>3 DEF lookup
  <2>2. reply' \in Reply /\ reply'.id = item.id
    BY <1>3, <2>1, RecordTyped, AnswerTyped
  <2>3. PassOK'
    BY <2>1, <2>2 DEF PassOK, Kept, Places
  <2>4. Upload'
    BY <1>2, <1>3, <2>1, <2>2 DEF Upload, Settling, Writing
  <2> QED
    BY <1>1, <2>3, <2>4
<1>4. CASE ~(item.id \in Records /\ cloud[item.id].state = "live")
  <2>1. Abort
    BY <1>4 DEF lookup
  <2> QED
    BY <1>1, <2>1, ForgottenTyped DEF Abort
<1> QED
  BY <1>3, <1>4

(* So does a write that iCloud refuses.                                     *)
LEMMA RefusedTyped ==
  ASSUME Typed, ModifyRefused
  PROVE  Typed'
<1> USE DEF Typed
<1>1. CacheOK' /\ CloudOK' /\ CallOK' /\ EnvOK'
  BY DEF ModifyRefused, CacheOK, CloudOK, CallOK, EnvOK, cacheVars, cloudVars, envVars,
     history
<1>2. outbox # <<>> /\ item.id \in Records /\ outbox' = outbox /\ item' = item
  BY DEF ModifyRefused, cacheVars, item, Upload, Writing, Settling
<1>3. CASE pc' = "clash" /\ reply' = NoReply /\ Kept
  <2>1. reply' \in Reply /\ reply'.id = NoId
    BY <1>3, Constants DEF NoReply
  <2>2. PassOK'
    BY <1>3, <2>1 DEF PassOK, Kept, Places
  <2>3. Upload'
    BY <1>2, <1>3, <2>1 DEF Upload, Settling, Writing
  <2> QED
    BY <1>1, <2>2, <2>3
<1>4. CASE Abort
  BY <1>1, <1>4, ForgottenTyped DEF Abort
<1> QED
  BY <1>3, <1>4 DEF ModifyRefused

(* Moving an id keeps the types: the row and the outbox follow it.          *)
LEMMA ReplaceTyped ==
  ASSUME Typed, ReplaceId
  PROVE  Typed'
<1> USE DEF Typed
<1>1. pc = "replace" /\ outbox # <<>> /\ reply.id \in Records
  BY DEF ReplaceId, Upload, Writing, Settling
<1>2. reply.id \in Ids /\ item.id \in Ids /\ item = outbox[1] /\ 1 \in 1..Len(outbox)
  BY <1>1, HeadTyped, Constants
<1>3. /\ rows' = ReplaceIdRows(rows, item.id, reply.id)
      /\ outbox' = ReplaceIdOutbox(outbox, item.id, reply.id)
      /\ pc' = "ack" /\ Kept
      /\ UNCHANGED <<conflicts, cursor, protocol, cloudVars, reply, call, envVars, uploaded>>
  BY DEF ReplaceId, replace_id
<1>4. wish' \in [Ids -> Nat]
  BY <1>2 DEF ReplaceId, EnvOK, NoText
<1>5. rows' \in [Ids -> Row]
  BY <1>2, <1>3, ReplacedIdRows DEF CacheOK
<1>6. /\ outbox' \in Seq(Item(Ids)) /\ Len(outbox') = Len(outbox)
      /\ outbox'[1].id = reply.id
  BY <1>2, <1>3, ReplaceIdEntries DEF CacheOK
<1>7. outbox' # <<>> /\ item'.id = reply.id
  <2>1. outbox' # <<>>
    BY <1>1, <1>2, <1>6 DEF CacheOK
  <2>2. Head(outbox') = outbox'[1]
    BY <1>6, <2>1, HeadTailType
  <2> QED
    BY <1>6, <2>1, <2>2 DEF item
<1>8. CacheOK' /\ CloudOK' /\ CallOK' /\ EnvOK'
  BY <1>3, <1>4, <1>5, <1>6 DEF CacheOK, CloudOK, CallOK, EnvOK, cloudVars, envVars
<1>9. PassOK'
  BY <1>3 DEF PassOK, Kept, Places
<1>10. Upload'
  BY <1>1, <1>3, <1>7 DEF Upload, Settling, Writing
<1> QED
  BY <1>8, <1>9, <1>10

(* Taking an acknowledged entry out keeps the types.                        *)
LEMMA AcknowledgeTyped ==
  ASSUME Typed, AcknowledgePush
  PROVE  /\ Typed' /\ outbox # <<>> /\ item.id = reply.id /\ reply.id \in Ids
         /\ reply.tag \in Nat /\ Tail(outbox) \in Seq(Item(Ids))
         /\ outbox' = AcknowledgeOutbox(outbox, reply.id, reply.tag)
         /\ rows' = AcknowledgeRows(rows, outbox, reply.id, reply.tag)
         /\ Len(outbox') = Len(outbox) - 1
<1> USE DEF Typed
<1>1. pc = "ack" /\ outbox # <<>> /\ reply.id \in Records /\ item.id = reply.id
  BY DEF AcknowledgePush, Upload, Writing, Settling
<1>2. reply.id \in Ids /\ reply.tag \in Nat
  BY <1>1, Constants DEF PassOK, Reply
<1>3. /\ rows' = AcknowledgeRows(rows, outbox, reply.id, reply.tag)
      /\ outbox' = AcknowledgeOutbox(outbox, reply.id, reply.tag)
      /\ pc' = "upsert" /\ Kept
      /\ UNCHANGED <<conflicts, cursor, protocol, cloudVars, reply, call, envVars, history>>
  BY DEF AcknowledgePush, acknowledge_push
<1>4. rows' \in [Ids -> Row]
  BY <1>2, <1>3, AcknowledgedRows DEF CacheOK
<1>5. Tail(outbox) \in Seq(Item(Ids)) /\ Len(Tail(outbox)) = Len(outbox) - 1
  BY <1>1, HeadTailType DEF CacheOK
<1>a. /\ Rebase(Tail(outbox), reply.id, reply.tag) \in Seq(Item(Ids))
      /\ Len(Rebase(Tail(outbox), reply.id, reply.tag)) = Len(Tail(outbox))
  <2> HIDE DEF Typed
  <2>1. /\ Tail(outbox) \in Seq(Item(Ids)) /\ reply.tag \in Nat
    BY <1>2, <1>5
  <2>2. ASSUME NEW o \in Seq(Item(Ids)), NEW id, NEW tag \in Nat
        PROVE  Rebase(o, id, tag) \in Seq(Item(Ids)) /\ Len(Rebase(o, id, tag)) = Len(o)
    BY RebaseEntries
  <2> QED
    BY <2>1, <2>2, Zenon
<1>6. outbox' \in Seq(Item(Ids)) /\ Len(outbox') = Len(outbox) - 1
  BY <1>3, <1>5, <1>a DEF AcknowledgeOutbox
<1>7. CacheOK' /\ CloudOK' /\ CallOK' /\ EnvOK'
  BY <1>3, <1>4, <1>6 DEF CacheOK, CloudOK, CallOK, EnvOK, cloudVars, envVars, history
<1>8. PassOK'
  BY <1>3 DEF PassOK, Kept, Places
<1>9. Upload'
  BY <1>1, <1>3 DEF Upload, Settling, Writing
<1> QED
  BY <1>1, <1>2, <1>3, <1>5, <1>6, <1>7, <1>8, <1>9

(* The answer goes over the row. *)
LEMMA ReplyRows ==
  ASSUME Typed
  PROVE  upsert_reminders({reply}) \in [Ids -> Row]
<1>1. {reply} \in SUBSET (Change \cup Reply) /\ First \in Ids
  BY IdsAssumption DEF Typed, PassOK, Ids
<1> QED
  BY <1>1, UpsertedRows DEF Typed

(* So does settling a conflict, up to the entry that leaves the outbox.     *)
LEMMA SettlingTyped ==
  ASSUME Typed,
         UpsertReply \/ ReadLocal \/ RecordConflict \/ ClearConflicting \/ TakeRemote
  PROVE  Typed' /\ outbox' = outbox
<1> USE DEF Typed
<1>1. CASE UpsertReply
  <2>1. CacheOK' /\ CloudOK' /\ CallOK' /\ EnvOK' /\ outbox' = outbox
    BY <1>1, ReplyRows DEF UpsertReply, CacheOK, CloudOK, CallOK, EnvOK, cloudVars,
       envVars, history
  <2> QED
    BY <1>1, <2>1, ForgottenTyped DEF UpsertReply
<1>2. CASE ReadLocal
  <2>1. outbox # <<>> /\ item.id \in Ids
    BY <1>2, Constants DEF ReadLocal, Upload, Settling
  <2>2. local' \in Row
    BY <1>2, <2>1 DEF ReadLocal, CacheOK
  <2>3. CacheOK' /\ CloudOK' /\ CallOK' /\ EnvOK' /\ outbox' = outbox
    BY <1>2 DEF ReadLocal, CacheOK, CloudOK, CallOK, EnvOK, cloudVars, cacheVars,
       envVars, history
  <2>4. PassOK'
    BY <1>2, <2>2 DEF ReadLocal, PassOK, Places
  <2>5. Upload'
    BY <1>2, <2>3 DEF ReadLocal, Upload, Settling, Writing, item
  <2> QED
    BY <2>3, <2>4, <2>5
<1>3. CASE RecordConflict
  <2> DEFINE x == [id |-> item.id, local |-> local, remote |-> reply, resolved |-> FALSE]
  <2>1. outbox # <<>> /\ item.id \in Ids
    BY <1>3, Constants DEF RecordConflict, Upload, Settling
  <2>2. x \in Conflict
    BY <2>1 DEF Conflict, PassOK
  <2>3. conflicts' = Append(conflicts, x) /\ outbox' = outbox
    BY <1>3 DEF RecordConflict, record_conflict
  <2> HIDE DEF x
  <2>4. conflicts' \in Seq(Conflict)
    BY <2>2, <2>3 DEF CacheOK
  <2>5. CacheOK' /\ CloudOK' /\ CallOK' /\ EnvOK'
    BY <1>3, <2>4 DEF RecordConflict, CacheOK, CloudOK, CallOK, EnvOK, cloudVars,
       envVars, history
  <2>6. PassOK'
    BY <1>3 DEF RecordConflict, PassOK, Kept, Places
  <2>7. Upload'
    BY <1>3, <2>3 DEF RecordConflict, Upload, Settling, Writing, item, PassOK, Reply, Kept
  <2> QED
    BY <2>3, <2>5, <2>6, <2>7
<1>4. CASE ClearConflicting
  <2>1. item.id \in Ids /\ reply.tag \in Nat
    BY <1>4, Constants DEF ClearConflicting, Upload, Settling, PassOK, Reply
  <2>2. rows' \in [Ids -> Row]
    BY <1>4, <2>1, ClearedRows DEF ClearConflicting
  <2>3. CacheOK' /\ CloudOK' /\ CallOK' /\ EnvOK' /\ outbox' = outbox
    BY <1>4, <2>2 DEF ClearConflicting, CacheOK, CloudOK, CallOK, EnvOK, cloudVars,
       envVars, history
  <2>4. PassOK'
    BY <1>4 DEF ClearConflicting, PassOK, Kept, Places
  <2>5. Upload'
    BY <1>4, <2>3 DEF ClearConflicting, Upload, Settling, Writing, item, Kept
  <2> QED
    BY <2>3, <2>4, <2>5
<1>5. CASE TakeRemote
  <2>1. CacheOK' /\ CloudOK' /\ CallOK' /\ EnvOK' /\ outbox' = outbox
    BY <1>5, ReplyRows DEF TakeRemote, CacheOK, CloudOK, CallOK, EnvOK, cloudVars,
       envVars, history
  <2>2. PassOK'
    BY <1>5 DEF TakeRemote, PassOK, Kept, Places
  <2>3. Upload'
    BY <1>5, <2>1 DEF TakeRemote, Upload, Settling, Writing, item, Kept
  <2> QED
    BY <2>1, <2>2, <2>3
<1> QED
  BY <1>1, <1>2, <1>3, <1>4, <1>5

(* So does that entry leaving.                                              *)
LEMMA DequeueTyped ==
  ASSUME Typed, Dequeue
  PROVE  Typed' /\ outbox # <<>> /\ outbox' = Tail(outbox)
<1> USE DEF Typed
<1>1. outbox # <<>> /\ outbox' = Tail(outbox)
  BY DEF Dequeue, Upload, Settling
<1>2. outbox' \in Seq(Item(Ids))
  BY <1>1, HeadTyped
<1>3. CacheOK' /\ CloudOK' /\ CallOK' /\ EnvOK'
  BY <1>2 DEF Dequeue, CacheOK, CloudOK, CallOK, EnvOK, cloudVars, envVars, history
<1> QED
  BY <1>1, <1>3, ForgottenTyped DEF Dequeue

(* The parts of the pull that do not touch the rows. *)
Reads == \/ StartPass \/ (\E asked \in BOOLEAN : PushDone(asked))
         \/ SyncCursor \/ ChangesSince \/ Lists \/ RemindersFor \/ Tags

(* The steps of a pass, those apart together. *)
LEMMA EngineCases ==
  ASSUME EngineStep
  PROVE  \/ (\E r \in Records : create(r, FALSE)) \/ modify(FALSE) \/ Reads
         \/ lookup \/ ModifyRefused \/ ReadLocal
         \/ UpsertReply \/ RecordConflict \/ ClearConflicting \/ TakeRemote
         \/ ReplaceId \/ AcknowledgePush \/ Dequeue
         \/ UpsertDownload \/ ClearDeleted \/ SaveCursor \/ Stamp
         \/ (\E r \in Records : MarkDeleted(r))
BY Zenon DEF EngineStep, Reads

(* Downloading keeps the types, and touches neither the cache nor iCloud.   *)
LEMMA ReadsTyped ==
  ASSUME Typed, Reads
  PROVE  Typed' /\ UNCHANGED cacheVars /\ UNCHANGED cloudVars /\ UNCHANGED call
         /\ UNCHANGED envVars /\ UNCHANGED history /\ UNCHANGED victim
<1> USE DEF Typed
<1>1. UNCHANGED cacheVars /\ UNCHANGED cloudVars /\ UNCHANGED call
      /\ UNCHANGED envVars /\ UNCHANGED history /\ UNCHANGED victim
  BY DEF Reads, StartPass, PushDone, SyncCursor, ChangesSince, Lists, RemindersFor, Tags,
     Kept
<1>2. CacheOK' /\ CloudOK' /\ CallOK' /\ EnvOK'
  BY <1>1 DEF CacheOK, CloudOK, CallOK, EnvOK, cacheVars, cloudVars, envVars, history
<1>3. pc' \in {"head", "pull", "lists", "query", "apply", "mark"} /\ reply' = reply
      /\ local' = local
  BY DEF Reads, StartPass, PushDone, SyncCursor, ChangesSince, Lists, RemindersFor, Tags,
     Kept
<1>4. \A k \in Nat : Live(k) \subseteq Change /\ Erased(k) \subseteq Records
  BY RecordTyped DEF Live, Erased
<1>5. updated' \subseteq Change
  BY <1>4 DEF Reads, StartPass, PushDone, SyncCursor, ChangesSince, Lists, RemindersFor,
     Tags, Kept, PassOK, CacheOK
<1>6. deleted' \subseteq Records
  BY <1>4 DEF Reads, StartPass, PushDone, SyncCursor, ChangesSince, Lists, RemindersFor,
     Tags, Kept, PassOK, CacheOK
<1>7. next' \in Nat
  BY DEF Reads, StartPass, PushDone, SyncCursor, ChangesSince, Lists, RemindersFor,
     Tags, Kept, PassOK, CloudOK
<1>8. full' \in BOOLEAN
  <2>1. full' = full \/ \E asked \in BOOLEAN : PushDone(asked)
    BY DEF Reads, StartPass, PushDone, SyncCursor, ChangesSince, Lists, RemindersFor, Tags,
       Kept
  <2>2. ASSUME NEW asked \in BOOLEAN, PushDone(asked) PROVE full' \in BOOLEAN
    BY <2>2 DEF PushDone
  <2> QED
    BY <2>1, <2>2 DEF PassOK
<1>9. PassOK'
  BY <1>1, <1>3, <1>5, <1>6, <1>7, <1>8 DEF PassOK, Places
<1>10. Upload'
  BY <1>3 DEF Upload, Settling, Writing
<1> QED
  BY <1>1, <1>2, <1>9, <1>10

(* Applying what was downloaded keeps the types.                            *)
LEMMA AppliesTyped ==
  ASSUME Typed, UpsertDownload \/ (\E r \in Records : MarkDeleted(r)) \/ ClearDeleted
  PROVE  Typed' /\ outbox' = outbox
<1> USE DEF Typed
<1>1. CASE UpsertDownload
  <2>1. updated \in SUBSET (Change \cup Reply) /\ First \in Ids
    BY IdsAssumption DEF PassOK, Ids
  <2>2. upsert_reminders(updated) \in [Ids -> Row]
    BY <2>1, UpsertedRows
  <2>3. CacheOK' /\ CloudOK' /\ CallOK' /\ EnvOK' /\ outbox' = outbox
    BY <1>1, <2>2 DEF UpsertDownload, CacheOK, CloudOK, CallOK, EnvOK, cloudVars, envVars,
       history
  <2>4. PassOK' /\ pc' \in {"tags", "mark"}
    BY <1>1 DEF UpsertDownload, PassOK, Places
  <2> QED
    BY <2>3, <2>4 DEF Upload, Settling, Writing
<1>2. ASSUME NEW r \in Records, MarkDeleted(r) PROVE Typed' /\ outbox' = outbox
  <2>1. rows' = apply_local_edit(r, SetDeleted("set")) /\ r \in Ids
        /\ SetDeleted("set") \in Patch
    BY <1>2, Constants DEF MarkDeleted, Marks
  <2>2. rows' \in [Ids -> Row]
    BY <2>1, EditTyped
  <2>3. CacheOK' /\ CloudOK' /\ CallOK' /\ EnvOK' /\ outbox' = outbox
    BY <1>2, <2>2 DEF MarkDeleted, CacheOK, CloudOK, CallOK, EnvOK, cloudVars, envVars,
       history
  <2>4. PassOK' /\ pc' = "unmark" /\ victim' \in Records
    BY <1>2 DEF MarkDeleted, PassOK, Places
  <2> QED
    BY <2>3, <2>4 DEF Upload, Settling, Writing
<1>3. CASE ClearDeleted
  <2>1. victim \in Ids /\ NoTag \in Nat
    BY <1>3, Constants DEF ClearDeleted, Upload, NoTag
  <2>2. rows' \in [Ids -> Row]
    BY <1>3, <2>1, ClearedRows DEF ClearDeleted
  <2>3. CacheOK' /\ CloudOK' /\ CallOK' /\ EnvOK' /\ outbox' = outbox
    BY <1>3, <2>2 DEF ClearDeleted, CacheOK, CloudOK, CallOK, EnvOK, cloudVars, envVars,
       history
  <2>4. PassOK' /\ pc' = "mark"
    BY <1>3 DEF ClearDeleted, PassOK, Places
  <2> QED
    BY <2>3, <2>4 DEF Upload, Settling, Writing
<1> QED
  BY <1>1, <1>2, <1>3

(* So does saving the token.                                                *)
LEMMA SavesTyped ==
  ASSUME Typed, SaveCursor \/ Stamp
  PROVE  Typed' /\ outbox' = outbox
<1> USE DEF Typed
<1>1. outbox' = outbox /\ rows' = rows /\ conflicts' = conflicts
      /\ UNCHANGED cloudVars /\ UNCHANGED call /\ UNCHANGED envVars /\ UNCHANGED history
  BY DEF SaveCursor, Stamp
<1>2. CloudOK' /\ CallOK' /\ EnvOK'
  BY <1>1 DEF CloudOK, CallOK, EnvOK, cloudVars, envVars, history
<1>3. cursor' \in Nat /\ protocol' \in BOOLEAN
  BY DEF SaveCursor, Stamp, CacheOK, PassOK
<1>4. CacheOK'
  BY <1>1, <1>3 DEF CacheOK
<1>5. (Forget /\ pc' = "idle")
      \/ (pc' = "stamp" /\ UNCHANGED <<reply, local, full, updated, deleted, victim, next>>)
  BY DEF SaveCursor, Stamp
<1>6. PassOK' /\ Upload'
  <2>1. CASE Forget /\ pc' = "idle"
    BY <2>1, ForgottenTyped
  <2>2. CASE pc' = "stamp" /\ UNCHANGED <<reply, local, full, updated, deleted, victim, next>>
    BY <2>2 DEF PassOK, Places, Upload, Settling, Writing
  <2> QED
    BY <1>5, <2>1, <2>2
<1> QED
  BY <1>1, <1>2, <1>4, <1>6

(* So do the faults and the crashes.                                        *)
LEMMA MishapsTyped ==
  ASSUME Typed, Throw \/ Crash
  PROVE  Typed' /\ UNCHANGED cacheVars
<1> USE DEF Typed
<1>1. CASE Throw
  <2>1. CacheOK' /\ CloudOK' /\ CallOK' /\ EnvOK' /\ UNCHANGED cacheVars
    BY <1>1 DEF Throw, CacheOK, CloudOK, CallOK, EnvOK, cacheVars, cloudVars, history
  <2>2. CASE pc' \in {"idle", "head"} /\ Forget
    BY <2>1, <2>2, ForgottenTyped
  <2>3. CASE pc' = "pull" /\ updated' = {} /\ deleted' = {} /\ next' = 0
             /\ UNCHANGED <<reply, local, full, victim>>
    BY <2>1, <2>3 DEF PassOK, Places, Upload, Settling, Writing
  <2> QED
    BY <1>1, <2>2, <2>3 DEF Throw, Abort
<1>2. CASE Crash
  <2>1. CacheOK' /\ CloudOK' /\ EnvOK' /\ UNCHANGED cacheVars
    BY <1>2 DEF Crash, CacheOK, CloudOK, CallOK, EnvOK, cacheVars, cloudVars, history
  <2>2. CallOK'
    BY <1>2, Constants DEF Crash, CallOK
  <2>3. pc' = "idle" /\ Forget
    BY <1>2 DEF Crash, Abort
  <2> QED
    BY <2>1, <2>2, <2>3, ForgottenTyped
<1> QED
  BY <1>1, <1>2

(* So do the writes of other devices.                                       *)
LEMMA OthersTyped ==
  ASSUME Typed, NEW r \in Records, OtherEdit(r) \/ OtherErase(r)
  PROVE  Typed' /\ UNCHANGED cacheVars
<1> USE DEF Typed
<1>1. PICK t \in Text, state \in {"live", "erased"} : OtherWrites(r, t, state)
  BY FreshType, RecordTyped DEF OtherEdit, OtherErase
<1> DEFINE v == [title |-> t, deleted |-> cloud[r].deleted, tag |-> clock + 1]
           w == Written(state, v, "other", cloud[r].born)
<1>2. cloud[r].deleted \in BOOLEAN /\ cloud[r].born \in Nat
  BY RecordTyped
<1>3. v.title \in Text /\ v.deleted \in BOOLEAN /\ v.tag \in Nat
  BY <1>2 DEF CloudOK
<1>4. cloud' = [cloud EXCEPT ![r] = w] /\ clock' = clock + 1
      /\ UNCHANGED <<cacheVars, passVars, call, edits, faults, crashes, minted, history>>
  BY <1>1 DEF OtherWrites
<1> HIDE DEF v
<1>5. w \in Record
  BY <1>2, <1>3, WrittenTyped
<1> HIDE DEF w
<1>6. CloudOK'
  BY <1>4, <1>5 DEF CloudOK
<1>7. others' \in Nat /\ erases' \in Nat
  BY DEF OtherEdit, OtherErase, EnvOK
<1>8. CacheOK' /\ CallOK' /\ EnvOK'
  BY <1>4, <1>7 DEF CacheOK, CallOK, EnvOK, cacheVars, history
<1>9. PassOK' /\ Upload'
  BY <1>4 DEF PassOK, Upload, passVars, item, cacheVars
<1> QED
  BY <1>4, <1>6, <1>8, <1>9

(* So do the calls: they leave the pass and the entry in hand alone.        *)
LEMMA CallsTyped ==
  ASSUME Typed, UserNext \/ CallStep
  PROVE  Typed'
<1> USE DEF Typed
<1>1. CallKeeps
  BY CallsKeep
<1>2. CloudOK' /\ PassOK'
  BY <1>1 DEF CallKeeps, CloudOK, PassOK, passVars
<1>3. Upload'
  BY <1>1 DEF CallKeeps, Upload, passVars, item
<1> QED
  BY <1>1, <1>2, <1>3 DEF CallKeeps

(* Every step keeps the types.                                              *)
LEMMA StepsTyped ==
  ASSUME Typed, [Next]_vars
  PROVE  Typed'
<1>1. CASE UserNext \/ CallStep
  BY <1>1, CallsTyped
<1>2. CASE OtherNext
  BY <1>2, OthersTyped DEF OtherNext
<1>3. CASE EngineStep
  <2>1. ASSUME NEW r \in Records, NEW lost \in BOOLEAN, create(r, lost) PROVE Typed'
    BY <2>1, CreatesTyped
  <2> QED
    BY <1>3, CreatesTyped, ModifiesTyped, LookupTyped, RefusedTyped, ReplaceTyped,
       AcknowledgeTyped, SettlingTyped, DequeueTyped, ReadsTyped, AppliesTyped, SavesTyped
       DEF EngineStep, Reads
<1>4. CASE FaultNext
  BY <1>4, CreatesTyped, ModifiesTyped, MishapsTyped DEF FaultNext
<1>5. CASE UNCHANGED vars
  BY <1>5 DEF vars, Typed, CacheOK, CloudOK, PassOK, CallOK, EnvOK, Upload, cacheVars,
     cloudVars, passVars, envVars, history, item
<1> QED
  BY <1>1, <1>2, <1>3, <1>4, <1>5 DEF Next


(* They hold in the initial states.                                         *)
LEMMA InitTyped ==
  ASSUME Init
  PROVE  Typed
<1>1. NoReply \in Reply /\ NoRow \in Row /\ NoCall \in Call /\ 2 \in Text /\ Blank \in Text
  BY Constants DEF Text, NoText
<1> DEFINE v == [title |-> 2, deleted |-> FALSE, tag |-> 1]
           live == Written("live", v, "other", NoText)
           none == Written("none", NoRow, "other", NoText)
<1>2. live \in Record /\ none \in Record
  <2>1. v.title \in Text /\ v.deleted \in BOOLEAN /\ v.tag \in Nat
    BY <1>1
  <2>2. NoRow.title \in Text /\ NoRow.deleted \in BOOLEAN /\ NoRow.tag \in Nat
    BY <1>1 DEF Row
  <2> QED
    BY <2>1, <2>2, WrittenTyped DEF NoText
<1>3. cloud = [r \in Records |-> IF r = First THEN live ELSE none] /\ clock = 1
  BY DEF Init
<1> HIDE DEF v, live, none
<1>4. CloudOK
  BY <1>2, <1>3 DEF CloudOK
<1> DEFINE empty == [id \in Ids |-> NoRow]
<1>5. empty \in [Ids -> Row] /\ First \in Ids /\ First \in Records
  BY <1>1, IdsAssumption DEF Ids
<1>6. Upsert(empty, First, cloud[First]) \in [Ids -> Row]
  <2>1. cloud[First].title \in Text /\ cloud[First].deleted \in BOOLEAN
        /\ cloud[First].tag \in Nat
    BY <1>4, <1>5, RecordTyped
  <2> HIDE DEF empty
  <2> QED
    BY <1>5, <2>1, UpsertRows
<1>a. rows = empty \/ rows = Upsert(empty, First, cloud[First])
  BY DEF Init
<1>b. cursor \in Nat
  BY <1>3 DEF Init
<1>c. protocol \in BOOLEAN
  BY DEF Init
<1> HIDE DEF empty
<1>7. rows \in [Ids -> Row] /\ cursor \in Nat /\ protocol \in BOOLEAN
  BY <1>5, <1>6, <1>a, <1>b, <1>c
<1>8. CacheOK
  BY <1>7 DEF Init, CacheOK
<1>9. PassOK /\ Upload
  BY <1>1 DEF Init, PassOK, Places, Upload, Writing, Settling
<1>10. CallOK
  BY <1>1 DEF Init, CallOK
<1>11. EnvOK
  BY DEF Init, EnvOK, NoText
<1> QED
  BY <1>4, <1>8, <1>9, <1>10, <1>11 DEF Typed

(* Whatever the calls, the engine, the other devices and the mishaps do,    *)
(* the state has its types, and the entry in hand is the first one queued.  *)
LEMMA AlwaysTyped == Spec => []Typed
<1>1. Init => Typed
  BY InitTyped
<1>2. Typed /\ [Next]_vars => Typed'
  BY StepsTyped
<1> QED
  BY <1>1, <1>2, PTL DEF Spec

(* The types of the cache, iCloud, the pass and the calls, which a call's   *)
(* operation that the upload does not know would break.                     *)
THEOREM SyncIsTyped == Spec => []TypeOK
<1>1. Typed => TypeOK
  BY TypeParts DEF Typed
<1> QED
  BY <1>1, AlwaysTyped, PTL

-----------------------------------------------------------------------------
(* No edit is dropped. *)

(* A delete is queued with no patch. *)
Bare == \A i \in 1..Len(outbox) : outbox[i].op = "delete" => outbox[i].patch = NoPatch

(* What was written is what was queued. *)
Accepted == pc \in {"replace", "ack"} => item.patch.title \in uploaded

(* A conflict is in the table before the row or the entry is touched. *)
Recorded == pc \in {"clear", "takeover", "dequeue"} =>
              \E i \in 1..Len(conflicts) : conflicts[i].id = item.id

Accounted == Bare /\ Accepted /\ Recorded

(* What changes the outbox. *)
LEMMA QueueSteps ==
  ASSUME Typed, [Next]_vars
  PROVE  /\ \/ outbox' = outbox \/ (\E c \in Calls : EnqueueEdit(c))
            \/ ReplaceId \/ AcknowledgePush \/ Dequeue
         /\ uploaded \subseteq uploaded'
<1>1. CASE UserNext \/ CallStep
  BY <1>1 DEF UserNext, CallStep, create_reminder, update_reminder, delete_reminder,
     restore_reminder, Begin, keep_local, resolve_conflict, ApplyEdit, Reread, EnqueueEdit,
     MarkResolved, cacheVars, history
<1>2. CASE OtherNext
  BY <1>2 DEF OtherNext, OtherEdit, OtherErase, OtherWrites, cacheVars, history
<1>3. CASE EngineStep
  <2>1. CASE (\E r \in Records : create(r, FALSE)) \/ modify(FALSE)
    BY <2>1 DEF create, modify, cacheVars
  <2>2. CASE Reads
    BY <2>2, ReadsTyped DEF cacheVars, history
  <2>3. CASE lookup \/ ModifyRefused \/ ReadLocal
    BY <2>3 DEF lookup, ModifyRefused, ReadLocal, cacheVars, history
  <2>4. CASE UpsertReply \/ RecordConflict \/ ClearConflicting \/ TakeRemote
    BY <2>4 DEF UpsertReply, RecordConflict, ClearConflicting, TakeRemote, history
  <2>5. CASE ReplaceId \/ AcknowledgePush \/ Dequeue
    BY <2>5 DEF ReplaceId, AcknowledgePush, Dequeue, history
  <2>6. CASE UpsertDownload \/ ClearDeleted \/ SaveCursor \/ Stamp
             \/ (\E r \in Records : MarkDeleted(r))
    BY <2>6 DEF UpsertDownload, MarkDeleted, ClearDeleted, SaveCursor, Stamp, history
  <2> QED
    BY <1>3, <2>1, <2>2, <2>3, <2>4, <2>5, <2>6, EngineCases
<1>4. CASE FaultNext
  BY <1>4 DEF FaultNext, create, modify, Throw, Crash, cacheVars, history
<1>5. CASE UNCHANGED vars
  BY <1>5 DEF vars, cacheVars, history
<1> QED
  BY <1>1, <1>2, <1>3, <1>4, <1>5 DEF Next

(* Conflicts are recorded and resolved, never removed. *)
LEMMA ConflictsGrow ==
  ASSUME Typed, [Next]_vars
  PROVE  \A id : (\E i \in 1..Len(conflicts) : conflicts[i].id = id)
                 => (\E i \in 1..Len(conflicts') : conflicts'[i].id = id)
<1>1. \/ conflicts' = conflicts
      \/ (\E i : conflicts' = [conflicts EXCEPT ![i].resolved = TRUE])
      \/ RecordConflict
  <2>1. CASE UserNext \/ CallStep
    BY <2>1 DEF UserNext, CallStep, create_reminder, update_reminder, delete_reminder,
       restore_reminder, Begin, keep_local, resolve_conflict, ApplyEdit, Reread,
       EnqueueEdit, MarkResolved, cacheVars
  <2>2. CASE OtherNext
    BY <2>2 DEF OtherNext, OtherEdit, OtherErase, OtherWrites, cacheVars
  <2>3. CASE EngineStep
    <3>1. CASE Reads
      BY <3>1, ReadsTyped DEF cacheVars
    <3> QED
      BY <2>3, <3>1 DEF EngineStep, Reads, create, modify, lookup, ModifyRefused, ReplaceId,
         AcknowledgePush, UpsertReply, ReadLocal, ClearConflicting,
         TakeRemote, Dequeue, UpsertDownload, MarkDeleted, ClearDeleted, SaveCursor, Stamp,
         cacheVars
  <2>4. CASE FaultNext
    BY <2>4 DEF FaultNext, create, modify, Throw, Crash, cacheVars
  <2>5. CASE UNCHANGED vars
    BY <2>5 DEF vars, cacheVars
  <2> QED
    BY <2>1, <2>2, <2>3, <2>4, <2>5 DEF Next
<1>2. ASSUME NEW i, conflicts' = [conflicts EXCEPT ![i].resolved = TRUE]
      PROVE  Len(conflicts') = Len(conflicts)
             /\ \A j \in 1..Len(conflicts) : conflicts'[j].id = conflicts[j].id
  BY <1>2, ResolvedTyped DEF Typed
<1>3. CASE RecordConflict
  <2>1. conflicts \in Seq(Conflict)
    BY DEF Typed, CacheOK
  <2>2. PICK x : conflicts' = Append(conflicts, x)
    BY <1>3 DEF RecordConflict, record_conflict
  <2>3. Len(conflicts') = Len(conflicts) + 1 /\ Len(conflicts) \in Nat
        /\ \A i \in 1..Len(conflicts) : conflicts'[i] = conflicts[i]
    BY <2>1, <2>2
  <2> QED
    BY <2>3
<1> QED
  BY <1>1, <1>2, <1>3

(* The entry in hand stays the same until it leaves the outbox. *)
LEMMA HeadStays ==
  ASSUME Typed, [Next]_vars, outbox # <<>>, ~AcknowledgePush, ~Dequeue
  PROVE  /\ outbox' # <<>> /\ item'.op = item.op /\ item'.patch = item.patch
         /\ item'.base = item.base
         /\ ~ReplaceId => item' = item
<1>1. CASE outbox' = outbox
  BY <1>1 DEF item
<1>2. ASSUME NEW c \in Calls, EnqueueEdit(c) PROVE outbox' # <<>> /\ item' = item
  BY <1>2, EnqueueKeeps DEF CallKeeps, item
<1>3. CASE ReplaceId
  <2>1. /\ outbox' = ReplaceIdOutbox(outbox, item.id, reply.id) /\ reply.id \in Ids
        /\ outbox \in Seq(Item(Ids))
    BY <1>3, Constants DEF ReplaceId, replace_id, Typed, Upload, Writing, CacheOK
  <2>2. item = outbox[1] /\ 1 \in 1..Len(outbox)
    BY HeadTyped DEF Typed
  <2>3. /\ outbox' \in Seq(Item(Ids)) /\ Len(outbox') = Len(outbox)
        /\ outbox'[1].op = outbox[1].op /\ outbox'[1].patch = outbox[1].patch
        /\ outbox'[1].base = outbox[1].base
    BY <2>1, <2>2, ReplaceIdEntries
  <2>4. outbox' # <<>>
    BY <2>1, <2>2, <2>3
  <2>5. item' = outbox'[1]
    BY <2>3, <2>4, HeadTailType DEF item
  <2> QED
    BY <1>3, <2>2, <2>3, <2>4, <2>5
<1> QED
  BY <1>1, <1>2, <1>3, QueueSteps

(* Where the pass goes when it has to go somewhere else.                    *)
LEMMA Arrivals ==
  ASSUME Typed, [Next]_vars
  PROVE  /\ pc' \in {"replace", "ack"} =>
              \/ pc' = pc /\ ~AcknowledgePush /\ ~Dequeue /\ ~ReplaceId
              \/ ReplaceId \/ (\E r \in Records : create(r, FALSE)) \/ modify(FALSE)
         /\ pc' \in {"clear", "takeover", "dequeue"} =>
              \/ pc' = pc /\ ~AcknowledgePush /\ ~Dequeue /\ ~ReplaceId
              \/ RecordConflict \/ ClearConflicting \/ TakeRemote
<1>1. ASSUME pc' = pc PROVE ~AcknowledgePush /\ ~Dequeue /\ ~ReplaceId
  BY <1>1 DEF AcknowledgePush, Dequeue, ReplaceId
<1>2. CASE UserNext \/ CallStep
  BY <1>1, <1>2, CallsKeep DEF CallKeeps, passVars
<1>3. CASE OtherNext
  BY <1>1, <1>3 DEF OtherNext, OtherEdit, OtherErase, OtherWrites, passVars
<1>4. CASE EngineStep
  <2>1. CASE lookup \/ ModifyRefused \/ ReadLocal \/ AcknowledgePush \/ UpsertReply
             \/ Dequeue
    BY <2>1 DEF lookup, ModifyRefused, Abort, AcknowledgePush, UpsertReply, ReadLocal,
       Dequeue
  <2>2. CASE UpsertDownload \/ ClearDeleted \/ SaveCursor \/ Stamp
             \/ (\E r \in Records : MarkDeleted(r))
    BY <2>2 DEF UpsertDownload, MarkDeleted, ClearDeleted, SaveCursor, Stamp
  <2>3. CASE Reads
    BY <2>3 DEF Reads, StartPass, PushDone, SyncCursor, ChangesSince, Lists, RemindersFor,
       Tags
  <2>4. CASE (\E r \in Records : create(r, FALSE)) \/ modify(FALSE) \/ ReplaceId
    <3>1. pc' \in {"replace", "ack"}
      BY <2>4 DEF create, modify, ReplaceId, Received
    <3> QED
      BY <2>4, <3>1
  <2>5. CASE RecordConflict \/ ClearConflicting \/ TakeRemote
    <3>1. pc' \in {"clear", "takeover", "dequeue"}
      BY <2>5 DEF RecordConflict, ClearConflicting, TakeRemote
    <3> QED
      BY <2>5, <3>1
  <2> QED
    BY <1>4, <2>1, <2>2, <2>3, <2>4, <2>5, EngineCases
<1>5. CASE FaultNext
  <2>1. ASSUME NEW r \in Records, create(r, TRUE) \/ modify(TRUE) PROVE pc' = "idle"
    BY <2>1 DEF create, modify, Received, Abort
  <2>2. CASE Throw \/ Crash
    BY <2>2 DEF Throw, Crash, Abort
  <2>3. (\E r \in Records : create(r, TRUE)) \/ modify(TRUE) \/ Throw \/ Crash
    BY <1>5, Zenon DEF FaultNext
  <2>4. pc' # "idle" => Throw \/ Crash
    BY <2>1, <2>3, IdsAssumption
  <2> QED
    BY <2>2, <2>4
<1>6. CASE UNCHANGED vars
  BY <1>1, <1>6 DEF vars, passVars
<1> QED
  BY <1>2, <1>3, <1>4, <1>5, <1>6 DEF Next

(* Only a delete call queues a delete, and it has no patch to give it.      *)
LEMMA BareStep ==
  ASSUME Typed, Bare, [Next]_vars
  PROVE  Bare'
<1>1. CASE outbox' = outbox
  BY <1>1 DEF Bare
<1>2. ASSUME NEW c \in Calls, EnqueueEdit(c) PROVE Bare'
  <2>1. /\ Len(outbox') = Len(outbox) + 1 /\ Len(outbox) \in Nat
        /\ \A i \in 1..Len(outbox) : outbox'[i] = outbox[i]
        /\ outbox'[Len(outbox) + 1].op = call[c].op
        /\ outbox'[Len(outbox) + 1].patch
             = IF call[c].op = "delete" THEN NoPatch ELSE call[c].patch
    BY <1>2, EnqueueKeeps DEF Typed, CacheOK
  <2>2. ASSUME NEW i \in 1..Len(outbox'), outbox'[i].op = "delete"
        PROVE  outbox'[i].patch = NoPatch
    <3>1. i \in 1..Len(outbox) \/ i = Len(outbox) + 1
      BY <2>1
    <3> QED
      BY <2>1, <2>2, <3>1 DEF Bare
  <2> QED
    BY <2>2 DEF Bare
<1>3. CASE ReplaceId
  <2>1. /\ outbox' = ReplaceIdOutbox(outbox, item.id, reply.id) /\ reply.id \in Ids
        /\ outbox \in Seq(Item(Ids))
    BY <1>3, Constants DEF ReplaceId, replace_id, Typed, Upload, Writing, CacheOK
  <2> QED
    BY <2>1, ReplaceIdEntries DEF Bare
<1>4. CASE AcknowledgePush
  <2>1. /\ outbox # <<>> /\ Tail(outbox) \in Seq(Item(Ids)) /\ reply.tag \in Nat
        /\ outbox' = Rebase(Tail(outbox), reply.id, reply.tag)
        /\ outbox \in Seq(Item(Ids))
    BY <1>4, AcknowledgeTyped DEF AcknowledgeOutbox, Typed, CacheOK
  <2>2. \A i \in 1..Len(Tail(outbox)) :
          i + 1 \in 1..Len(outbox) /\ Tail(outbox)[i] = outbox[i + 1]
    BY <2>1, HeadTailType
  <2>3. ASSUME NEW o \in Seq(Item(Ids)), NEW id, NEW tag \in Nat
        PROVE  /\ Len(Rebase(o, id, tag)) = Len(o)
               /\ \A i \in 1..Len(o) : Rebase(o, id, tag)[i].op = o[i].op
                                       /\ Rebase(o, id, tag)[i].patch = o[i].patch
    BY RebaseEntries
  <2>4. /\ Len(outbox') = Len(Tail(outbox))
        /\ \A i \in 1..Len(Tail(outbox)) : outbox'[i].op = Tail(outbox)[i].op
                                       /\ outbox'[i].patch = Tail(outbox)[i].patch
    BY <2>1, <2>3, Zenon
  <2> QED
    BY <2>2, <2>4 DEF Bare
<1>5. CASE Dequeue
  <2>1. outbox # <<>> /\ outbox' = Tail(outbox) /\ outbox \in Seq(Item(Ids))
    BY <1>5, DequeueTyped DEF Typed, CacheOK
  <2>2. \A i \in 1..Len(Tail(outbox)) :
          i + 1 \in 1..Len(outbox) /\ Tail(outbox)[i] = outbox[i + 1]
    BY <2>1, HeadTailType
  <2> QED
    BY <2>1, <2>2 DEF Bare
<1> QED
  BY <1>1, <1>2, <1>3, <1>4, <1>5, QueueSteps

(* The write that leads to an acknowledgement adds its text to the          *)
(* uploaded.                                                                *)
LEMMA AcceptedStep ==
  ASSUME Typed, Bare, Accepted, [Next]_vars
  PROVE  Accepted'
<1> SUFFICES ASSUME pc' \in {"replace", "ack"} PROVE item'.patch.title \in uploaded'
  BY DEF Accepted
<1>1. CASE pc' = pc /\ ~AcknowledgePush /\ ~Dequeue /\ ~ReplaceId
  <2>1. outbox # <<>> /\ item.patch.title \in uploaded
    BY <1>1 DEF Typed, Upload, Accepted
  <2> QED
    BY <1>1, <2>1, HeadStays, QueueSteps
<1>2. CASE ReplaceId
  <2>1. outbox # <<>> /\ item.patch.title \in uploaded /\ ~AcknowledgePush /\ ~Dequeue
    BY <1>2 DEF Typed, Upload, Accepted, ReplaceId, AcknowledgePush, Dequeue
  <2> QED
    BY <2>1, HeadStays, QueueSteps
<1>3. ASSUME NEW r \in Records, create(r, FALSE) PROVE item'.patch.title \in uploaded'
  BY <1>3 DEF create, cacheVars, item, HeadPatch
<1>4. CASE modify(FALSE)
  <2>1. outbox # <<>> /\ item' = item /\ HeadPatch.title \in uploaded'
    BY <1>4 DEF modify, cacheVars, item, Typed, Upload
  <2>2. HeadPatch.title = item.patch.title
    <3>1. CASE item.op = "delete"
      <4>1. item = outbox[1] /\ 1 \in 1..Len(outbox)
        BY <2>1, HeadTyped DEF Typed
      <4>2. item.patch = NoPatch
        BY <3>1, <4>1 DEF Bare
      <4> QED
        BY <3>1, <4>2, Constants DEF HeadPatch, Marks
    <3>2. CASE item.op # "delete"
      BY <3>2 DEF HeadPatch
    <3> QED
      BY <3>1, <3>2
  <2> QED
    BY <2>1, <2>2
<1> QED
  BY <1>1, <1>2, <1>3, <1>4, Arrivals

(* The steps that drop an entry come after the one that records a conflict. *)
LEMMA RecordedStep ==
  ASSUME Typed, Recorded, [Next]_vars
  PROVE  Recorded'
<1> SUFFICES ASSUME pc' \in {"clear", "takeover", "dequeue"}
             PROVE  \E i \in 1..Len(conflicts') : conflicts'[i].id = item'.id
  BY DEF Recorded
<1>1. CASE pc' = pc /\ ~AcknowledgePush /\ ~Dequeue /\ ~ReplaceId
  <2>1. outbox # <<>> /\ (\E i \in 1..Len(conflicts) : conflicts[i].id = item.id)
    BY <1>1 DEF Typed, Upload, Settling, Recorded
  <2>2. item' = item
    BY <1>1, <2>1, HeadStays
  <2> QED
    BY <2>1, <2>2, ConflictsGrow
<1>2. CASE RecordConflict
  <2> DEFINE x == [id |-> item.id, local |-> local, remote |-> reply, resolved |-> FALSE]
  <2>1. conflicts \in Seq(Conflict) /\ conflicts' = Append(conflicts, x)
        /\ x.id = item.id /\ item' = item
    BY <1>2 DEF RecordConflict, record_conflict, Typed, CacheOK, item
  <2> HIDE DEF x
  <2>2. Len(conflicts') \in Nat \ {0} /\ conflicts'[Len(conflicts')] = x
    BY <2>1
  <2> QED
    BY <2>1, <2>2
<1>3. CASE ClearConflicting \/ TakeRemote
  BY <1>3 DEF ClearConflicting, TakeRemote, Recorded, item
<1> QED
  BY <1>1, <1>2, <1>3, Arrivals

(* Only an entry that was accepted, or whose conflict is in the table,      *)
(* leaves the outbox.                                                       *)
LEMMA LeavesAccounted ==
  ASSUME Typed, Accounted, [Next]_vars, Len(outbox') < Len(outbox)
  PROVE  \/ item.patch.title \in uploaded
         \/ \E i \in 1..Len(conflicts) : conflicts[i].id = item.id
<1>1. Len(outbox) \in Nat
  BY DEF Typed, CacheOK
<1>2. outbox' # outbox
  BY <1>1
<1>3. ~(\E c \in Calls : EnqueueEdit(c))
  BY <1>1, EnqueueKeeps
<1>4. ~ReplaceId
  <2> SUFFICES ASSUME ReplaceId PROVE Len(outbox') = Len(outbox)
    BY <1>1
  <2>1. /\ outbox' = ReplaceIdOutbox(outbox, item.id, reply.id) /\ reply.id \in Ids
        /\ outbox \in Seq(Item(Ids))
    BY Constants DEF ReplaceId, replace_id, Typed, Upload, Writing, CacheOK
  <2> QED
    BY <2>1, ReplaceIdEntries
<1>5. AcknowledgePush \/ Dequeue
  BY <1>2, <1>3, <1>4, QueueSteps
<1> QED
  BY <1>5 DEF AcknowledgePush, Dequeue, Accounted, Accepted, Recorded

(* Every behaviour keeps the types and accounts for every entry.            *)
LEMMA AlwaysAccounted == Spec => [](Typed /\ Accounted)
<1>1. Init => Typed /\ Accounted
  <2> SUFFICES ASSUME Init PROVE Accounted
    BY InitTyped
  <2>1. Len(outbox) = 0 /\ pc = "idle"
    BY DEF Init
  <2> QED
    BY <2>1 DEF Accounted, Bare, Accepted, Recorded
<1>2. Typed /\ Accounted /\ [Next]_vars => Typed' /\ Accounted'
  BY StepsTyped, BareStep, AcceptedStep, RecordedStep DEF Accounted
<1> QED
  BY <1>1, <1>2, PTL DEF Spec

(* An entry leaves the outbox only when iCloud has accepted its text or a   *)
(* conflict about its reminder is in the table, wherever the process dies   *)
(* between the statements: flush_outbox records before it touches anything. *)
THEOREM NoEditIsDropped == Spec => NothingDropped
<1>1. Typed /\ Accounted /\ [Next]_vars =>
        [Len(outbox') < Len(outbox) =>
           \/ item.patch.title \in uploaded
           \/ \E i \in 1..Len(conflicts) : conflicts[i].id = item.id]_vars
  BY LeavesAccounted
<1> QED
  BY <1>1, AlwaysAccounted, PTL DEF Spec, NothingDropped

-----------------------------------------------------------------------------
(* The saved token, while the process lives. A crash between the steps that *)
(* move an id and acknowledge its entry leaves a create entry that names a  *)
(* record: the next pass creates it a second time.                          *)

Quiet(r) == ~rows[r].dirty /\ ~Pending(outbox, r)
Shows(r, v) == /\ rows[r].here /\ rows[r].tag = v.tag
               /\ rows[r].title = v.title /\ rows[r].deleted = v.deleted
Same(v, w) == v.tag = w.tag /\ v.title = w.title /\ v.deleted = w.deleted

(* A settled row shows the version of its record if that is no newer than k. *)
ShownTo(r, k) == cloud[r].state = "live" /\ cloud[r].tag <= k /\ Quiet(r)
                   => Shows(r, cloud[r])
UpTo(k) == \A r \in Records : ShownTo(r, k)

(* A reminder created here has a local id until it is replaced, and one     *)
(* entry or one call that makes it.                                         *)
Creating(c) == call[c].stage # "none" /\ call[c].op = "create"
Minted ==
  /\ pc = "replace" => item.op = "create"
  /\ \A i \in 1..Len(outbox) : outbox[i].op = "create"
       => outbox[i].id \in minted \/ (pc = "ack" /\ i = 1)
  /\ \A c \in Calls : Creating(c)
       => call[c].stage = "enqueue" /\ call[c].id \in minted /\ call[c].conflict = 0
Once ==
  /\ \A i, j \in 1..Len(outbox) :
       outbox[i].op = "create" /\ outbox[j].op = "create" /\ outbox[i].id = outbox[j].id
       => i = j
  /\ \A i \in 1..Len(outbox), c \in Calls :
       outbox[i].op = "create" /\ Creating(c) => outbox[i].id # call[c].id
  /\ \A c, d \in Calls : Creating(c) /\ Creating(d) /\ call[c].id = call[d].id => c = d

(* No token and no tag is ahead of iCloud. *)
Clocked == /\ cursor <= clock /\ next <= clock
           /\ \A r \in Records : /\ cloud[r].tag <= clock
                                 /\ cloud[r].state = "live" => cloud[r].tag > 0

(* The answer in hand is the record as it is, or the next delta reads it    *)
(* again: so it is for a write, and when iCloud refused one without saying  *)
(* what it holds.                                                           *)
Asked == pc \in {"modify"} \cup Settling /\ reply.id \in Records =>
           cloud[reply.id].tag > cursor \/ Same(reply, cloud[reply.id])
Refused == pc \in Settling /\ reply.id = NoId => cloud[item.id].tag > cursor
Answered == pc \in Writing => cloud[reply.id].tag > cursor
Taken == pc = "dequeue" /\ reply.id \in Records
           => rows[item.id].dirty \/ Shows(item.id, reply)

(* A tombstone is for good. *)
Gone == /\ \A r \in deleted : cloud[r].state = "erased"
        /\ pc = "unmark" => cloud[victim].state = "erased"

(* A delta is read only on top of a token of this protocol. *)
Delta == pc \in {"pull", "lists", "query", "apply", "tags", "mark", "unmark"} /\ ~full
           => protocol

(* What was downloaded holds every version the tokens claim, as it is or    *)
(* before a write that both tokens leave out.                               *)
Downloaded == pc = "apply" \/ (pc = "lists" /\ ~full)
Ahead == Downloaded => \A x \in updated :
           \/ Same(x, cloud[x.id])
           \/ cloud[x.id].tag > cursor /\ cloud[x.id].tag > next
Fetched == Downloaded => \A r \in Records :
             /\ cloud[r].state = "live" /\ cloud[r].tag <= next
             /\ full \/ cloud[r].tag > cursor
             => \E x \in updated : x.id = r
Refetched == Downloaded /\ full => \A r \in Records :
               cloud[r].state = "live" /\ cloud[r].tag <= cursor
               => \E x \in updated : x.id = r

(* The rows agree with both tokens before the new one is saved. *)
Applied == /\ pc \in {"tags", "mark", "unmark"} => UpTo(next) /\ UpTo(cursor)
           /\ pc = "stamp" => UpTo(cursor)
Trusted == protocol => UpTo(cursor)

Believed == /\ Minted /\ Once /\ Clocked /\ Asked /\ Refused /\ Answered /\ Taken
            /\ Gone /\ Delta /\ Ahead /\ Fetched /\ Refetched /\ Applied /\ Trusted

-----------------------------------------------------------------------------
(* What each kind of step does to what the token depends on. *)

Rewritten(r) == /\ clock' = clock + 1 /\ cloud[r].state # "erased"
                /\ \A q \in Records \ {r} : cloud'[q] = cloud[q]
                /\ cloud'[r].tag = clock + 1

(* A record that is written gets the next tag, and the others stay.         *)
LEMMA OtherEffect ==
  ASSUME Typed, NEW r \in Records, OtherEdit(r) \/ OtherErase(r)
  PROVE  /\ Rewritten(r) /\ UNCHANGED cacheVars /\ UNCHANGED passVars /\ call' = call
         /\ minted' = minted
<1>1. PICK t \in Text, state \in {"live", "erased"} : OtherWrites(r, t, state)
  BY FreshType, RecordTyped DEF OtherEdit, OtherErase, Typed
<1> DEFINE v == [title |-> t, deleted |-> cloud[r].deleted, tag |-> clock + 1]
           w == Written(state, v, "other", cloud[r].born)
<1>2. cloud' = [cloud EXCEPT ![r] = w] /\ clock' = clock + 1 /\ cloud[r].state = "live"
  BY <1>1 DEF OtherWrites
<1>3. w.tag = clock + 1
  BY DEF Written
<1> HIDE DEF w
<1>4. Rewritten(r)
  BY <1>2, <1>3 DEF Rewritten, Typed, CloudOK
<1>5. UNCHANGED cacheVars /\ UNCHANGED passVars /\ call' = call /\ minted' = minted
  BY <1>1 DEF OtherWrites
<1> QED
  BY <1>4, <1>5

(* So it is for a record this PC creates.                                   *)
LEMMA CreateEffect ==
  ASSUME Typed, NEW r \in Records, NEW lost \in BOOLEAN, create(r, lost)
  PROVE  /\ Rewritten(r) /\ UNCHANGED cacheVars /\ call' = call /\ minted' = minted
         /\ pc = "head" /\ outbox # <<>> /\ item.op = "create"
         /\ \/ pc' = "idle" /\ Forget
            \/ pc' = "replace" /\ reply'.id = r /\ Kept
<1> DEFINE v == [title |-> PatchedTitle(NoRow, HeadPatch), deleted |-> FALSE,
                 tag |-> clock + 1]
           w == Written("live", v, "pc", HeadPatch.title)
<1>1. cloud' = [cloud EXCEPT ![r] = w] /\ clock' = clock + 1 /\ cloud[r].state = "none"
  BY DEF create
<1>2. w.tag = clock + 1
  BY DEF Written
<1>3. Answer(r, v).id = r
  BY DEF Answer
<1>4. (pc' = "idle" /\ Forget) \/ (pc' = "replace" /\ reply' = Answer(r, v) /\ Kept)
  BY DEF create, Received, Abort
<1> HIDE DEF w, v
<1>5. Rewritten(r)
  BY <1>1, <1>2 DEF Rewritten, Typed, CloudOK
<1> QED
  BY <1>3, <1>4, <1>5 DEF create

(* And for one it writes.                                                   *)
LEMMA ModifyEffect ==
  ASSUME Typed, NEW lost \in BOOLEAN, modify(lost)
  PROVE  /\ reply.id \in Records /\ Rewritten(reply.id)
         /\ UNCHANGED cacheVars /\ call' = call /\ minted' = minted
         /\ pc = "modify" /\ outbox # <<>>
         /\ \/ pc' = "idle" /\ Forget
            \/ pc' = "ack" /\ reply'.id = reply.id /\ Kept
<1> DEFINE r == reply.id
           v == [title |-> PatchedTitle(cloud[r], HeadPatch),
                 deleted |-> PatchedDeleted(cloud[r], HeadPatch), tag |-> clock + 1]
           w == Written("live", v, "pc", cloud[r].born)
<1>1. cloud' = [cloud EXCEPT ![r] = w] /\ clock' = clock + 1 /\ cloud[r].state = "live"
  BY DEF modify
<1>2. w.tag = clock + 1
  BY DEF Written
<1>3. Answer(r, v).id = r
  BY DEF Answer
<1>4. (pc' = "idle" /\ Forget) \/ (pc' = "ack" /\ reply' = Answer(r, v) /\ Kept)
  BY DEF modify, Received, Abort
<1>5. r \in Records /\ pc = "modify" /\ outbox # <<>>
  BY DEF modify, Typed, Upload
<1> HIDE DEF w, v, r
<1>6. Rewritten(r)
  BY <1>1, <1>2, <1>5 DEF Rewritten, Typed, CloudOK
<1>7. UNCHANGED cacheVars /\ call' = call /\ minted' = minted
  BY DEF modify
<1> QED
  BY <1>3, <1>4, <1>5, <1>6, <1>7 DEF r

(* A call leaves a row of a record alone or makes it dirty, and queues.     *)
LEMMA CallsEffect ==
  ASSUME Typed, UserNext \/ CallStep
  PROVE  /\ UNCHANGED cloudVars /\ UNCHANGED passVars
         /\ cursor' = cursor /\ protocol' = protocol
         /\ outbox # <<>> => item' = item
         /\ \A r \in Records : /\ rows'[r] = rows[r] \/ rows'[r].dirty
                               /\ Pending(outbox, r) => Pending(outbox', r)
<1>1. UNCHANGED <<cloud, clock>> /\ UNCHANGED passVars
      /\ (outbox # <<>> => Head(outbox') = Head(outbox))
  BY CallsKeep DEF CallKeeps
<1>2. cursor' = cursor /\ protocol' = protocol
  BY DEF UserNext, CallStep, create_reminder, update_reminder, delete_reminder,
     restore_reminder, Begin, keep_local, resolve_conflict, ApplyEdit, Reread,
     EnqueueEdit, MarkResolved, cacheVars
<1>3. ASSUME NEW r \in Records PROVE rows'[r] = rows[r] \/ rows'[r].dirty
  <2>1. CASE rows' = rows
    BY <2>1
  <2>2. ASSUME NEW c \in Calls, NEW id \in LocalIds, create_reminder(c, id)
        PROVE  rows'[r] = rows[r]
    <3>1. rows' = UpsertLocal(rows, id, Fresh) /\ r # id /\ r \in Ids
      BY <2>2, IdsAssumption DEF create_reminder, insert_local_reminder, Ids
    <3> QED
      BY <3>1 DEF UpsertLocal, Typed, CacheOK
  <2>3. ASSUME NEW c \in Calls, ApplyEdit(c) PROVE rows'[r] = rows[r] \/ rows'[r].dirty
    <3> DEFINE id == call[c].id
               p == call[c].patch
    <3>1. rows' = apply_local_edit(id, p) /\ id \in Ids /\ p \in Patch /\ r \in Ids
      BY <2>3, CallFields DEF ApplyEdit, Typed, Ids
    <3> HIDE DEF id, p
    <3>2. CASE rows[id].here /\ p # NoPatch
      <4>1. \A q \in Ids \ {id} : apply_local_edit(id, p)[q] = rows[q]
        BY <3>1, EditTyped DEF Typed
      <4>2. apply_local_edit(id, p)[id].dirty
        BY <3>1, <3>2, EditTyped DEF Typed
      <4> QED
        BY <3>1, <4>1, <4>2
    <3>3. CASE ~(rows[id].here /\ p # NoPatch)
      BY <3>1, <3>3 DEF apply_local_edit, Edit
    <3> QED
      BY <3>2, <3>3
  <2>4. \/ rows' = rows \/ (\E c \in Calls : ApplyEdit(c))
        \/ (\E c \in Calls, id \in LocalIds : create_reminder(c, id))
    BY DEF UserNext, CallStep, update_reminder, delete_reminder,
       restore_reminder, Begin, keep_local, resolve_conflict, Reread,
       EnqueueEdit, MarkResolved, cacheVars
  <2> QED
    BY <2>1, <2>2, <2>3, <2>4
<1>4. ASSUME NEW r \in Records, Pending(outbox, r) PROVE Pending(outbox', r)
  <2>1. outbox' = outbox \/ (\E c \in Calls : EnqueueEdit(c))
    BY DEF UserNext, CallStep, create_reminder, update_reminder, delete_reminder,
       restore_reminder, Begin, keep_local, resolve_conflict, ApplyEdit, Reread,
       MarkResolved, cacheVars
  <2>2. ASSUME NEW c \in Calls, EnqueueEdit(c) PROVE Pending(outbox', r)
    <3>1. Len(outbox') = Len(outbox) + 1 /\ Len(outbox) \in Nat
          /\ \A i \in 1..Len(outbox) : outbox'[i] = outbox[i]
      BY <2>2, EnqueueKeeps DEF Typed, CacheOK
    <3> QED
      BY <1>4, <3>1 DEF Pending
  <2> QED
    BY <1>4, <2>1, <2>2
<1> QED
  BY <1>1, <1>2, <1>3, <1>4 DEF cloudVars, item

(* The steps that only look. *)
Looks == lookup \/ ModifyRefused \/ ReadLocal \/ Reads \/ Throw

(* The steps that only read leave the cache and iCloud alone.               *)
LEMMA LooksEffect ==
  ASSUME Typed, Looks
  PROVE  /\ UNCHANGED cacheVars /\ UNCHANGED cloudVars /\ call' = call /\ minted' = minted
         /\ item' = item /\ crashes' = crashes
<1>1. CASE Reads
  BY <1>1, ReadsTyped DEF cacheVars, item, envVars
<1>2. CASE lookup \/ ModifyRefused \/ ReadLocal \/ Throw
  BY <1>2 DEF lookup, ModifyRefused, ReadLocal, Throw, cacheVars, envVars, item
<1> QED
  BY <1>1, <1>2 DEF Looks

(* Every step while the process lives is of one of these kinds. *)
LEMMA StepKinds ==
  ASSUME Typed, [Next]_vars, crashes' = 0
  PROVE  /\ crashes = 0
         /\ \/ UserNext \/ CallStep \/ Looks \/ UNCHANGED vars
            \/ (\E r \in Records : OtherEdit(r) \/ OtherErase(r))
            \/ (\E r \in Records, lost \in BOOLEAN : create(r, lost))
            \/ (\E lost \in BOOLEAN : modify(lost))
            \/ ReplaceId \/ AcknowledgePush \/ UpsertReply
            \/ RecordConflict \/ ClearConflicting \/ TakeRemote \/ Dequeue
            \/ UpsertDownload \/ (\E r \in Records : MarkDeleted(r)) \/ ClearDeleted
            \/ SaveCursor \/ Stamp
<1>1. crashes \in Nat
  BY DEF Typed, EnvOK
<1>2. crashes' = crashes \/ Crash
  <2>1. CASE UserNext \/ CallStep
    BY <2>1 DEF UserNext, CallStep, create_reminder, update_reminder, delete_reminder,
       restore_reminder, Begin, keep_local, resolve_conflict, ApplyEdit, Reread,
       EnqueueEdit, MarkResolved, envVars
  <2>2. CASE OtherNext
    BY <2>2 DEF OtherNext, OtherEdit, OtherErase, OtherWrites
  <2>3. CASE EngineStep
    <3>1. CASE (\E r \in Records : create(r, FALSE)) \/ modify(FALSE)
      BY <3>1 DEF create, modify
    <3>2. CASE Reads \/ lookup \/ ModifyRefused \/ ReadLocal
      BY <3>2, LooksEffect DEF Looks
    <3>3. CASE \/ UpsertReply \/ RecordConflict \/ ClearConflicting \/ TakeRemote
               \/ ReplaceId \/ AcknowledgePush \/ Dequeue
      BY <3>3 DEF UpsertReply, RecordConflict, ClearConflicting, TakeRemote, ReplaceId,
         AcknowledgePush, Dequeue, envVars
    <3>4. CASE UpsertDownload \/ ClearDeleted \/ SaveCursor \/ Stamp
               \/ (\E r \in Records : MarkDeleted(r))
      BY <3>4 DEF UpsertDownload, MarkDeleted, ClearDeleted, SaveCursor, Stamp, envVars
    <3> QED
      BY <2>3, <3>1, <3>2, <3>3, <3>4, EngineCases
  <2>4. CASE FaultNext
    BY <2>4 DEF FaultNext, create, modify, Throw
  <2>5. CASE UNCHANGED vars
    BY <2>5 DEF vars, envVars
  <2> QED
    BY <2>1, <2>2, <2>3, <2>4, <2>5 DEF Next
<1>3. Crash => crashes' = crashes + 1
  BY DEF Crash
<1>4. crashes = 0 /\ ~Crash
  BY <1>1, <1>2, <1>3
<1>5. UserNext \/ CallStep \/ OtherNext \/ EngineStep \/ FaultNext \/ UNCHANGED vars
  BY DEF Next
<1>6. TRUE \in BOOLEAN /\ FALSE \in BOOLEAN
  OBVIOUS
<1>7. CASE EngineStep
  BY <1>4, <1>6, <1>7, EngineCases, Zenon DEF Looks
<1>8. CASE FaultNext
  BY <1>4, <1>6, <1>8, Zenon DEF FaultNext, Looks
<1> QED
  BY <1>4, <1>5, <1>7, <1>8 DEF OtherNext

-----------------------------------------------------------------------------
(* The calls and the other devices leave the pass where it is. *)

RowStays(r) == /\ rows'[r] = rows[r] \/ rows'[r].dirty
               /\ Pending(outbox, r) => Pending(outbox', r)
Stays == /\ UNCHANGED passVars /\ cursor' = cursor /\ protocol' = protocol
         /\ outbox # <<>> => item' = item
         /\ UNCHANGED cloudVars \/ \E r \in Records : Rewritten(r)
         /\ \A r \in Records : RowStays(r)

(* The same with the steps that do not touch the pass taken together.       *)
LEMMA StepCases ==
  ASSUME Typed, [Next]_vars, crashes' = 0
  PROVE  /\ crashes = 0
         /\ \/ Stays \/ Looks
            \/ (\E r \in Records, lost \in BOOLEAN : create(r, lost))
            \/ (\E lost \in BOOLEAN : modify(lost))
            \/ ReplaceId \/ AcknowledgePush \/ UpsertReply
            \/ RecordConflict \/ ClearConflicting \/ TakeRemote \/ Dequeue
            \/ UpsertDownload \/ (\E r \in Records : MarkDeleted(r)) \/ ClearDeleted
            \/ SaveCursor \/ Stamp
<1>1. ASSUME UserNext \/ CallStep PROVE Stays
  BY <1>1, CallsEffect DEF Stays, RowStays
<1>2. ASSUME NEW r \in Records, OtherEdit(r) \/ OtherErase(r) PROVE Stays
  <2>1. Rewritten(r) /\ UNCHANGED cacheVars /\ UNCHANGED passVars
    BY <1>2, OtherEffect
  <2> QED
    BY <2>1 DEF Stays, RowStays, cacheVars, item
<1>3. ASSUME UNCHANGED vars PROVE Stays
  BY <1>3 DEF Stays, RowStays, vars, cacheVars, item
<1> QED
  BY <1>1, <1>2, <1>3, StepKinds

(* The cloud changes by one write at a time. *)
LEMMA CloudSteps ==
  ASSUME Typed, [Next]_vars, crashes' = 0
  PROVE  UNCHANGED cloudVars \/ \E r \in Records : Rewritten(r)
<1>1. ASSUME NEW r \in Records, NEW lost \in BOOLEAN, create(r, lost) PROVE Rewritten(r)
  BY <1>1, CreateEffect
<1>2. ASSUME NEW lost \in BOOLEAN, modify(lost)
      PROVE  reply.id \in Records /\ Rewritten(reply.id)
  BY <1>2, ModifyEffect
<1>3. CASE Looks
  BY <1>3, LooksEffect
<1>4. CASE \/ ReplaceId \/ AcknowledgePush \/ UpsertReply
           \/ RecordConflict \/ ClearConflicting \/ TakeRemote \/ Dequeue
  BY <1>4 DEF ReplaceId, AcknowledgePush, UpsertReply, RecordConflict, ClearConflicting,
     TakeRemote, Dequeue
<1>5. CASE \/ UpsertDownload \/ (\E r \in Records : MarkDeleted(r)) \/ ClearDeleted
           \/ SaveCursor \/ Stamp
  BY <1>5 DEF UpsertDownload, MarkDeleted, ClearDeleted, SaveCursor, Stamp
<1> QED
  BY <1>1, <1>2, <1>3, <1>4, <1>5, StepCases DEF Stays

(* The tokens change where they are asked for and saved. *)
LEMMA TokenSteps ==
  ASSUME Typed, [Next]_vars, crashes' = 0
  PROVE  /\ cursor' = cursor \/ (SaveCursor /\ cursor' \in {cursor, next})
         /\ protocol' = protocol \/ Stamp
         /\ next' \in {next, 0, clock}
<1>1. ASSUME NEW r \in Records, NEW lost \in BOOLEAN, create(r, lost)
      PROVE  UNCHANGED <<cursor, protocol>> /\ next' \in {next, 0, clock}
  BY <1>1, CreateEffect DEF cacheVars, Forget, Kept
<1>2. ASSUME NEW lost \in BOOLEAN, modify(lost)
      PROVE  UNCHANGED <<cursor, protocol>> /\ next' \in {next, 0, clock}
  BY <1>2, ModifyEffect DEF cacheVars, Forget, Kept
<1>3. CASE Looks
  <2>1. UNCHANGED <<cursor, protocol>>
    BY <1>3, LooksEffect DEF cacheVars
  <2>2. CASE Reads
    BY <2>1, <2>2 DEF Reads, StartPass, PushDone, SyncCursor, ChangesSince, Lists,
       RemindersFor, Tags, Kept
  <2>3. CASE lookup \/ ModifyRefused \/ ReadLocal \/ Throw
    BY <2>1, <2>3 DEF lookup, ModifyRefused, ReadLocal, Throw, Kept, Abort, Forget
  <2> QED
    BY <1>3, <2>2, <2>3 DEF Looks
<1>4. CASE \/ ReplaceId \/ AcknowledgePush \/ UpsertReply
           \/ RecordConflict \/ ClearConflicting \/ TakeRemote \/ Dequeue
  BY <1>4 DEF ReplaceId, AcknowledgePush, UpsertReply, RecordConflict, ClearConflicting,
     TakeRemote, Dequeue, Kept, Forget
<1>5. CASE UpsertDownload \/ (\E r \in Records : MarkDeleted(r)) \/ ClearDeleted
  BY <1>5 DEF UpsertDownload, MarkDeleted, ClearDeleted
<1>6. CASE SaveCursor \/ Stamp
  BY <1>6 DEF SaveCursor, Stamp, Forget
<1>7. CASE Stays
  BY <1>7 DEF Stays, passVars
<1> QED
  BY <1>1, <1>2, <1>3, <1>4, <1>5, <1>6, <1>7, StepCases

(* No step saves or reads a token that iCloud has not reached.              *)
LEMMA ClockedStep ==
  ASSUME Typed, Clocked, [Next]_vars, crashes' = 0
  PROVE  Clocked' /\ clock <= clock'
<1>1. clock \in Nat /\ cursor \in Nat /\ next \in Nat /\ \A r \in Records : cloud[r].tag \in Nat
  BY RecordTyped DEF Typed, CloudOK, CacheOK, PassOK
<1>2. cursor' <= clock /\ next' <= clock
  BY <1>1, TokenSteps DEF Clocked
<1>3. CASE UNCHANGED cloudVars
  BY <1>1, <1>2, <1>3 DEF Clocked, cloudVars
<1>4. ASSUME NEW r \in Records, Rewritten(r) PROVE Clocked' /\ clock <= clock'
  <2>1. cursor' \in Nat /\ next' \in Nat
    BY <1>1, TokenSteps
  <2>2. clock' = clock + 1
    BY <1>4 DEF Rewritten
  <2>3. cursor' <= clock' /\ next' <= clock' /\ clock <= clock'
    BY <1>1, <1>2, <2>1, <2>2
  <2>4. ASSUME NEW q \in Records
        PROVE  cloud'[q].tag <= clock' /\ (cloud'[q].state = "live" => cloud'[q].tag > 0)
    <3>1. CASE q = r
      BY <1>1, <1>4, <2>2, <3>1 DEF Rewritten
    <3>2. CASE q # r
      BY <1>1, <1>4, <2>2, <3>2 DEF Rewritten, Clocked
    <3> QED
      BY <3>1, <3>2
  <2> QED
    BY <2>3, <2>4 DEF Clocked
<1> QED
  BY <1>3, <1>4, CloudSteps

-----------------------------------------------------------------------------
(* One entry, with a local id, makes each reminder. *)

(* A call that creates takes an id nobody has.                              *)
LEMMA CreateCalls ==
  ASSUME Typed, NEW c \in Calls, NEW id \in LocalIds, create_reminder(c, id)
  PROVE  /\ id \notin minted /\ minted' = minted \cup {id} /\ outbox' = outbox
         /\ UNCHANGED passVars
         /\ call'[c].stage = "enqueue" /\ call'[c].id = id /\ call'[c].conflict = 0
         /\ call'[c].op = "create"
         /\ \A d \in Calls \ {c} : call'[d] = call[d]
<1> DEFINE k == [NoCall EXCEPT !.stage = "enqueue", !.op = "create", !.id = id,
                               !.patch = SetTitle(Fresh)]
<1>1. call' = [call EXCEPT ![c] = k] /\ call \in [Calls -> Call]
  BY DEF create_reminder, Typed, CallOK
<1>2. k.stage = "enqueue" /\ k.id = id /\ k.conflict = 0 /\ k.op = "create"
  BY DEF NoCall
<1> HIDE DEF k
<1>3. call'[c] = k /\ \A d \in Calls \ {c} : call'[d] = call[d]
  BY <1>1
<1> QED
  BY <1>2, <1>3 DEF create_reminder

(* Other steps of calls make no call a creating one, and a creating one     *)
(* only queues its entry, with which it ends.                               *)
LEMMA OtherCalls ==
  ASSUME Typed, Minted, UserNext \/ CallStep
  PROVE  \/ \E c \in Calls, id \in LocalIds : create_reminder(c, id)
         \/ /\ minted' = minted
            /\ \A d \in Calls : (Creating(d))' => Creating(d) /\ call'[d] = call[d]
            /\ \/ outbox' = outbox
               \/ \E c \in Calls : EnqueueEdit(c) /\ ~(Creating(c))'
<1> DEFINE Good == /\ minted' = minted
                   /\ \A d \in Calls : (Creating(d))' => Creating(d) /\ call'[d] = call[d]
                   /\ \/ outbox' = outbox
                      \/ \E c \in Calls : EnqueueEdit(c) /\ ~(Creating(c))'
<1>1. call \in [Calls -> Call]
  BY DEF Typed, CallOK
<1>2. NoCall.stage = "none" /\ NoCall.op = "update"
  BY DEF NoCall
<1>3. ASSUME NEW c \in Calls, NEW k, call' = [call EXCEPT ![c] = k],
             k.stage = "none" \/ k.op # "create",
             minted' = minted, outbox' = outbox \/ EnqueueEdit(c)
      PROVE  Good
  <2>1. call'[c] = k /\ \A d \in Calls \ {c} : call'[d] = call[d]
    BY <1>1, <1>3
  <2>2. ~(Creating(c))'
    BY <1>3, <2>1 DEF Creating
  <2>3. ASSUME NEW d \in Calls, (Creating(d))' PROVE Creating(d) /\ call'[d] = call[d]
    BY <2>1, <2>2, <2>3 DEF Creating
  <2> QED
    BY <1>3, <2>2, <2>3
<1>4. ASSUME NEW c \in Calls, NEW id \in Ids, NEW op \in {"update", "delete"}, NEW p,
             Begin(c, id, op, p)
      PROVE  Good
  <2> DEFINE k == [NoCall EXCEPT !.stage = "edit", !.op = op, !.id = id,
                                 !.patch = p, !.base = rows[id].tag]
  <2>1. call' = [call EXCEPT ![c] = k] /\ minted' = minted /\ outbox' = outbox
    BY <1>4 DEF Begin, cacheVars
  <2>2. k.op # "create"
    BY DEF NoCall
  <2> HIDE DEF k, Good
  <2> QED
    BY <1>3, <2>1, <2>2
<1>5. ASSUME NEW c \in Calls, NEW i \in 1..Len(conflicts), keep_local(c, i)
      PROVE  Good
  <2> DEFINE x == conflicts[i]
             k == [NoCall EXCEPT !.stage = "edit", !.id = x.id,
                                 !.patch = SetTitle(x.local.title), !.conflict = i]
  <2>1. call' = [call EXCEPT ![c] = k] /\ minted' = minted /\ outbox' = outbox
    BY <1>5 DEF keep_local, cacheVars
  <2>2. k.op # "create"
    BY DEF NoCall
  <2> HIDE DEF k, Good
  <2> QED
    BY <1>3, <2>1, <2>2
<1>6. ASSUME NEW c \in Calls, NEW i \in 1..Len(conflicts), resolve_conflict(c, i)
      PROVE  Good
  BY <1>6 DEF resolve_conflict, envVars, Creating
<1>7. ASSUME NEW c \in Calls, ApplyEdit(c) PROVE Good
  <2>1. PICK s \in {"enqueue", "reread"} : call' = [call EXCEPT ![c].stage = s]
    BY <1>7 DEF ApplyEdit, To
  <2> DEFINE k == [call[c] EXCEPT !.stage = s]
  <2>2. call[c].op # "create"
    BY <1>7 DEF ApplyEdit, Minted, Creating
  <2>3. call' = [call EXCEPT ![c] = k] /\ k.op # "create"
    BY <1>1, <2>1, <2>2 DEF Call
  <2>4. minted' = minted /\ outbox' = outbox
    BY <1>7 DEF ApplyEdit, envVars
  <2> HIDE DEF k, Good
  <2> QED
    BY <1>3, <2>3, <2>4
<1>8. ASSUME NEW c \in Calls, Reread(c) PROVE Good
  <2> DEFINE k == [call[c] EXCEPT !.stage = "enqueue", !.base = rows[call[c].id].tag]
  <2>1. call[c].op # "create"
    BY <1>8 DEF Reread, Minted, Creating
  <2>2. call' = [call EXCEPT ![c] = k] /\ k.op # "create"
    BY <1>1, <1>8, <2>1 DEF Reread, Call
  <2>3. minted' = minted /\ outbox' = outbox
    BY <1>8 DEF Reread, envVars, cacheVars
  <2> HIDE DEF k, Good
  <2> QED
    BY <1>3, <2>2, <2>3
<1>9. ASSUME NEW c \in Calls, EnqueueEdit(c) PROVE Good
  <2>1. minted' = minted
    BY <1>9 DEF EnqueueEdit, envVars
  <2>2. CASE call[c].conflict = 0
    <3>1. call' = [call EXCEPT ![c] = NoCall]
      BY <1>9, <2>2 DEF EnqueueEdit, Finish
    <3> HIDE DEF Good
    <3> QED
      BY <1>2, <1>3, <1>9, <2>1, <3>1
  <2>3. CASE call[c].conflict # 0
    <3> DEFINE k == [call[c] EXCEPT !.stage = "resolve"]
    <3>1. call[c].op # "create"
      BY <1>9, <2>3 DEF EnqueueEdit, Minted, Creating
    <3>2. call' = [call EXCEPT ![c] = k] /\ k.op # "create"
      BY <1>1, <1>9, <2>3, <3>1 DEF EnqueueEdit, To, Call
    <3> HIDE DEF k, Good
    <3> QED
      BY <1>3, <1>9, <2>1, <3>2
  <2> QED
    BY <2>2, <2>3
<1>10. ASSUME NEW c \in Calls, MarkResolved(c) PROVE Good
  <2>1. call' = [call EXCEPT ![c] = NoCall] /\ minted' = minted /\ outbox' = outbox
    BY <1>10 DEF MarkResolved, Finish, envVars
  <2> HIDE DEF Good
  <2> QED
    BY <1>2, <1>3, <2>1
<1> HIDE DEF Good
<1>11. (\E c \in Calls, id \in LocalIds : create_reminder(c, id)) \/ Good
  BY <1>4, <1>5, <1>6, <1>7, <1>8, <1>9, <1>10 DEF UserNext, CallStep, update_reminder,
     delete_reminder, restore_reminder
<1> QED
  BY <1>11 DEF Good

(* The engine makes no call and mints no id. *)
LEMMA NamesStay ==
  ASSUME Typed, [Next]_vars, crashes' = 0, ~(UserNext \/ CallStep)
  PROVE  call' = call /\ minted' = minted
<1>1. ASSUME NEW r \in Records, OtherEdit(r) \/ OtherErase(r)
      PROVE  call' = call /\ minted' = minted
  BY <1>1, OtherEffect
<1>2. ASSUME NEW r \in Records, NEW lost \in BOOLEAN, create(r, lost)
      PROVE  call' = call /\ minted' = minted
  BY <1>2, CreateEffect
<1>3. ASSUME NEW lost \in BOOLEAN, modify(lost) PROVE call' = call /\ minted' = minted
  BY <1>3, ModifyEffect
<1>4. CASE Looks
  BY <1>4, LooksEffect
<1>5. CASE \/ ReplaceId \/ AcknowledgePush \/ UpsertReply
           \/ RecordConflict \/ ClearConflicting \/ TakeRemote \/ Dequeue
  BY <1>5 DEF ReplaceId, AcknowledgePush, UpsertReply, RecordConflict, ClearConflicting,
     TakeRemote, Dequeue, envVars
<1>6. CASE \/ UpsertDownload \/ (\E r \in Records : MarkDeleted(r)) \/ ClearDeleted
           \/ SaveCursor \/ Stamp
  BY <1>6 DEF UpsertDownload, MarkDeleted, ClearDeleted, SaveCursor, Stamp, envVars
<1>7. CASE UNCHANGED vars
  BY <1>7 DEF vars, envVars
<1> QED
  BY <1>1, <1>2, <1>3, <1>4, <1>5, <1>6, <1>7, StepKinds

(* The answer that names a created record is worked on until it has been    *)
(* acknowledged.                                                            *)
LEMMA AckStays ==
  ASSUME Typed, [Next]_vars, crashes' = 0, pc = "ack", ~AcknowledgePush
  PROVE  pc' = "ack"
<1>1. ASSUME NEW r \in Records, NEW lost \in BOOLEAN PROVE ~create(r, lost)
  BY CreateEffect
<1>2. ASSUME NEW lost \in BOOLEAN PROVE ~modify(lost)
  BY ModifyEffect
<1>3. ~Looks
  BY DEF Looks, Reads, lookup, ModifyRefused, ReadLocal, Throw, StartPass, PushDone,
     SyncCursor, ChangesSince, Lists, RemindersFor, Tags
<1>4. ~(\/ ReplaceId \/ UpsertReply
        \/ RecordConflict \/ ClearConflicting \/ TakeRemote \/ Dequeue)
  BY DEF ReplaceId, UpsertReply, RecordConflict, ClearConflicting, TakeRemote, Dequeue
<1>5. ~(\/ UpsertDownload \/ (\E r \in Records : MarkDeleted(r)) \/ ClearDeleted
        \/ SaveCursor \/ Stamp)
  BY DEF UpsertDownload, MarkDeleted, ClearDeleted, SaveCursor, Stamp
<1> QED
  BY <1>1, <1>2, <1>3, <1>4, <1>5, StepCases DEF Stays, passVars

(* The outbox after each kind of step that changes it. *)
LEMMA Enqueued ==
  ASSUME Typed, NEW c \in Calls, EnqueueEdit(c)
  PROVE  /\ pc' = pc
         /\ \A i \in 1..Len(outbox') :
              \/ i \in 1..Len(outbox) /\ outbox'[i] = outbox[i]
              \/ /\ i = Len(outbox) + 1 /\ outbox'[i].op = call[c].op
                 /\ outbox'[i].id = call[c].id
<1>1. /\ Len(outbox') = Len(outbox) + 1 /\ Len(outbox) \in Nat
      /\ \A i \in 1..Len(outbox) : outbox'[i] = outbox[i]
      /\ outbox'[Len(outbox) + 1].op = call[c].op
      /\ outbox'[Len(outbox) + 1].id = call[c].id /\ pc' = pc
  BY EnqueueKeeps DEF Typed, CacheOK, CallKeeps, passVars
<1> QED
  BY <1>1

(* Moving an id renames entries, and pends nothing that was not pending.    *)
LEMMA Replaced ==
  ASSUME Typed, ReplaceId
  PROVE  /\ Len(outbox') = Len(outbox) /\ outbox # <<>> /\ 1 \in 1..Len(outbox)
         /\ pc = "replace" /\ pc' = "ack" /\ reply.id \in Records
         /\ item = outbox[1]
         /\ \A i \in 1..Len(outbox) :
              /\ outbox'[i].op = outbox[i].op
              /\ outbox'[i].id = IF outbox[i].id = outbox[1].id THEN reply.id ELSE outbox[i].id
         /\ \A q : q # item.id /\ q # reply.id => (Pending(outbox', q) <=> Pending(outbox, q))
<1>1. /\ outbox' = ReplaceIdOutbox(outbox, item.id, reply.id) /\ reply.id \in Ids
      /\ outbox \in Seq(Item(Ids)) /\ reply.id \in Records /\ outbox # <<>>
      /\ pc = "replace" /\ pc' = "ack"
  BY Constants DEF ReplaceId, replace_id, Typed, Upload, Writing, CacheOK
<1>2. item = outbox[1] /\ 1 \in 1..Len(outbox) /\ item.id \in Ids
  BY <1>1, HeadTyped DEF Typed
<1>3. \A q : q # item.id /\ q # reply.id => (Pending(outbox', q) <=> Pending(outbox, q))
  BY <1>1, <1>2, PendingReplaceId
<1>4. /\ Len(outbox') = Len(outbox)
      /\ \A i \in 1..Len(outbox) :
           /\ outbox'[i].op = outbox[i].op
           /\ outbox'[i].id = IF outbox[i].id = item.id THEN reply.id ELSE outbox[i].id
  BY <1>1, <1>2, ReplaceIdEntries
<1> QED
  BY <1>1, <1>2, <1>3, <1>4

(* An entry that leaves the outbox is the first, and pends for its id only. *)
LEMMA Left ==
  ASSUME Typed, AcknowledgePush \/ Dequeue
  PROVE  /\ Len(outbox') = Len(outbox) - 1 /\ Len(outbox) \in Nat /\ outbox # <<>>
         /\ \A i \in 1..Len(outbox') : /\ i + 1 \in 1..Len(outbox) /\ i + 1 # 1
                                       /\ outbox'[i].op = outbox[i + 1].op
                                       /\ outbox'[i].id = outbox[i + 1].id
         /\ \A q : q # item.id => (Pending(outbox', q) <=> Pending(outbox, q))
<1>1. /\ outbox # <<>> /\ Tail(outbox) \in Seq(Item(Ids)) /\ outbox \in Seq(Item(Ids))
      /\ Len(Tail(outbox)) = Len(outbox) - 1 /\ Len(outbox) \in Nat
      /\ \A i \in 1..Len(Tail(outbox)) : /\ i + 1 \in 1..Len(outbox) /\ i + 1 # 1
                                         /\ Tail(outbox)[i] = outbox[i + 1]
  <2>1. outbox # <<>> /\ outbox \in Seq(Item(Ids))
    BY AcknowledgeTyped, DequeueTyped DEF Typed, CacheOK
  <2> QED
    BY <2>1, HeadTailType
<1>2. \A q : q # item.id => (Pending(Tail(outbox), q) <=> Pending(outbox, q))
  BY <1>1, PendingTail DEF item
<1>3. CASE Dequeue
  BY <1>1, <1>2, <1>3 DEF Dequeue
<1>4. CASE AcknowledgePush
  <2>1. outbox' = Rebase(Tail(outbox), reply.id, reply.tag) /\ reply.tag \in Nat
    BY <1>4, AcknowledgeTyped DEF AcknowledgeOutbox
  <2>2. ASSUME NEW o \in Seq(Item(Ids)), NEW id, NEW tag \in Nat
        PROVE  /\ Len(Rebase(o, id, tag)) = Len(o)
               /\ \A i \in 1..Len(o) : Rebase(o, id, tag)[i].op = o[i].op
                                       /\ Rebase(o, id, tag)[i].id = o[i].id
               /\ \A q : Pending(Rebase(o, id, tag), q) <=> Pending(o, q)
    BY RebaseEntries, PendingRebase
  <2>3. /\ Len(outbox') = Len(Tail(outbox))
        /\ \A i \in 1..Len(Tail(outbox)) : outbox'[i].op = Tail(outbox)[i].op
                                       /\ outbox'[i].id = Tail(outbox)[i].id
        /\ \A q : Pending(outbox', q) <=> Pending(Tail(outbox), q)
    <3>1. /\ Tail(outbox) \in Seq(Item(Ids)) /\ reply.tag \in Nat
          /\ outbox' = Rebase(Tail(outbox), reply.id, reply.tag)
      BY <1>1, <2>1
    <3> HIDE DEF Typed
    <3>2. \A o \in Seq(Item(Ids)), tag \in Nat : \A id :
            /\ Len(Rebase(o, id, tag)) = Len(o)
            /\ \A i \in 1..Len(o) : Rebase(o, id, tag)[i].op = o[i].op
                                    /\ Rebase(o, id, tag)[i].id = o[i].id
            /\ \A q : Pending(Rebase(o, id, tag), q) <=> Pending(o, q)
      BY <2>2, Zenon
    <3> QED
      BY <3>1, <3>2
  <2> QED
    BY <1>1, <1>2, <2>3
<1> QED
  BY <1>3, <1>4

(* A create entry keeps its local id until it is replaced.                  *)
LEMMA MintedStep ==
  ASSUME Typed, Minted, Once, [Next]_vars, crashes' = 0
  PROVE  Minted'
<1>1. pc' = "replace" => item'.op = "create"
  <2> SUFFICES ASSUME pc' = "replace" PROVE item'.op = "create"
    OBVIOUS
  <2>1. CASE pc' = pc /\ ~AcknowledgePush /\ ~Dequeue /\ ~ReplaceId
    <3>1. outbox # <<>> /\ item.op = "create"
      BY <2>1 DEF Typed, Upload, Minted
    <3> QED
      BY <2>1, <3>1, HeadStays
  <2>2. ASSUME NEW r \in Records, create(r, FALSE) PROVE item'.op = "create"
    BY <2>2 DEF create, cacheVars, item
  <2>3. ~ReplaceId /\ ~modify(FALSE)
    BY DEF ReplaceId, modify, Received
  <2> QED
    BY <2>1, <2>2, <2>3, Arrivals
<1>2. minted \subseteq minted' /\ minted \subseteq LocalIds
  BY CreateCalls, OtherCalls, NamesStay DEF Typed, EnvOK
<1>3. \A c \in Calls : (Creating(c))'
        => call'[c].stage = "enqueue" /\ call'[c].id \in minted' /\ call'[c].conflict = 0
  <2>1. ASSUME NEW c \in Calls, NEW id \in LocalIds, create_reminder(c, id),
               NEW d \in Calls, (Creating(d))'
        PROVE  call'[d].stage = "enqueue" /\ call'[d].id \in minted' /\ call'[d].conflict = 0
    <3>1. CASE d = c
      BY <2>1, <3>1, CreateCalls
    <3>2. CASE d # c
      <4>1. call'[d] = call[d]
        BY <2>1, <3>2, CreateCalls
      <4>2. Creating(d)
        BY <2>1, <4>1 DEF Creating
      <4> QED
        BY <1>2, <4>1, <4>2 DEF Minted
    <3> QED
      BY <3>1, <3>2
  <2>2. ASSUME NEW d \in Calls, (Creating(d))',
               (Creating(d))' => Creating(d) /\ call'[d] = call[d]
        PROVE  call'[d].stage = "enqueue" /\ call'[d].id \in minted' /\ call'[d].conflict = 0
    BY <1>2, <2>2 DEF Minted
  <2>3. CASE UserNext \/ CallStep
    BY <2>1, <2>2, <2>3, OtherCalls
  <2>4. CASE ~(UserNext \/ CallStep)
    BY <2>2, <2>4, NamesStay DEF Creating
  <2> QED
    BY <2>3, <2>4
<1>4. \A i \in 1..Len(outbox') : outbox'[i].op = "create"
        => outbox'[i].id \in minted' \/ (pc' = "ack" /\ i = 1)
  <2>1. CASE outbox' = outbox
    <3>1. pc = "ack" => pc' = "ack"
      <4>1. AcknowledgePush => Len(outbox') = Len(outbox) - 1 /\ Len(outbox) \in Nat
        BY Left
      <4> QED
        BY <2>1, <4>1, AckStays
    <3> QED
      BY <1>2, <2>1, <3>1 DEF Minted
  <2>2. ASSUME NEW c \in Calls, EnqueueEdit(c), NEW i \in 1..Len(outbox'),
               outbox'[i].op = "create"
        PROVE  outbox'[i].id \in minted' \/ (pc' = "ack" /\ i = 1)
    <3>1. pc' = pc
      BY <2>2, Enqueued
    <3>2. CASE i \in 1..Len(outbox) /\ outbox'[i] = outbox[i]
      BY <1>2, <2>2, <3>1, <3>2 DEF Minted
    <3>3. CASE outbox'[i].op = call[c].op /\ outbox'[i].id = call[c].id
      <4>1. Creating(c)
        BY <2>2, <3>3 DEF Creating, EnqueueEdit
      <4> QED
        BY <1>2, <3>3, <4>1 DEF Minted
    <3> QED
      BY <2>2, <3>2, <3>3, Enqueued
  <2>3. CASE ReplaceId
    <3> TAKE i \in 1..Len(outbox')
    <3> HAVE outbox'[i].op = "create"
    <3>1. i \in 1..Len(outbox) /\ outbox[i].op = "create" /\ outbox[1].op = "create"
          /\ 1 \in 1..Len(outbox) /\ pc = "replace" /\ pc' = "ack"
      BY <2>3, Replaced DEF Minted
    <3>2. CASE i = 1
      BY <3>1, <3>2
    <3>3. CASE i # 1
      <4>1. outbox[i].id # outbox[1].id
        BY <3>1, <3>3 DEF Once
      <4>2. outbox'[i].id = outbox[i].id
        BY <2>3, <3>1, <4>1, Replaced
      <4> QED
        BY <1>2, <3>1, <4>2 DEF Minted
    <3> QED
      BY <3>2, <3>3
  <2>4. CASE AcknowledgePush \/ Dequeue
    BY <1>2, <2>4, Left DEF Minted
  <2> QED
    BY <2>1, <2>2, <2>3, <2>4, QueueSteps
<1> QED
  BY <1>1, <1>3, <1>4 DEF Minted

(* A local id is given out once, so no second entry creates it.             *)
LEMMA OnceStep ==
  ASSUME Typed, Minted, Once, [Next]_vars, crashes' = 0
  PROVE  Once'
<1>1. minted \subseteq minted' /\ minted \subseteq LocalIds
  BY CreateCalls, OtherCalls, NamesStay DEF Typed, EnvOK
<1> DEFINE Calm == \A d \in Calls : (Creating(d))' => Creating(d) /\ call'[d] = call[d]
<1>2. \/ \E c \in Calls, id \in LocalIds : create_reminder(c, id)
      \/ Calm /\ (outbox' = outbox \/ (\E c \in Calls : EnqueueEdit(c) /\ ~(Creating(c))')
                  \/ ReplaceId \/ AcknowledgePush \/ Dequeue)
  <2>1. CASE UserNext \/ CallStep
    BY <2>1, OtherCalls
  <2>2. CASE ~(UserNext \/ CallStep)
    <3>1. Calm
      BY <2>2, NamesStay DEF Creating
    <3>2. ~(\E c \in Calls : EnqueueEdit(c))
      BY <2>2 DEF CallStep
    <3> QED
      BY <3>1, <3>2, QueueSteps
  <2> QED
    BY <2>1, <2>2
<1>3. ASSUME NEW c \in Calls, NEW id \in LocalIds, create_reminder(c, id) PROVE Once'
  <2>1. /\ id \notin minted /\ outbox' = outbox /\ call'[c].id = id
        /\ \A d \in Calls \ {c} : call'[d] = call[d]
    BY <1>3, CreateCalls
  <2>2. \A d \in Calls \ {c} : (Creating(d))' => Creating(d) /\ call'[d] = call[d]
    BY <2>1 DEF Creating
  <2>3. \A d \in Calls : Creating(d) => call[d].id # id
    BY <2>1 DEF Minted
  <2>4. \A i \in 1..Len(outbox) : outbox[i].op = "create" => outbox[i].id # id
    <3> TAKE i \in 1..Len(outbox)
    <3> HAVE outbox[i].op = "create"
    <3>1. CASE outbox[i].id \in minted
      BY <2>1, <3>1
    <3>2. CASE pc = "ack" /\ i = 1
      <4>1. outbox # <<>> /\ item.id = reply.id /\ reply.id \in Records
        BY <3>2 DEF Typed, Upload, Writing
      <4>2. outbox[1].id \in Records
        BY <4>1, HeadTyped DEF Typed
      <4> QED
        BY <3>2, <4>2, IdsAssumption
    <3> QED
      BY <3>1, <3>2 DEF Minted
  <2> QED
    BY <2>1, <2>2, <2>3, <2>4 DEF Once
<1>4. ASSUME Calm, outbox' = outbox PROVE Once'
  BY <1>4 DEF Once
<1>5. ASSUME Calm, NEW c \in Calls, EnqueueEdit(c), ~(Creating(c))' PROVE Once'
  <2>1. \A i \in 1..Len(outbox') :
          \/ i \in 1..Len(outbox) /\ outbox'[i] = outbox[i]
          \/ /\ i = Len(outbox) + 1 /\ outbox'[i].op = call[c].op
             /\ outbox'[i].id = call[c].id
    BY <1>5, Enqueued
  <2>2. call[c].op = "create" => Creating(c)
    BY <1>5 DEF Creating, EnqueueEdit
  <2>3. ASSUME NEW i \in 1..Len(outbox'), NEW j \in 1..Len(outbox'),
               outbox'[i].op = "create", outbox'[j].op = "create",
               outbox'[i].id = outbox'[j].id
        PROVE  i = j
    <3>1. CASE i = Len(outbox) + 1 /\ outbox'[i].op = call[c].op
               /\ outbox'[i].id = call[c].id
      BY <2>1, <2>2, <2>3, <3>1 DEF Once
    <3>2. CASE i \in 1..Len(outbox) /\ outbox'[i] = outbox[i]
      BY <2>1, <2>2, <2>3, <3>2 DEF Once
    <3> QED
      BY <2>1, <3>1, <3>2
  <2>4. ASSUME NEW i \in 1..Len(outbox'), outbox'[i].op = "create",
               NEW d \in Calls, (Creating(d))'
        PROVE  outbox'[i].id # call'[d].id
    <3>1. Creating(d) /\ call'[d] = call[d] /\ d # c
      BY <1>5, <2>4
    <3>2. CASE i = Len(outbox) + 1 /\ outbox'[i].op = call[c].op
               /\ outbox'[i].id = call[c].id
      <4>1. Creating(c)
        BY <2>2, <2>4, <3>2
      <4>2. call[c].id # call[d].id
        BY <3>1, <4>1 DEF Once
      <4> QED
        BY <3>1, <3>2, <4>2
    <3>3. CASE i \in 1..Len(outbox) /\ outbox'[i] = outbox[i]
      BY <2>4, <3>1, <3>3 DEF Once
    <3> QED
      BY <2>1, <3>2, <3>3
  <2>5. ASSUME NEW d \in Calls, NEW e \in Calls, (Creating(d))', (Creating(e))',
               call'[d].id = call'[e].id
        PROVE  d = e
    <3>1. Creating(d) /\ call'[d] = call[d] /\ Creating(e) /\ call'[e] = call[e]
      BY <1>5, <2>5
    <3> QED
      BY <2>5, <3>1 DEF Once
  <2> QED
    BY <2>3, <2>4, <2>5 DEF Once
<1>6. ASSUME Calm, ReplaceId PROVE Once'
  <2>1. /\ Len(outbox') = Len(outbox) /\ 1 \in 1..Len(outbox) /\ pc = "replace"
        /\ outbox[1].op = "create" /\ reply.id \in Records
        /\ \A i \in 1..Len(outbox) :
             /\ outbox'[i].op = outbox[i].op
             /\ outbox'[i].id = IF outbox[i].id = outbox[1].id THEN reply.id ELSE outbox[i].id
    BY <1>6, Replaced DEF Minted
  <2>2. ASSUME NEW i \in 1..Len(outbox), outbox[i].op = "create"
        PROVE  /\ i # 1 => outbox'[i].id = outbox[i].id /\ outbox[i].id \in LocalIds
               /\ i = 1 => outbox'[i].id = reply.id
    <3>1. i # 1 => outbox[i].id # outbox[1].id
      BY <2>1, <2>2 DEF Once
    <3>2. outbox[i].id \in minted
      BY <2>1, <2>2 DEF Minted
    <3> QED
      BY <1>1, <2>1, <2>2, <3>1, <3>2
  <2>3. reply.id \notin LocalIds
    BY <2>1, IdsAssumption
  <2>4. ASSUME NEW i \in 1..Len(outbox'), NEW j \in 1..Len(outbox'),
               outbox'[i].op = "create", outbox'[j].op = "create",
               outbox'[i].id = outbox'[j].id
        PROVE  i = j
    <3>1. /\ i \in 1..Len(outbox) /\ j \in 1..Len(outbox) /\ outbox[i].op = "create"
          /\ outbox[j].op = "create"
      BY <2>1, <2>4
    <3>2. (i # 1 /\ j # 1) => i = j
      BY <2>2, <2>4, <3>1 DEF Once
    <3> QED
      BY <2>2, <2>3, <2>4, <3>1, <3>2
  <2>5. ASSUME NEW i \in 1..Len(outbox'), outbox'[i].op = "create",
               NEW d \in Calls, (Creating(d))'
        PROVE  outbox'[i].id # call'[d].id
    <3>1. Creating(d) /\ call'[d] = call[d]
      BY <1>6, <2>5
    <3>2. i \in 1..Len(outbox) /\ outbox[i].op = "create"
      BY <2>1, <2>5
    <3>3. call[d].id \in LocalIds /\ outbox[i].id # call[d].id
      BY <1>1, <3>1, <3>2 DEF Minted, Once
    <3> QED
      BY <2>2, <2>3, <3>1, <3>2, <3>3
  <2>6. ASSUME NEW d \in Calls, NEW e \in Calls, (Creating(d))', (Creating(e))',
               call'[d].id = call'[e].id
        PROVE  d = e
    <3>1. Creating(d) /\ call'[d] = call[d] /\ Creating(e) /\ call'[e] = call[e]
      BY <1>6, <2>6
    <3> QED
      BY <2>6, <3>1 DEF Once
  <2> QED
    BY <2>4, <2>5, <2>6 DEF Once
<1>7. ASSUME Calm, AcknowledgePush \/ Dequeue PROVE Once'
  <2>1. /\ Len(outbox') \in Nat
        /\ \A i \in 1..Len(outbox') : /\ i + 1 \in 1..Len(outbox)
                                      /\ outbox'[i].op = outbox[i + 1].op
                                      /\ outbox'[i].id = outbox[i + 1].id
    BY <1>7, Left, StepsTyped DEF Typed, CacheOK
  <2>2. ASSUME NEW i \in 1..Len(outbox'), NEW j \in 1..Len(outbox'),
               outbox'[i].op = "create", outbox'[j].op = "create",
               outbox'[i].id = outbox'[j].id
        PROVE  i = j
    <3>1. i + 1 = j + 1
      BY <2>1, <2>2 DEF Once
    <3> QED
      BY <2>1, <3>1
  <2>3. ASSUME NEW i \in 1..Len(outbox'), outbox'[i].op = "create",
               NEW d \in Calls, (Creating(d))'
        PROVE  outbox'[i].id # call'[d].id
    BY <1>7, <2>1, <2>3 DEF Once
  <2>4. ASSUME NEW d \in Calls, NEW e \in Calls, (Creating(d))', (Creating(e))',
               call'[d].id = call'[e].id
        PROVE  d = e
    <3>1. Creating(d) /\ call'[d] = call[d] /\ Creating(e) /\ call'[e] = call[e]
      BY <1>7, <2>4
    <3> QED
      BY <2>4, <3>1 DEF Once
  <2> QED
    BY <2>2, <2>3, <2>4 DEF Once
<1> HIDE DEF Calm
<1> QED
  BY <1>2, <1>3, <1>4, <1>5, <1>6, <1>7

-----------------------------------------------------------------------------
(* The answer in hand. *)

(* How the upload comes to have an answer to work on. *)
LEMMA AnswerSteps ==
  ASSUME Typed, [Next]_vars, crashes' = 0, pc' \in {"modify"} \cup Settling \cup Writing
  PROVE  /\ cursor' = cursor
         /\ \/ Stays
            \/ \E r \in Records, lost \in BOOLEAN :
                 create(r, lost) /\ pc' = "replace" /\ reply'.id = r
            \/ \E lost \in BOOLEAN :
                 modify(lost) /\ pc' = "ack" /\ reply'.id = reply.id
            \/ lookup \/ ModifyRefused
            \/ /\ ReadLocal \/ RecordConflict \/ ClearConflicting \/ TakeRemote
               /\ pc \in Settling /\ pc' \in Settling
               /\ reply' = reply /\ UNCHANGED cloudVars /\ outbox' = outbox
            \/ /\ ReplaceId \/ AcknowledgePush
               /\ pc \in Writing /\ pc' \in Writing /\ reply' = reply /\ UNCHANGED cloudVars
<1>1. ASSUME NEW r \in Records, NEW lost \in BOOLEAN, create(r, lost)
      PROVE  pc' = "replace" /\ reply'.id = r
  BY <1>1, CreateEffect DEF Settling, Writing
<1>2. ASSUME NEW lost \in BOOLEAN, modify(lost)
      PROVE  pc' = "ack" /\ reply'.id = reply.id
  BY <1>2, ModifyEffect DEF Settling, Writing
<1>3. ~SaveCursor
  BY DEF SaveCursor, Settling, Writing
<1>4. cursor' = cursor
  BY <1>3, TokenSteps
<1>5. ~Stamp /\ ~UpsertDownload /\ ~ClearDeleted /\ ~UpsertReply /\ ~Dequeue
      /\ ~(\E r \in Records : MarkDeleted(r))
  BY DEF Stamp, UpsertDownload, ClearDeleted, MarkDeleted, UpsertReply, Dequeue,
     Settling, Writing
<1>6. ~Reads /\ ~Throw
  BY DEF Reads, Throw, StartPass, PushDone, SyncCursor, ChangesSince, Lists, RemindersFor,
     Tags, Settling, Writing, Abort
<1>7. ASSUME ReadLocal \/ RecordConflict \/ ClearConflicting \/ TakeRemote
      PROVE  /\ pc \in Settling /\ pc' \in Settling
             /\ reply' = reply /\ UNCHANGED cloudVars /\ outbox' = outbox
  BY <1>7 DEF ReadLocal, RecordConflict, ClearConflicting, TakeRemote, Settling, cacheVars
<1>8. ASSUME ReplaceId \/ AcknowledgePush
      PROVE  pc \in Writing /\ pc' \in Writing /\ reply' = reply /\ UNCHANGED cloudVars
  BY <1>8 DEF ReplaceId, AcknowledgePush, Writing
<1> QED
  BY <1>1, <1>2, <1>3, <1>4, <1>5, <1>6, <1>7, <1>8, StepCases DEF Looks

(* A record written while its answer is in hand is newer than the token.    *)
LEMMA AskedStep ==
  ASSUME Typed, Clocked, Asked, [Next]_vars, crashes' = 0
  PROVE  Asked'
<1> SUFFICES ASSUME pc' \in {"modify"} \cup Settling, reply'.id \in Records
             PROVE  \/ cloud'[reply'.id].tag > cursor'
                    \/ Same(reply', cloud'[reply'.id])
  BY DEF Asked, Same
<1>1. clock \in Nat /\ cursor \in Nat /\ cursor <= clock /\ cursor' = cursor
  BY AnswerSteps DEF Typed, CloudOK, CacheOK, Clocked
<1>2. CASE Stays
  <2>1. reply' = reply /\ (cloud[reply.id].tag > cursor \/ Same(reply, cloud[reply.id]))
    BY <1>2 DEF Stays, passVars, Asked
  <2>2. CASE UNCHANGED cloudVars
    BY <1>1, <2>1, <2>2 DEF cloudVars
  <2>3. ASSUME NEW r \in Records, Rewritten(r)
        PROVE  cloud'[reply.id].tag > cursor \/ Same(reply, cloud'[reply.id])
    <3>1. CASE reply.id = r
      BY <1>1, <2>3, <3>1 DEF Rewritten
    <3>2. CASE reply.id # r
      BY <2>1, <2>3, <3>2 DEF Rewritten
    <3> QED
      BY <3>1, <3>2
  <2> QED
    BY <1>1, <1>2, <2>1, <2>2, <2>3 DEF Stays
<1>3. CASE lookup
  <2>1. item.id \in Records /\ reply' = Answer(item.id, cloud[item.id]) /\ cloud' = cloud
    BY <1>3 DEF lookup, Abort, Settling, cloudVars
  <2>2. cloud[item.id].title \in Text /\ cloud[item.id].deleted \in BOOLEAN
        /\ cloud[item.id].tag \in Nat
    BY <2>1, RecordTyped DEF Typed
  <2> QED
    BY <2>1, <2>2, AnswerTyped DEF Same
<1>4. CASE ModifyRefused
  BY <1>4, Constants DEF ModifyRefused, Abort, Forget, NoReply
<1>5. CASE pc \in Settling /\ reply' = reply /\ UNCHANGED cloudVars
  BY <1>1, <1>5 DEF Asked, cloudVars
<1> QED
  BY <1>2, <1>3, <1>4, <1>5, AnswerSteps DEF Settling, Writing

(* A refused write means that the record moved past the tag in hand.        *)
LEMMA RefusedStep ==
  ASSUME Typed, Clocked, Asked, Refused, [Next]_vars, crashes' = 0
  PROVE  Refused'
<1> SUFFICES ASSUME pc' \in Settling, reply'.id = NoId
             PROVE  cloud'[item'.id].tag > cursor'
  BY DEF Refused
<1>1. clock \in Nat /\ cursor \in Nat /\ cursor <= clock /\ cursor' = cursor
  BY AnswerSteps DEF Typed, CloudOK, CacheOK, Clocked
<1>2. CASE Stays
  <2>1. outbox # <<>> /\ item' = item /\ item.id \in Records /\ cloud[item.id].tag > cursor
    BY <1>2 DEF Stays, passVars, Refused, Typed, Upload
  <2>2. CASE UNCHANGED cloudVars
    BY <1>1, <2>1, <2>2 DEF cloudVars
  <2>3. ASSUME NEW r \in Records, Rewritten(r) PROVE cloud'[item.id].tag > cursor
    BY <1>1, <2>1, <2>3 DEF Rewritten
  <2> QED
    BY <1>1, <1>2, <2>1, <2>2, <2>3 DEF Stays
<1>3. CASE lookup
  <2>1. item.id \in Records /\ reply' = Answer(item.id, cloud[item.id])
    BY <1>3 DEF lookup, Abort, Settling
  <2> QED
    BY <2>1, Constants DEF Answer
<1>4. CASE ModifyRefused
  <2>1. /\ pc = "modify" /\ cloud[reply.id].tag # reply.tag /\ item' = item
        /\ cloud' = cloud /\ reply.id \in Records /\ item.id = reply.id
    BY <1>4 DEF ModifyRefused, Typed, Upload, cacheVars, cloudVars, item
  <2>2. cloud[reply.id].tag > cursor
    BY <2>1 DEF Asked, Same
  <2> QED
    BY <1>1, <2>1, <2>2
<1>5. CASE pc \in Settling /\ reply' = reply /\ UNCHANGED cloudVars /\ outbox' = outbox
  BY <1>1, <1>5 DEF Refused, cloudVars, item
<1> QED
  BY <1>2, <1>3, <1>4, <1>5, AnswerSteps DEF Settling, Writing

(* What this PC has written is newer than the token.                        *)
LEMMA AnsweredStep ==
  ASSUME Typed, Clocked, Answered, [Next]_vars, crashes' = 0
  PROVE  Answered'
<1> SUFFICES ASSUME pc' \in Writing PROVE cloud'[reply'.id].tag > cursor'
  BY DEF Answered
<1>1. clock \in Nat /\ cursor \in Nat /\ cursor <= clock /\ cursor' = cursor
  BY AnswerSteps DEF Typed, CloudOK, CacheOK, Clocked
<1>2. CASE Stays
  <2>1. reply' = reply /\ cloud[reply.id].tag > cursor /\ reply.id \in Records
    BY <1>2 DEF Stays, passVars, Answered, Typed, Upload
  <2>2. CASE UNCHANGED cloudVars
    BY <1>1, <2>1, <2>2 DEF cloudVars
  <2>3. ASSUME NEW r \in Records, Rewritten(r) PROVE cloud'[reply.id].tag > cursor
    BY <1>1, <2>1, <2>3 DEF Rewritten
  <2> QED
    BY <1>1, <1>2, <2>1, <2>2, <2>3 DEF Stays
<1>3. ASSUME NEW r \in Records, NEW lost \in BOOLEAN, create(r, lost), reply'.id = r
      PROVE  cloud'[reply'.id].tag > cursor'
  <2>1. cloud'[r].tag = clock + 1
    BY <1>3, CreateEffect DEF Rewritten
  <2> QED
    BY <1>1, <1>3, <2>1
<1>4. ASSUME NEW lost \in BOOLEAN, modify(lost), reply'.id = reply.id
      PROVE  cloud'[reply'.id].tag > cursor'
  <2>1. cloud'[reply.id].tag = clock + 1
    BY <1>4, ModifyEffect DEF Rewritten
  <2> QED
    BY <1>1, <1>4, <2>1
<1>5. ~lookup /\ ~ModifyRefused
  BY DEF lookup, ModifyRefused, Abort, Writing
<1>6. CASE pc \in Writing /\ reply' = reply /\ UNCHANGED cloudVars
  BY <1>1, <1>6 DEF Answered, cloudVars
<1> QED
  BY <1>2, <1>3, <1>4, <1>5, <1>6, AnswerSteps DEF Settling, Writing

(* The answer over the row of the entry in hand. *)
LEMMA TookReply ==
  ASSUME Typed, NEW q \in Ids
  PROVE  /\ upsert_reminders({reply})[q].dirty = rows[q].dirty
         /\ rows[q].dirty \/ reply.id # q => upsert_reminders({reply})[q] = rows[q]
         /\ ~rows[q].dirty /\ reply.id = q
              => /\ upsert_reminders({reply})[q].here
                 /\ upsert_reminders({reply})[q].tag = reply.tag
                 /\ upsert_reminders({reply})[q].title = reply.title
                 /\ upsert_reminders({reply})[q].deleted = reply.deleted
<1>1. {reply} \in SUBSET (Change \cup Reply) /\ CacheOK
  BY DEF Typed, PassOK
<1> DEFINE new == upsert_reminders({reply})
<1>2. /\ new[q].dirty = rows[q].dirty
      /\ rows[q].dirty \/ (\A x \in {reply} : x.id # q) => new[q] = rows[q]
      /\ ~rows[q].dirty /\ (\E x \in {reply} : x.id = q)
           => \E x \in {reply} : /\ x.id = q /\ new[q].here /\ new[q].tag = x.tag
                                 /\ new[q].title = x.title /\ new[q].deleted = x.deleted
  BY <1>1, UpsertedRows
<1> HIDE DEF new
<1>3. /\ new[q].dirty = rows[q].dirty
      /\ rows[q].dirty \/ reply.id # q => new[q] = rows[q]
      /\ ~rows[q].dirty /\ reply.id = q
           => /\ new[q].here /\ new[q].tag = reply.tag
              /\ new[q].title = reply.title /\ new[q].deleted = reply.deleted
  BY <1>2
<1> QED
  BY <1>3 DEF new

(* Once a conflict is settled the row is dirty or shows the answer.         *)
LEMMA TakenStep ==
  ASSUME Typed, Taken, [Next]_vars, crashes' = 0
  PROVE  Taken'
<1> SUFFICES ASSUME pc' = "dequeue", reply'.id \in Records
             PROVE  rows'[item'.id].dirty \/ (Shows(item.id, reply))'
  BY DEF Taken, Shows
<1>1. CASE Stays
  <2>1. /\ outbox # <<>> /\ item' = item /\ item.id \in Records /\ reply' = reply
        /\ rows[item.id].dirty \/ Shows(item.id, reply)
    BY <1>1 DEF Stays, passVars, Taken, Typed, Upload, Settling
  <2>2. rows'[item.id] = rows[item.id] \/ rows'[item.id].dirty
    BY <1>1, <2>1 DEF Stays, RowStays
  <2> QED
    BY <2>1, <2>2 DEF Shows
<1>2. CASE TakeRemote
  <2>a. /\ pc = "takeover" /\ outbox' = outbox /\ reply' = reply
        /\ rows' = upsert_reminders({reply})
    BY <1>2 DEF TakeRemote
  <2>b. item.id \in Records /\ reply.id \in Records /\ reply.id \in {item.id, NoId}
    BY <2>a DEF Typed, Upload, Settling
  <2>1. /\ item' = item /\ item.id \in Records /\ reply' = reply /\ reply.id = item.id
        /\ item.id \in Ids /\ rows' = upsert_reminders({reply})
    BY <2>a, <2>b, Constants DEF item
  <2> DEFINE new == upsert_reminders({reply})
             q == item.id
  <2>2. ~new[q].dirty =>
           /\ new[q].here /\ new[q].tag = reply.tag
           /\ new[q].title = reply.title /\ new[q].deleted = reply.deleted
    BY <2>1, TookReply
  <2> HIDE DEF new
  <2>3. rows' = new
    BY <2>1 DEF new
  <2> QED
    BY <2>1, <2>2, <2>3 DEF Shows
<1>3. ~lookup /\ ~ModifyRefused /\ ~ReadLocal /\ ~ClearConflicting
  BY DEF lookup, ModifyRefused, Abort, ReadLocal, ClearConflicting
<1>4. ~RecordConflict
  BY Constants DEF RecordConflict, Typed, Upload, Settling
<1> QED
  BY <1>1, <1>2, <1>3, <1>4, AnswerSteps DEF Settling, Writing

-----------------------------------------------------------------------------
(* The download. *)

Pulling == {"pull", "lists", "query", "apply", "tags", "mark", "unmark"}

(* How the pass comes to download, to apply and to save.                    *)
LEMMA PullSteps ==
  ASSUME Typed, [Next]_vars, crashes' = 0, pc' \in Pulling \cup {"stamp"}
  PROVE  \/ Stays \/ (\E asked \in BOOLEAN : PushDone(asked))
         \/ Throw /\ pc \in Pulling /\ pc' = "pull" /\ full' = full
         \/ SyncCursor \/ ChangesSince \/ Lists \/ RemindersFor \/ Tags
         \/ UpsertDownload \/ (\E r \in Records : MarkDeleted(r)) \/ ClearDeleted
         \/ SaveCursor
<1>1. ASSUME NEW r \in Records, NEW lost \in BOOLEAN PROVE ~create(r, lost)
  BY CreateEffect DEF Pulling
<1>2. ASSUME NEW lost \in BOOLEAN PROVE ~modify(lost)
  BY ModifyEffect DEF Pulling
<1>3. ~StartPass /\ ~lookup /\ ~ModifyRefused /\ ~ReadLocal
  BY DEF StartPass, lookup, ModifyRefused, ReadLocal, Abort, Pulling
<1>4. ~(\/ ReplaceId \/ AcknowledgePush \/ UpsertReply
        \/ RecordConflict \/ ClearConflicting \/ TakeRemote \/ Dequeue \/ Stamp)
  BY DEF ReplaceId, AcknowledgePush, UpsertReply, RecordConflict, ClearConflicting,
     TakeRemote, Dequeue, Stamp, Pulling
<1>5. Throw => pc \in Pulling /\ pc' = "pull" /\ full' = full
  BY DEF Throw, Abort, Pulling
<1>6. \/ Stays \/ Looks
      \/ UpsertDownload \/ (\E r \in Records : MarkDeleted(r)) \/ ClearDeleted
      \/ SaveCursor
  BY <1>1, <1>2, <1>4, StepCases
<1> QED
  BY <1>3, <1>5, <1>6 DEF Looks, Reads

(* What is marked deleted is erased in iCloud.                              *)
LEMMA GoneStep ==
  ASSUME Typed, Gone, [Next]_vars, crashes' = 0
  PROVE  Gone'
<1>1. ASSUME NEW r \in Records, cloud[r].state = "erased" PROVE cloud'[r].state = "erased"
  <2>1. CASE UNCHANGED cloudVars
    BY <1>1, <2>1 DEF cloudVars
  <2>2. ASSUME NEW q \in Records, Rewritten(q) PROVE cloud'[r].state = "erased"
    BY <1>1, <2>2 DEF Rewritten
  <2> QED
    BY <2>1, <2>2, CloudSteps
<1>2. deleted' \subseteq deleted \/ ChangesSince
  <2>1. ASSUME NEW r \in Records, NEW lost \in BOOLEAN, create(r, lost)
        PROVE  deleted' \subseteq deleted
    BY <2>1, CreateEffect DEF Forget, Kept
  <2>2. ASSUME NEW lost \in BOOLEAN, modify(lost) PROVE deleted' \subseteq deleted
    BY <2>2, ModifyEffect DEF Forget, Kept
  <2>3. CASE Reads
    BY <2>3 DEF Reads, StartPass, PushDone, SyncCursor, Lists, RemindersFor, Tags, Kept
  <2>4. CASE lookup \/ ModifyRefused \/ ReadLocal \/ Throw
    BY <2>4 DEF lookup, ModifyRefused, ReadLocal, Throw, Kept, Abort, Forget
  <2>5. CASE \/ ReplaceId \/ AcknowledgePush \/ UpsertReply
             \/ RecordConflict \/ ClearConflicting \/ TakeRemote \/ Dequeue
    BY <2>5 DEF ReplaceId, AcknowledgePush, UpsertReply, RecordConflict, ClearConflicting,
       TakeRemote, Dequeue, Kept, Forget
  <2>6. CASE \/ UpsertDownload \/ (\E r \in Records : MarkDeleted(r)) \/ ClearDeleted
             \/ SaveCursor \/ Stamp
    BY <2>6 DEF UpsertDownload, MarkDeleted, ClearDeleted, SaveCursor, Stamp, Forget
  <2>7. CASE Stays
    BY <2>7 DEF Stays, passVars
  <2> QED
    BY <2>1, <2>2, <2>3, <2>4, <2>5, <2>6, <2>7, StepCases DEF Looks
<1>3. \A r \in deleted' : cloud'[r].state = "erased"
  <2>1. CASE deleted' \subseteq deleted
    BY <1>1, <2>1 DEF Gone, Typed, PassOK
  <2>2. CASE ChangesSince
    BY <1>1, <2>2 DEF ChangesSince, Erased
  <2> QED
    BY <1>2, <2>1, <2>2
<1>4. pc' = "unmark" => cloud'[victim'].state = "erased"
  <2> SUFFICES ASSUME pc' = "unmark" PROVE cloud'[victim'].state = "erased"
    OBVIOUS
  <2>1. CASE Stays
    <3>1. pc = "unmark" /\ victim' = victim /\ victim \in Records
      BY <2>1 DEF Stays, passVars, Typed, Upload
    <3> QED
      BY <1>1, <3>1 DEF Gone
  <2>2. ASSUME NEW r \in Records, MarkDeleted(r) PROVE cloud'[victim'].state = "erased"
    BY <1>1, <2>2 DEF MarkDeleted, Gone
  <2>3. ~(\E asked \in BOOLEAN : PushDone(asked)) /\ ~SyncCursor /\ ~ChangesSince /\ ~Lists
        /\ ~RemindersFor /\ ~Tags /\ ~UpsertDownload /\ ~ClearDeleted /\ ~SaveCursor
    BY DEF PushDone, SyncCursor, ChangesSince, Lists, RemindersFor, Tags, UpsertDownload,
       ClearDeleted, SaveCursor
  <2> QED
    BY <2>1, <2>2, <2>3, PullSteps DEF Pulling
<1> QED
  BY <1>3, <1>4 DEF Gone

(* A pass that has no token of this protocol downloads everything.          *)
LEMMA DeltaStep ==
  ASSUME Typed, Delta, [Next]_vars, crashes' = 0
  PROVE  Delta'
<1> SUFFICES ASSUME pc' \in Pulling, ~full' PROVE protocol'
  BY DEF Delta, Pulling
<1>1. protocol => protocol'
  BY TokenSteps DEF Stamp
<1>2. pc \in Pulling /\ ~full => protocol'
  BY <1>1 DEF Delta, Pulling
<1>3. ASSUME NEW asked \in BOOLEAN, PushDone(asked) PROVE protocol'
  BY <1>1, <1>3 DEF PushDone
<1>4. CASE Stays
  BY <1>2, <1>4 DEF Stays, passVars
<1>5. CASE SyncCursor \/ ChangesSince \/ Lists \/ RemindersFor \/ Tags
  BY <1>2, <1>5 DEF SyncCursor, ChangesSince, Lists, RemindersFor, Tags, Pulling, Kept
<1>6. CASE \/ UpsertDownload \/ (\E r \in Records : MarkDeleted(r)) \/ ClearDeleted
  BY <1>2, <1>6 DEF UpsertDownload, MarkDeleted, ClearDeleted, Pulling
<1>7. ~SaveCursor
  BY DEF SaveCursor, Pulling
<1> QED
  BY <1>2, <1>3, <1>4, <1>5, <1>6, <1>7, PullSteps

(* While a pass has its download in hand it only reads, or iCloud is        *)
(* written.                                                                 *)
LEMMA DownloadSteps ==
  ASSUME Typed, [Next]_vars, crashes' = 0, Downloaded'
  PROVE  /\ cursor' = cursor
         /\ \/ Stays \/ ChangesSince \/ RemindersFor
            \/ /\ Downloaded /\ UNCHANGED cloudVars
               /\ updated' = updated /\ next' = next /\ full' = full
<1>1. pc' \in Pulling /\ pc' \in {"apply", "lists"}
  BY DEF Downloaded, Pulling
<1>2. ~SaveCursor /\ ~ClearDeleted /\ ~UpsertDownload /\ ~Tags
      /\ ~(\E r \in Records : MarkDeleted(r)) /\ ~(\E asked \in BOOLEAN : PushDone(asked))
  BY <1>1 DEF SaveCursor, ClearDeleted, UpsertDownload, MarkDeleted, Tags, PushDone
<1>3. ~SyncCursor
  BY DEF SyncCursor, Downloaded
<1>4. cursor' = cursor
  BY <1>2, TokenSteps
<1>5. CASE Lists
  <2>1. pc = "lists" /\ ~full
    BY <1>1, <1>5 DEF Lists
  <2>2. UNCHANGED cloudVars /\ updated' = updated /\ next' = next /\ full' = full
    BY <1>5, Zenon DEF Lists, Kept
  <2> QED
    BY <1>4, <2>1, <2>2 DEF Downloaded
<1> QED
  BY <1>1, <1>2, <1>3, <1>4, <1>5, PullSteps

(* A download is as old as the token that came with it, or newer. *)
LEMMA AheadStep ==
  ASSUME Typed, Clocked, Ahead, [Next]_vars, crashes' = 0
  PROVE  Ahead'
<1> SUFFICES ASSUME Downloaded', NEW x \in updated'
             PROVE  \/ Same(x, cloud'[x.id])
                    \/ cloud'[x.id].tag > cursor' /\ cloud'[x.id].tag > next'
  BY DEF Ahead, Same
<1>1. clock \in Nat /\ cursor \in Nat /\ next \in Nat /\ cursor <= clock /\ next <= clock
      /\ cursor' = cursor
  BY DownloadSteps DEF Typed, CloudOK, CacheOK, PassOK, Clocked
<1>2. ASSUME Downloaded, x \in updated
      PROVE  /\ x.id \in Records
             /\ \/ Same(x, cloud[x.id])
                \/ cloud[x.id].tag > cursor /\ cloud[x.id].tag > next
  BY <1>2 DEF Ahead, Typed, PassOK, Change
<1>3. CASE Stays
  <2>1. Downloaded /\ x \in updated /\ next' = next
    BY <1>3 DEF Stays, passVars, Downloaded
  <2>2. CASE UNCHANGED cloudVars
    BY <1>1, <1>2, <2>1, <2>2 DEF cloudVars
  <2>3. ASSUME NEW r \in Records, Rewritten(r)
        PROVE  \/ Same(x, cloud'[x.id])
               \/ cloud'[x.id].tag > cursor' /\ cloud'[x.id].tag > next'
    <3>1. CASE x.id = r
      BY <1>1, <2>1, <2>3, <3>1 DEF Rewritten
    <3>2. CASE x.id # r
      <4>1. cloud'[x.id] = cloud[x.id]
        BY <1>2, <2>1, <2>3, <3>2 DEF Rewritten
      <4> QED
        BY <1>1, <1>2, <2>1, <4>1
    <3> QED
      BY <3>1, <3>2
  <2> QED
    BY <1>3, <2>2, <2>3 DEF Stays
<1>4. CASE ChangesSince \/ RemindersFor
  <2>1. cloud' = cloud /\ (updated' = Live(cursor) \/ updated' = Live(0))
    BY <1>4 DEF ChangesSince, RemindersFor, cloudVars
  <2>2. PICK r \in Records : x = Download(r)
    BY <2>1 DEF Live
  <2>3. x.id = r /\ x.tag = cloud[r].tag /\ x.title = cloud[r].title
        /\ x.deleted = cloud[r].deleted
    BY <2>2, RecordTyped DEF Typed
  <2> QED
    BY <2>1, <2>3 DEF Same
<1>5. CASE Downloaded /\ UNCHANGED cloudVars /\ updated' = updated /\ next' = next
  BY <1>1, <1>2, <1>5 DEF cloudVars
<1> QED
  BY <1>3, <1>4, <1>5, DownloadSteps

(* The download holds every version the tokens claim.                       *)
LEMMA LiveHas ==
  ASSUME Typed, NEW r \in Records, NEW k \in Nat, cloud[r].state = "live", cloud[r].tag > k
  PROVE  \E x \in Live(k) : x.id = r
<1>1. Download(r) \in Live(k)
  BY DEF Live
<1>2. Download(r).id = r
  BY RecordTyped DEF Typed
<1> QED
  BY <1>1, <1>2

(* A download keeps every version the new token claims.                     *)
LEMMA FetchedStep ==
  ASSUME Typed, Clocked, Fetched, Refetched, [Next]_vars, crashes' = 0
  PROVE  Fetched' /\ Refetched'
<1> SUFFICES ASSUME Downloaded', NEW r \in Records, cloud'[r].state = "live",
                    \/ cloud'[r].tag <= next' /\ (full' \/ cloud'[r].tag > cursor')
                    \/ full' /\ cloud'[r].tag <= cursor'
             PROVE  \E x \in updated' : x.id = r
  BY DEF Fetched, Refetched
<1>1. clock \in Nat /\ cursor \in Nat /\ next \in Nat /\ cursor <= clock /\ next <= clock
      /\ cursor' = cursor
  BY DownloadSteps DEF Typed, CloudOK, CacheOK, PassOK, Clocked
<1>2. ASSUME Downloaded, cloud[r].state = "live",
             \/ cloud[r].tag <= next /\ (full \/ cloud[r].tag > cursor)
             \/ full /\ cloud[r].tag <= cursor
      PROVE  \E x \in updated : x.id = r
  BY <1>2 DEF Fetched, Refetched
<1>3. CASE Stays
  <2>1. Downloaded /\ updated' = updated /\ next' = next /\ full' = full
    BY <1>3 DEF Stays, passVars, Downloaded
  <2>2. cloud'[r] = cloud[r]
    <3>1. CASE UNCHANGED cloudVars
      BY <3>1 DEF cloudVars
    <3>2. ASSUME NEW q \in Records, Rewritten(q) PROVE cloud'[r] = cloud[r]
      <4>1. CASE q = r
        <5>1. cloud'[r].tag = clock + 1
          BY <3>2, <4>1 DEF Rewritten
        <5> QED
          BY <1>1, <2>1, <5>1
      <4>2. CASE q # r
        BY <3>2, <4>2 DEF Rewritten
      <4> QED
        BY <4>1, <4>2
    <3> QED
      BY <1>3, <3>1, <3>2 DEF Stays
  <2> QED
    BY <1>1, <1>2, <2>1, <2>2
<1>4. CASE ChangesSince
  <2>1. cloud' = cloud /\ updated' = Live(cursor) /\ ~full'
    BY <1>4 DEF ChangesSince, cloudVars
  <2> QED
    BY <1>1, <2>1, LiveHas
<1>5. CASE RemindersFor
  <2>1. cloud' = cloud /\ updated' = Live(0)
    BY <1>5 DEF RemindersFor, cloudVars
  <2>2. cloud[r].tag > 0
    BY <2>1 DEF Clocked
  <2> QED
    BY <2>1, <2>2, LiveHas
<1>6. CASE Downloaded /\ UNCHANGED cloudVars /\ updated' = updated /\ next' = next
           /\ full' = full
  BY <1>1, <1>2, <1>6 DEF cloudVars
<1> QED
  BY <1>3, <1>4, <1>5, <1>6, DownloadSteps

-----------------------------------------------------------------------------
(* The rows and the tokens. *)

RecordStays(r) == (cloud'[r] = cloud[r] \/ cloud'[r].tag = clock + 1) /\ RowStays(r)

(* A row that stays, beside a record that stays or is written, agrees with  *)
(* every token that it agreed with.                                         *)
LEMMA KeptShown ==
  ASSUME Typed, NEW r \in Records, NEW k \in Nat, k <= clock, RecordStays(r), ShownTo(r, k)
  PROVE  (ShownTo(r, k))'
<1> SUFFICES ASSUME cloud'[r].state = "live", cloud'[r].tag <= k, ~rows'[r].dirty,
                    ~Pending(outbox', r)
             PROVE  /\ rows'[r].here /\ rows'[r].tag = cloud'[r].tag
                    /\ rows'[r].title = cloud'[r].title
                    /\ rows'[r].deleted = cloud'[r].deleted
  BY DEF ShownTo, Quiet, Shows
<1>1. clock \in Nat
  BY DEF Typed, CloudOK
<1>2. rows'[r] = rows[r] /\ ~Pending(outbox, r)
  BY DEF RecordStays, RowStays
<1>3. cloud'[r].tag # clock + 1
  BY <1>1
<1>4. cloud'[r] = cloud[r]
  BY <1>3 DEF RecordStays
<1> QED
  BY <1>2, <1>4 DEF ShownTo, Quiet, Shows

(* A record and its row change in one of these ways.                        *)
LEMMA RecordSteps ==
  ASSUME Typed, Minted, Gone, [Next]_vars, crashes' = 0, NEW r \in Records
  PROVE  \/ RecordStays(r) \/ cloud'[r].state = "erased" \/ Pending(outbox', r)
         \/ pc \in Writing /\ r = reply.id /\ UNCHANGED cloudVars
         \/ Dequeue /\ r = item.id
         \/ UpsertDownload
<1>0. r \in Ids /\ rows \in [Ids -> Row]
  BY Constants DEF Typed, CacheOK
<1>1. CASE Stays
  BY <1>1 DEF Stays, RecordStays, RowStays, Rewritten, cloudVars
<1>2. ASSUME NEW q \in Records, NEW lost \in BOOLEAN, create(q, lost) PROVE RecordStays(r)
  BY <1>2, CreateEffect DEF RecordStays, RowStays, Rewritten, cacheVars
<1>3. ASSUME NEW lost \in BOOLEAN, modify(lost) PROVE RecordStays(r)
  BY <1>3, ModifyEffect DEF RecordStays, RowStays, Rewritten, cacheVars
<1>4. CASE Looks
  BY <1>4, LooksEffect DEF RecordStays, RowStays, cacheVars, cloudVars
<1>5. ASSUME UNCHANGED cloudVars, rows'[r] = rows[r], Pending(outbox, r) => Pending(outbox', r)
      PROVE  RecordStays(r)
  BY <1>5 DEF RecordStays, RowStays, cloudVars
<1>6. CASE ReplaceId
  <2>1. /\ UNCHANGED cloudVars /\ pc = "replace" /\ reply.id \in Records
        /\ item = outbox[1] /\ 1 \in 1..Len(outbox)
        /\ \A q : q # item.id /\ q # reply.id => (Pending(outbox', q) <=> Pending(outbox, q))
    BY <1>6, Replaced DEF ReplaceId
  <2>2. item.id \in LocalIds /\ item.id # r
    BY <2>1, IdsAssumption DEF Minted, Typed, EnvOK
  <2>3. CASE r # reply.id
    <3>1. rows' = ReplaceIdRows(rows, item.id, reply.id)
          /\ item.id \in Ids /\ reply.id \in Ids
      BY <1>6, <2>1, <2>2, Constants DEF ReplaceId, replace_id
    <3>2. rows'[r] = rows[r]
      BY <1>0, <2>2, <2>3, <3>1, ReplacedIdRows
    <3> QED
      BY <1>5, <2>1, <2>2, <2>3, <3>2
  <2> QED
    BY <2>1, <2>3 DEF Writing
<1>7. CASE AcknowledgePush
  <2>1. /\ UNCHANGED cloudVars /\ pc = "ack" /\ item.id = reply.id /\ reply.id \in Ids
        /\ reply.tag \in Nat
        /\ rows' = AcknowledgeRows(rows, outbox, reply.id, reply.tag)
    BY <1>7, AcknowledgeTyped DEF AcknowledgePush
  <2>2. CASE r # reply.id
    <3>1. rows'[r] = rows[r]
      BY <1>0, <2>1, <2>2, AcknowledgedOthers
    <3>2. Pending(outbox, r) => Pending(outbox', r)
      BY <1>7, <2>1, <2>2, Left
    <3> QED
      BY <1>5, <2>1, <3>1, <3>2
  <2> QED
    BY <2>1, <2>2 DEF Writing
<1>8. CASE UpsertReply
  <2>1. UNCHANGED cloudVars /\ pc = "upsert" /\ outbox' = outbox
        /\ rows' = upsert_reminders({reply})
    BY <1>8 DEF UpsertReply
  <2>2. CASE r # reply.id
    BY <1>0, <1>5, <2>1, <2>2, TookReply
  <2> QED
    BY <2>1, <2>2 DEF Writing
<1>9. CASE RecordConflict
  BY <1>5, <1>9 DEF RecordConflict
<1>10. CASE ClearConflicting \/ TakeRemote
  <2>1. UNCHANGED cloudVars /\ outbox' = outbox /\ outbox # <<>> /\ item.id \in Ids
        /\ reply.tag \in Nat /\ reply.id = item.id
    BY <1>10, Constants DEF ClearConflicting, TakeRemote, Typed, Upload, Settling,
       PassOK, Reply
  <2>2. CASE r = item.id
    <3>1. Pending(outbox, item.id)
      BY <2>1, PendingTail DEF Typed, CacheOK, item
    <3> QED
      BY <2>1, <2>2, <3>1
  <2>3. CASE r # item.id
    <3>1. ClearConflicting => rows'[r] = rows[r]
      BY <1>0, <2>1, <2>3, ClearedRows DEF ClearConflicting, Typed
    <3>2. TakeRemote => rows'[r] = rows[r]
      BY <1>0, <2>1, <2>3, TookReply DEF TakeRemote
    <3> QED
      BY <1>5, <1>10, <2>1, <3>1, <3>2
  <2> QED
    BY <2>2, <2>3
<1>11. CASE Dequeue
  <2>1. UNCHANGED cloudVars /\ rows' = rows
    BY <1>11 DEF Dequeue
  <2>2. r # item.id => (Pending(outbox, r) => Pending(outbox', r))
    BY <1>11, Left
  <2> QED
    BY <1>5, <1>11, <2>1, <2>2
<1>12. ASSUME NEW q \in Records, MarkDeleted(q)
       PROVE  RecordStays(r) \/ cloud'[r].state = "erased"
  <2>1. UNCHANGED cloudVars /\ outbox' = outbox /\ q \in Ids /\ q \in deleted
        /\ rows' = apply_local_edit(q, SetDeleted("set")) /\ SetDeleted("set") \in Patch
    BY <1>12, Constants DEF MarkDeleted, Marks
  <2>2. CASE r = q
    BY <2>1, <2>2 DEF Gone, cloudVars
  <2>3. CASE r # q
    <3>1. rows'[r] = rows[r]
      BY <1>0, <2>1, <2>3, EditTyped DEF Typed
    <3> QED
      BY <1>5, <2>1, <3>1
  <2> QED
    BY <2>2, <2>3
<1>13. CASE ClearDeleted
  <2>1. UNCHANGED cloudVars /\ outbox' = outbox /\ victim \in Ids /\ NoTag \in Nat
        /\ rows' = clear_dirty(victim, NoTag) /\ pc = "unmark"
    BY <1>13, Constants DEF ClearDeleted, Typed, Upload, NoTag
  <2>2. CASE r = victim
    BY <2>1, <2>2 DEF Gone, cloudVars
  <2>3. CASE r # victim
    <3>1. rows'[r] = rows[r]
      BY <1>0, <2>1, <2>3, ClearedRows DEF Typed
    <3> QED
      BY <1>5, <2>1, <3>1
  <2> QED
    BY <2>2, <2>3
<1>14. CASE SaveCursor \/ Stamp
  BY <1>5, <1>14 DEF SaveCursor, Stamp
<1> QED
  BY <1>1, <1>2, <1>3, <1>4, <1>6, <1>7, <1>8, <1>9, <1>10, <1>11, <1>12, <1>13, <1>14,
     StepCases

(* The rows stay in agreement with a token no step has moved.               *)
LEMMA UpToKept ==
  ASSUME Typed, Minted, Gone, [Next]_vars, crashes' = 0, NEW k \in Nat, k <= clock, UpTo(k),
         pc \notin Writing \cup {"dequeue", "apply"}
  PROVE  \A r \in Records : (ShownTo(r, k))'
<1> TAKE r \in Records
<1>1. ~Dequeue /\ ~UpsertDownload
  BY DEF Dequeue, UpsertDownload
<1>2. CASE RecordStays(r)
  BY <1>2, KeptShown DEF UpTo
<1>3. CASE cloud'[r].state = "erased" \/ Pending(outbox', r)
  BY <1>3 DEF ShownTo, Quiet
<1> QED
  BY <1>1, <1>2, <1>3, RecordSteps

(* The rows after a download agree with both tokens. *)
LEMMA AppliedShown ==
  ASSUME Typed, Ahead, Fetched, Refetched, Delta, Trusted, UpsertDownload, NEW r \in Records
  PROVE  (ShownTo(r, cursor))' /\ (ShownTo(r, next))'
<1>1. /\ rows' = upsert_reminders(updated) /\ outbox' = outbox /\ cloud' = cloud
      /\ cursor' = cursor /\ next' = next /\ Downloaded /\ pc = "apply"
  BY DEF UpsertDownload, cloudVars, Downloaded
<1>2. cursor \in Nat /\ next \in Nat /\ cloud[r].tag \in Nat /\ r \in Ids
      /\ updated \in SUBSET (Change \cup Reply) /\ CacheOK
  BY RecordTyped, Constants DEF Typed, CacheOK, PassOK
<1> DEFINE new == upsert_reminders(updated)
<1>3. /\ new[r].dirty = rows[r].dirty
      /\ rows[r].dirty \/ (\A x \in updated : x.id # r) => new[r] = rows[r]
      /\ ~rows[r].dirty /\ (\E x \in updated : x.id = r)
           => \E x \in updated : /\ x.id = r /\ new[r].here /\ new[r].tag = x.tag
                                 /\ new[r].title = x.title /\ new[r].deleted = x.deleted
  BY <1>2, UpsertedRows
<1> HIDE DEF new
<1>4. ASSUME cloud[r].state = "live", cloud[r].tag <= cursor \/ cloud[r].tag <= next,
             ~new[r].dirty, ~Pending(outbox, r)
      PROVE  /\ new[r].here /\ new[r].tag = cloud[r].tag /\ new[r].title = cloud[r].title
             /\ new[r].deleted = cloud[r].deleted
  <2>1. CASE \E x \in updated : x.id = r
    <3>1. PICK x \in updated : /\ x.id = r /\ new[r].here /\ new[r].tag = x.tag
                               /\ new[r].title = x.title /\ new[r].deleted = x.deleted
      BY <1>3, <1>4, <2>1
    <3>2. Same(x, cloud[r]) \/ (cloud[r].tag > cursor /\ cloud[r].tag > next)
      BY <1>1, <3>1 DEF Ahead
    <3>3. Same(x, cloud[r])
      BY <1>2, <1>4, <3>2
    <3> QED
      BY <3>1, <3>3 DEF Same
  <2>2. CASE ~\E x \in updated : x.id = r
    <3>1. ~full /\ cloud[r].tag <= cursor
      BY <1>1, <1>2, <1>4, <2>2 DEF Fetched, Refetched
    <3>2. protocol
      BY <1>1, <3>1 DEF Delta
    <3>3. new[r] = rows[r]
      BY <1>3, <2>2
    <3>4. ShownTo(r, cursor)
      BY <3>2 DEF Trusted, UpTo
    <3> QED
      BY <1>4, <3>1, <3>3, <3>4 DEF ShownTo, Quiet, Shows
  <2> QED
    BY <2>1, <2>2
<1>5. rows' = new
  BY <1>1 DEF new
<1> QED
  BY <1>1, <1>4, <1>5 DEF ShownTo, Quiet, Shows

(* A settled conflict leaves the row as iCloud answered, or as it will be   *)
(* read again.                                                              *)
LEMMA DequeuedShown ==
  ASSUME Typed, Asked, Refused, Taken, Dequeue, NEW r \in Records, r = item.id
  PROVE  (ShownTo(r, cursor))'
<1>1. /\ rows' = rows /\ cloud' = cloud /\ cursor' = cursor /\ pc = "dequeue"
      /\ reply.id \in {item.id, NoId}
  BY DEF Dequeue, cloudVars, Typed, Upload, Settling
<1>2. cursor \in Nat /\ cloud[r].tag \in Nat
  BY RecordTyped DEF Typed, CacheOK
<1> SUFFICES ASSUME cloud[r].state = "live", cloud[r].tag <= cursor, ~rows[r].dirty
             PROVE  /\ rows[r].here /\ rows[r].tag = cloud[r].tag
                    /\ rows[r].title = cloud[r].title /\ rows[r].deleted = cloud[r].deleted
  BY <1>1 DEF ShownTo, Quiet, Shows
<1>3. CASE reply.id = NoId
  BY <1>1, <1>2, <1>3 DEF Refused, Settling
<1>4. CASE reply.id = item.id
  <2>1. cloud[r].tag > cursor \/ Same(reply, cloud[r])
    BY <1>1, <1>4 DEF Asked, Settling
  <2>2. Same(reply, cloud[r])
    BY <1>2, <2>1
  <2>3. Shows(r, reply)
    BY <1>1, <1>4 DEF Taken
  <2> QED
    BY <2>2, <2>3 DEF Same, Shows
<1> QED
  BY <1>1, <1>3, <1>4

(* The saved token is one the rows agree with.                              *)
LEMMA TrustedStep ==
  ASSUME Typed, Believed, [Next]_vars, crashes' = 0
  PROVE  Trusted'
<1> SUFFICES ASSUME protocol', NEW r \in Records
             PROVE  (ShownTo(r, cursor))'
  BY DEF Trusted, UpTo
<1>1. clock \in Nat /\ cursor \in Nat /\ cursor <= clock /\ cloud[r].tag \in Nat
  BY RecordTyped DEF Typed, CloudOK, CacheOK, Believed, Clocked
<1>2. CASE SaveCursor
  <2>1. /\ rows' = rows /\ outbox' = outbox /\ cloud' = cloud /\ pc = "mark"
        /\ cursor' = cursor \/ cursor' = next
    BY <1>2 DEF SaveCursor, cloudVars
  <2>2. ShownTo(r, next) /\ ShownTo(r, cursor)
    BY <2>1 DEF Believed, Applied, UpTo
  <2> QED
    BY <2>1, <2>2 DEF ShownTo, Quiet, Shows
<1>3. CASE Stamp
  <2>1. /\ rows' = rows /\ outbox' = outbox /\ cloud' = cloud /\ pc = "stamp"
        /\ cursor' = cursor
    BY <1>3 DEF Stamp, cloudVars
  <2>2. ShownTo(r, cursor)
    BY <2>1 DEF Believed, Applied, UpTo
  <2> QED
    BY <2>1, <2>2 DEF ShownTo, Quiet, Shows
<1>4. CASE ~SaveCursor /\ ~Stamp
  <2>1. cursor' = cursor /\ protocol
    BY <1>4, TokenSteps
  <2>2. ShownTo(r, cursor)
    BY <2>1 DEF Believed, Trusted, UpTo
  <2>3. CASE RecordStays(r)
    <3>1. PICK k \in Nat : k = cursor
      BY <1>1
    <3>2. (ShownTo(r, k))'
      <4>1. k <= clock /\ ShownTo(r, k)
        BY <1>1, <2>2, <3>1
      <4> QED
        BY <2>3, <4>1, KeptShown
    <3> QED
      BY <2>1, <3>1, <3>2 DEF ShownTo
  <2>4. CASE cloud'[r].state = "erased" \/ Pending(outbox', r)
    BY <2>4 DEF ShownTo, Quiet
  <2>5. CASE pc \in Writing /\ r = reply.id /\ UNCHANGED cloudVars
    <3>1. cloud'[r].tag > cursor /\ cloud' = cloud
      BY <2>5 DEF Believed, Answered, cloudVars
    <3> QED
      BY <1>1, <2>1, <3>1 DEF ShownTo
  <2>6. CASE Dequeue /\ r = item.id
    BY <2>6, DequeuedShown DEF Believed
  <2>7. CASE UpsertDownload
    BY <2>7, AppliedShown DEF Believed
  <2> QED
    BY <2>3, <2>4, <2>5, <2>6, <2>7, RecordSteps DEF Believed
<1> QED
  BY <1>2, <1>3, <1>4

(* Applying a download makes the rows agree with both tokens.               *)
LEMMA AppliedStep ==
  ASSUME Typed, Believed, [Next]_vars, crashes' = 0
  PROVE  Applied'
<1>1. clock \in Nat /\ cursor \in Nat /\ next \in Nat /\ cursor <= clock /\ next <= clock
  BY DEF Typed, CloudOK, CacheOK, PassOK, Believed, Clocked
<1>2. ASSUME cursor' = cursor, UpTo(cursor), pc \notin Writing \cup {"dequeue", "apply"},
             NEW r \in Records
      PROVE  (ShownTo(r, cursor))'
  <2>1. PICK k \in Nat : k = cursor
    BY <1>1
  <2>2. k <= clock /\ UpTo(k)
    BY <1>1, <1>2, <2>1
  <2>3. (ShownTo(r, k))'
    BY <1>2, <2>2, UpToKept DEF Believed
  <2> QED
    BY <1>2, <2>1, <2>3 DEF ShownTo
<1>3. ASSUME next' = next, UpTo(next), pc \notin Writing \cup {"dequeue", "apply"},
             NEW r \in Records
      PROVE  (ShownTo(r, next))'
  <2>1. PICK k \in Nat : k = next
    BY <1>1
  <2>2. k <= clock /\ UpTo(k)
    BY <1>1, <1>3, <2>1
  <2>3. (ShownTo(r, k))'
    BY <1>3, <2>2, UpToKept DEF Believed
  <2> QED
    BY <1>3, <2>1, <2>3 DEF ShownTo
<1>4. ASSUME pc' \in {"tags", "mark", "unmark"}, NEW r \in Records
      PROVE  (ShownTo(r, next))' /\ (ShownTo(r, cursor))'
  <2>1. CASE UpsertDownload
    BY <2>1, AppliedShown DEF Believed
  <2>2. CASE Stays \/ Tags \/ (\E q \in Records : MarkDeleted(q)) \/ ClearDeleted
    <3>1. /\ pc \in {"tags", "mark", "unmark"} /\ next' = next /\ cursor' = cursor
      BY <1>4, <2>2 DEF Stays, passVars, Tags, MarkDeleted, ClearDeleted, Kept, cacheVars
    <3>2. UpTo(next) /\ UpTo(cursor) /\ pc \notin Writing \cup {"dequeue", "apply"}
      BY <3>1 DEF Believed, Applied, Writing
    <3> QED
      BY <1>2, <1>3, <3>1, <3>2
  <2>3. ~(\E asked \in BOOLEAN : PushDone(asked)) /\ ~SyncCursor /\ ~Lists
        /\ ~RemindersFor /\ ~SaveCursor /\ ~ChangesSince
    BY <1>4 DEF PushDone, SyncCursor, ChangesSince, Lists, RemindersFor, SaveCursor
  <2> QED
    BY <1>4, <2>1, <2>2, <2>3, PullSteps DEF Pulling
<1>5. ASSUME pc' = "stamp", NEW r \in Records
      PROVE  (ShownTo(r, cursor))'
  <2>1. CASE Stays
    <3>1. pc = "stamp" /\ cursor' = cursor
      BY <1>5, <2>1 DEF Stays, passVars
    <3>2. UpTo(cursor) /\ pc \notin Writing \cup {"dequeue", "apply"}
      BY <3>1 DEF Believed, Applied, Writing
    <3> QED
      BY <1>2, <3>1, <3>2
  <2>2. CASE SaveCursor
    <3>1. /\ rows' = rows /\ outbox' = outbox /\ cloud' = cloud /\ pc = "mark"
          /\ cursor' = cursor \/ cursor' = next
      BY <2>2 DEF SaveCursor, cloudVars
    <3>2. ShownTo(r, next) /\ ShownTo(r, cursor)
      BY <3>1 DEF Believed, Applied, UpTo
    <3> QED
      BY <3>1, <3>2 DEF ShownTo, Quiet, Shows
  <2>3. ~(\E asked \in BOOLEAN : PushDone(asked)) /\ ~SyncCursor /\ ~ChangesSince /\ ~Lists
        /\ ~RemindersFor /\ ~Tags /\ ~UpsertDownload /\ ~ClearDeleted
        /\ ~(\E q \in Records : MarkDeleted(q))
    BY <1>5 DEF PushDone, SyncCursor, ChangesSince, Lists, RemindersFor, Tags,
       UpsertDownload, ClearDeleted, MarkDeleted
  <2> QED
    BY <1>5, <2>1, <2>2, <2>3, PullSteps
<1> QED
  BY <1>4, <1>5 DEF Applied, UpTo

(* It all holds in the initial states.                                      *)
LEMMA InitBelieved ==
  ASSUME Init
  PROVE  Believed
<1>1. Typed /\ pc = "idle" /\ next = 0 /\ deleted = {} /\ clock = 1 /\ Len(outbox) = 0
      /\ outbox = <<>> /\ First \in Ids /\ First \in Records
  BY InitTyped, IdsAssumption DEF Init, Ids
<1>2. \A c \in Calls : call[c].stage = "none"
  BY DEF Init, NoCall
<1>3. /\ \A r \in Records : cloud[r].state = "live" => r = First
      /\ \A r \in Records : cloud[r].tag \in {0, 1}
      /\ cloud[First].tag = 1 /\ cloud[First].state = "live"
  BY <1>1 DEF Init, Written, NoRow, NoTag
<1>4. cursor \in {0, 1}
  BY <1>1 DEF Init
<1>5. Clocked
  BY <1>1, <1>3, <1>4 DEF Clocked
<1>6. Minted /\ Once
  BY <1>1, <1>2 DEF Minted, Once, Creating
<1>7. Asked /\ Refused /\ Answered /\ Taken /\ Gone /\ Delta /\ Ahead /\ Fetched
      /\ Refetched /\ Applied
  BY <1>1 DEF Asked, Refused, Answered, Taken, Gone, Delta, Ahead, Fetched, Refetched,
     Applied, Downloaded, Writing, Settling
<1>8. Trusted
  <2> SUFFICES ASSUME protocol PROVE UpTo(cursor)
    BY DEF Trusted
  <2> DEFINE empty == [id \in Ids |-> NoRow]
  <2>1. rows = Upsert(empty, First, cloud[First])
    BY DEF Init
  <2>2. ~empty[First].dirty /\ empty \in [Ids -> Row]
    BY <1>1, Constants DEF NoRow
  <2> HIDE DEF empty
  <2>3. /\ rows[First].here /\ rows[First].title = cloud[First].title
        /\ rows[First].deleted = cloud[First].deleted
        /\ rows[First].tag = cloud[First].tag
    BY <1>1, <2>1, <2>2, UpsertShows
  <2> QED
    BY <1>3, <2>3 DEF UpTo, ShownTo, Shows
<1> QED
  BY <1>5, <1>6, <1>7, <1>8 DEF Believed

Sound == crashes = 0 => Believed

(* The token, the answers and the downloads while the process lives. *)
LEMMA AlwaysBelieved == Spec => [](Typed /\ Sound)
<1>1. Init => Typed /\ Sound
  BY InitTyped, InitBelieved DEF Sound
<1>2. Typed /\ Sound /\ [Next]_vars => Typed' /\ Sound'
  <2> SUFFICES ASSUME Typed, Sound, [Next]_vars PROVE Typed' /\ Sound'
    OBVIOUS
  <2>1. Typed'
    BY StepsTyped
  <2>2. ASSUME crashes' = 0 PROVE Believed'
    <3>1. Believed
      BY <2>2, StepCases DEF Sound
    <3>2. Minted /\ Once /\ Clocked /\ Asked /\ Refused /\ Answered /\ Taken /\ Gone
          /\ Delta /\ Ahead /\ Fetched /\ Refetched
      BY <3>1 DEF Believed
    <3>3. Minted' /\ Once' /\ Clocked'
      BY <2>2, <3>2, MintedStep, OnceStep, ClockedStep
    <3>4. Asked' /\ Refused' /\ Answered' /\ Taken'
      BY <2>2, <3>2, AskedStep, RefusedStep, AnsweredStep, TakenStep
    <3>5. Gone' /\ Delta' /\ Ahead' /\ Fetched' /\ Refetched'
      BY <2>2, <3>2, GoneStep, DeltaStep, AheadStep, FetchedStep
    <3>6. Applied' /\ Trusted'
      BY <2>2, <3>1, AppliedStep, TrustedStep
    <3> QED
      BY <3>3, <3>4, <3>5, <3>6 DEF Believed
  <2> QED
    BY <2>1, <2>2 DEF Sound
<1> QED
  BY <1>1, <1>2, PTL DEF Spec

(* Until the process dies, a saved token hides no version: settled rows     *)
(* show what iCloud holds up to it, through edits in two statements, their  *)
(* conflicts, tombstones, failures and what an older protocol left.         *)
THEOREM SavedTokenIsSound == Spec => []CursorSound
<1>1. Typed /\ Sound => CursorSound
  BY DEF Sound, CursorSound, Believed, Trusted, UpTo, ShownTo, Quiet, Shows, Settled
<1> QED
  BY <1>1, AlwaysBelieved, PTL
=============================================================================
