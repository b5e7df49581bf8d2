--------------------------- MODULE SyncCoreProofs ---------------------------
(***************************************************************************)
(* The type invariant of SyncCore, and what becomes of the user's edits,   *)
(* for any number of records, edits, writes of other devices and faults:   *)
(* rows are dirty exactly while an entry waits, the list shows what is not *)
(* uploaded yet, and no edit is lost.                                      *)
(***************************************************************************)
EXTENDS SyncCore, CacheOpsProofs

(* Where a pass is in the upload of an entry, the entry is still the first  *)
(* of the outbox, for the user only appends, and the answer in hand is      *)
(* about the record of that entry.  A create is refused without a record.   *)
Upload ==
  /\ pc \in {"modify", "replace", "ack", "clash", "settle"} => outbox # <<>>
  /\ pc = "modify" => HeadItem.op # "create"
  /\ pc = "replace" => HeadItem.op = "create"
  /\ pc \in {"clash", "settle"} => HeadItem.op # "create" \/ reply.id = NoId
  /\ pc \in {"modify", "ack"} => HeadItem.id = reply.id
  /\ pc = "modify" => HeadItem.base \in {NoTag, reply.tag}
  /\ pc \in {"modify", "replace", "ack", "upsert"} => reply.id \in Records
  /\ pc = "tombstone" => victim \in Records

(* Only a record that has been written has a tag. *)
Unborn == \A r \in Records : cloud[r].state = "none" => cloud[r].tag = NoTag

Typed == TypeOK /\ Upload /\ Unborn

(* The patches and the empty values are of the right kind. *)
LEMMA Constants ==
  /\ NoReply \in Reply /\ NoRecord \in Record /\ NoRow \in Row
  /\ NoPatch \in Patch
  /\ \A t \in Nat : SetTitle(t) \in Patch /\ SetTitle(t).title = t
  /\ \A m \in Marks : SetDeleted(m) \in Patch
  /\ \A t \in Text : SetTitle(t) # NoPatch
  /\ SetDeleted("set") # NoPatch /\ SetDeleted("clear") # NoPatch
  /\ Text \subseteq Nat /\ Blank \in Text
<1> USE DEF NoText, Blank, NoTag, Text
<1>1. NoReply \in Reply
  BY DEF NoReply, Reply
<1>2. NoRecord \in Record
  BY DEF NoRecord, Written, Record
<1>3. NoRow \in Row
  BY DEF NoRow, Row
<1>4. NoPatch \in Patch /\ NoPatch = [title |-> 0, deleted |-> "keep"]
  BY DEF NoPatch, Patch, Marks
<1>5. \A t \in Nat : SetTitle(t) = [title |-> t, deleted |-> "keep"]
  BY DEF NoPatch, SetTitle
<1>6. \A m \in Marks : SetDeleted(m) = [title |-> 0, deleted |-> m]
  BY DEF NoPatch, SetDeleted
<1>7. \A t \in Nat : SetTitle(t) \in Patch /\ SetTitle(t).title = t
  BY <1>5 DEF Patch, Marks
<1>8. \A m \in Marks : SetDeleted(m) \in Patch
  <2> TAKE m \in Marks
  <2> QED BY <1>6 DEF Patch
<1>9. \A t \in Text : SetTitle(t) # NoPatch
  BY <1>4, <1>5
<1>10. SetDeleted("set") # NoPatch /\ SetDeleted("clear") # NoPatch
  BY <1>4, <1>6 DEF Marks
<1> QED
  BY <1>1, <1>2, <1>3, <1>4, <1>7, <1>8, <1>9, <1>10

(* A patch applied to something with a text and a mark gives both. *)
LEMMA PatchedTypes ==
  ASSUME NEW p \in Patch, NEW r, r.title \in Text, r.deleted \in BOOLEAN
  PROVE  PatchedTitle(r, p) \in Text /\ PatchedDeleted(r, p) \in BOOLEAN
BY DEF PatchedTitle, PatchedDeleted, Patch, Text, Marks

(* What an edit of the user does to the outbox and the rows. *)
LEMMA LocalChangeEffect ==
  ASSUME CacheOK, EnvOK, NEW id \in Ids, NEW o \in {"update", "delete"},
         NEW p \in Patch, LocalChange(id, o, p)
  PROVE  /\ rows' \in [Ids -> Row] /\ outbox' \in Seq(Item(Ids))
         /\ wish' \in [Ids -> Nat]
         /\ outbox # <<>> => Head(outbox') = Head(outbox)
         /\ outbox' # <<>>
         /\ Len(outbox') = Len(outbox) + 1
         /\ \A i \in 1..Len(outbox) : outbox'[i] = outbox[i]
         /\ /\ outbox'[Len(outbox) + 1].op = o
            /\ outbox'[Len(outbox) + 1].id = id
            /\ outbox'[Len(outbox) + 1].base = rows[id].tag
            /\ outbox'[Len(outbox) + 1].patch = IF o = "delete" THEN NoPatch ELSE p
         /\ \A q : Pending(outbox', q) <=> (Pending(outbox, q) \/ q = id)
         /\ \A q \in Ids \ {id} : rows'[q] = rows[q]
         /\ rows'[id].here /\ rows[id].here /\ rows'[id].tag = rows[id].tag
         /\ p # NoPatch => rows'[id].dirty
<1> USE DEF CacheOK
<1> DEFINE q == IF o = "delete" THEN NoPatch ELSE p
<1>1. rows[id].here /\ rows' = Edit(rows, id, p, TRUE)
      /\ outbox' = Enqueue(outbox, id, o, q, rows[id].tag)
  BY DEF LocalChange
<1>2. q \in Patch /\ rows[id].tag \in Nat
  BY Constants DEF Row
<1>3. /\ rows' \in [Ids -> Row]
      /\ \A x \in Ids \ {id} : rows'[x] = rows[x]
      /\ rows'[id].here = rows[id].here /\ rows'[id].tag = rows[id].tag
      /\ rows[id].here /\ p # NoPatch => rows'[id].dirty
  <2>1. PICK d \in BOOLEAN : d = TRUE
    OBVIOUS
  <2>2. rows' = Edit(rows, id, p, d)
    BY <1>1, <2>1, Zenon
  <2>3. /\ rows' \in [Ids -> Row]
        /\ \A x \in Ids \ {id} : rows'[x] = rows[x]
        /\ rows'[id].here = rows[id].here /\ rows'[id].tag = rows[id].tag
        /\ rows[id].here /\ p # NoPatch => rows'[id].dirty = d
    BY <2>2, EditRows
  <2> QED
    BY <2>1, <2>3
<1> HIDE DEF q
<1>4. /\ outbox' \in Seq(Item(Ids)) /\ outbox' # <<>>
      /\ Len(outbox') = Len(outbox) + 1
      /\ outbox'[Len(outbox) + 1]
           = [op |-> o, id |-> id, patch |-> q, base |-> rows[id].tag]
      /\ \A i \in 1..Len(outbox) : outbox'[i] = outbox[i]
      /\ outbox # <<>> => Head(outbox') = Head(outbox)
  BY <1>1, <1>2, EnqueueEntries
<1>5. \A x : Pending(outbox', x) <=> (Pending(outbox, x) \/ x = id)
  BY <1>1, <1>2, PendingEnqueue
<1>6. wish' \in [Ids -> Nat]
  BY DEF LocalChange, EnvOK, Patch
<1>7. /\ outbox'[Len(outbox) + 1].op = o /\ outbox'[Len(outbox) + 1].id = id
      /\ outbox'[Len(outbox) + 1].base = rows[id].tag
      /\ outbox'[Len(outbox) + 1].patch = q
  BY <1>4
<1> QED
  BY <1>1, <1>3, <1>4, <1>5, <1>6, <1>7 DEF q

(* A text somebody types is a text. *)
LEMMA FreshType ==
  ASSUME EnvOK
  PROVE  Fresh \in Text /\ Fresh \in Nat
BY DEF EnvOK, Fresh, Text, NoText

(* The entry in hand. *)
LEMMA HeadTyped ==
  ASSUME CacheOK, outbox # <<>>
  PROVE  /\ HeadItem \in Item(Ids) /\ HeadItem = outbox[1] /\ 1 \in 1..Len(outbox)
         /\ HeadItem.id \in Ids /\ HeadItem.base \in Nat /\ HeadItem.patch \in Patch
         /\ HeadPatch \in Patch /\ HeadPatch.title \in Nat
         /\ Tail(outbox) \in Seq(Item(Ids))
<1>1. /\ HeadItem \in Item(Ids) /\ HeadItem = outbox[1] /\ 1 \in 1..Len(outbox)
      /\ Tail(outbox) \in Seq(Item(Ids))
  BY HeadTailType DEF CacheOK, HeadItem
<1>2. HeadItem.id \in Ids /\ HeadItem.base \in Nat /\ HeadItem.patch \in Patch
  BY <1>1 DEF Item
<1>3. HeadPatch \in Patch
  BY <1>2, Constants DEF HeadPatch, Marks
<1>4. HeadPatch.title \in Nat
  BY <1>3 DEF Patch
<1> QED
  BY <1>1, <1>2, <1>3, <1>4

(* What iCloud sends is of the right kind. *)
LEMMA AnswerTyped ==
  ASSUME NEW r \in Records, NEW v, v.title \in Text, v.deleted \in BOOLEAN,
         v.tag \in Nat
  PROVE  /\ Answer(r, v) \in Reply /\ Answer(r, v).id = r
         /\ Answer(r, v).tag = v.tag
BY DEF Answer, Reply

(* So is a record of the account, and what is downloaded of it. *)
LEMMA RecordTyped ==
  ASSUME CloudOK, NEW r \in Records
  PROVE  /\ cloud[r].title \in Text /\ cloud[r].deleted \in BOOLEAN
         /\ cloud[r].tag \in Nat /\ cloud[r] \in Record /\ cloud[r].born \in Nat
         /\ cloud[r].state # "none" => Download(r) \in Change
<1>1. cloud[r] \in Record
  BY DEF CloudOK
<1>2. /\ cloud[r].title \in Text /\ cloud[r].deleted \in BOOLEAN
      /\ cloud[r].tag \in Nat /\ cloud[r].state \in {"none", "live", "erased"}
      /\ cloud[r].born \in Nat
  BY <1>1 DEF Record
<1> QED
  BY <1>1, <1>2 DEF Download, Change

(* The downloaded records and the answer in hand name records. *)
LEMMA ChangeTyped ==
  ASSUME PassOK
  PROVE  /\ \A x \in inbox : /\ x.id \in Records /\ x.id \in Ids /\ x.title \in Text
                               /\ x.deleted \in BOOLEAN /\ x.tag \in Nat
         /\ reply.title \in Text /\ reply.deleted \in BOOLEAN /\ reply.tag \in Nat
         /\ reply.id # NoId => reply.id \in Records /\ reply.id \in Ids
BY DEF PassOK, Change, Reply, Ids

(* An answer that arrives or is lost leaves the pass in order. *)
LEMMA ReceivedEffect ==
  ASSUME PassOK, EnvOK, NEW lost \in BOOLEAN, NEW place \in Stages, NEW v \in Reply,
         Received(lost, place, v)
  PROVE  /\ PassOK' /\ faults' \in Nat
         /\ pc' = "idle" \/ (pc' = place /\ reply' = v)
<1>1. CASE lost
  <2>1. faults' = faults + 1 /\ pc' = "idle" /\ Forget
    BY <1>1 DEF Received, Abort
  <2>2. PassOK'
    BY <2>1, Constants DEF PassOK, Forget, Stages
  <2>3. faults' \in Nat
    BY <2>1 DEF EnvOK
  <2> QED
    BY <2>1, <2>2, <2>3
<1>2. CASE ~lost
  <2>1. /\ pc' = place /\ reply' = v
        /\ UNCHANGED <<faults, local, inbox, next, victim, listsChanged>>
    BY <1>2 DEF Received
  <2> QED
    BY <2>1 DEF PassOK, EnvOK
<1> QED
  BY <1>1, <1>2

(* What creating a reminder does to the outbox and the rows. *)
LEMMA CreateEffect ==
  ASSUME CacheOK, EnvOK, NEW id \in LocalIds, CreateReminder(id)
  PROVE  /\ rows' \in [Ids -> Row] /\ outbox' \in Seq(Item(Ids))
         /\ wish' \in [Ids -> Nat]
         /\ outbox # <<>> => Head(outbox') = Head(outbox)
         /\ outbox' # <<>>
         /\ Len(outbox') = Len(outbox) + 1
         /\ \A i \in 1..Len(outbox) : outbox'[i] = outbox[i]
         /\ /\ outbox'[Len(outbox) + 1].op = "create"
            /\ outbox'[Len(outbox) + 1].id = id
            /\ outbox'[Len(outbox) + 1].base = NoTag
            /\ outbox'[Len(outbox) + 1].patch = SetTitle(Fresh)
         /\ \A q : Pending(outbox', q) <=> (Pending(outbox, q) \/ q = id)
         /\ id \in Ids
         /\ \A q \in Ids \ {id} : rows'[q] = rows[q]
         /\ rows'[id].here /\ rows'[id].dirty
<1> USE DEF CacheOK, NoTag
<1>1. id \in Ids
  BY DEF Ids
<1>2. SetTitle(Fresh) \in Patch /\ Fresh \in Text /\ Fresh \in Nat
  BY FreshType, Constants
<1>3. outbox' = Enqueue(outbox, id, "create", SetTitle(Fresh), 0)
  BY DEF CreateReminder
<1>4. /\ outbox' \in Seq(Item(Ids)) /\ outbox' # <<>>
      /\ Len(outbox') = Len(outbox) + 1
      /\ outbox'[Len(outbox) + 1]
           = [op |-> "create", id |-> id, patch |-> SetTitle(Fresh), base |-> 0]
      /\ \A i \in 1..Len(outbox) : outbox'[i] = outbox[i]
      /\ outbox # <<>> => Head(outbox') = Head(outbox)
  BY <1>1, <1>2, <1>3, EnqueueEntries
<1>5. \A x : Pending(outbox', x) <=> (Pending(outbox, x) \/ x = id)
  BY <1>1, <1>2, <1>3, PendingEnqueue
<1> DEFINE r == [here |-> TRUE, title |-> Fresh, deleted |-> FALSE, tag |-> 0,
                 dirty |-> TRUE]
<1>6. r \in Row /\ r.here /\ r.dirty
  BY <1>2 DEF Row
<1>7. rows' = [rows EXCEPT ![id] = r]
  BY DEF CreateReminder, UpsertLocal
<1>8. wish' \in [Ids -> Nat]
  BY <1>2 DEF CreateReminder, EnvOK
<1>9. /\ outbox'[Len(outbox) + 1].op = "create"
      /\ outbox'[Len(outbox) + 1].id = id
      /\ outbox'[Len(outbox) + 1].base = NoTag
      /\ outbox'[Len(outbox) + 1].patch = SetTitle(Fresh)
  BY <1>4
<1> HIDE DEF r
<1>10. /\ rows' \in [Ids -> Row] /\ rows'[id] = r
       /\ \A q \in Ids \ {id} : rows'[q] = rows[q]
  BY <1>1, <1>6, <1>7
<1> QED
  BY <1>1, <1>4, <1>5, <1>6, <1>8, <1>9, <1>10

(* What the steps of a pass do to the rows and the outbox. *)
LEMMA ReplaceIdEffect ==
  ASSUME CacheOK, PassOK, EnvOK, Upload, ReplaceId
  PROVE  /\ rows' = ReplaceIdRows(rows, HeadItem.id, reply.id)
         /\ outbox' = ReplaceIdOutbox(outbox, HeadItem.id, reply.id)
         /\ HeadItem.id \in Ids /\ reply.id \in Ids
         /\ rows' \in [Ids -> Row] /\ outbox' \in Seq(Item(Ids))
         /\ wish' \in [Ids -> Nat] /\ outbox' # <<>>
         /\ Head(outbox').id = reply.id
<1>1. HeadItem.id \in Ids /\ reply.id \in Ids /\ outbox # <<>>
  BY HeadTyped DEF ReplaceId, Upload, Ids
<1>2. /\ rows' = ReplaceIdRows(rows, HeadItem.id, reply.id)
      /\ outbox' = ReplaceIdOutbox(outbox, HeadItem.id, reply.id)
  BY DEF ReplaceId
<1>3. rows' \in [Ids -> Row]
  BY <1>1, <1>2, ReplacedIdRows DEF CacheOK
<1>4. /\ outbox' \in Seq(Item(Ids)) /\ Len(outbox') = Len(outbox)
      /\ \A i \in 1..Len(outbox) :
           outbox'[i].id = IF outbox[i].id = HeadItem.id THEN reply.id ELSE outbox[i].id
  BY <1>1, <1>2, ReplaceIdEntries DEF CacheOK
<1>5. outbox' # <<>>
  BY <1>1, <1>4 DEF CacheOK
<1>6. Head(outbox') = outbox'[1] /\ HeadItem = outbox[1] /\ 1 \in 1..Len(outbox)
  BY <1>1, <1>4, <1>5, HeadTyped, HeadTailType
<1>7. wish' \in [Ids -> Nat]
  BY <1>1 DEF ReplaceId, EnvOK, NoText
<1> QED
  BY <1>1, <1>2, <1>3, <1>4, <1>5, <1>6, <1>7

(* Acknowledging removes the entry in hand and rebases those behind it. *)
LEMMA AckEffect ==
  ASSUME CacheOK, PassOK, Upload, Ack
  PROVE  /\ outbox # <<>> /\ HeadItem.id = reply.id /\ reply.id \in Ids
         /\ rows' = AcknowledgeRows(rows, outbox, reply.id, reply.tag)
         /\ outbox' = Rebase(Tail(outbox), reply.id, reply.tag)
         /\ Tail(outbox) \in Seq(Item(Ids)) /\ reply.tag \in Nat
         /\ rows' \in [Ids -> Row] /\ outbox' \in Seq(Item(Ids))
<1>1. outbox # <<>> /\ HeadItem.id = reply.id /\ reply.id \in Ids
  BY DEF Ack, Upload, Ids
<1>2. Tail(outbox) \in Seq(Item(Ids)) /\ reply.tag \in Nat
  BY <1>1, HeadTyped, ChangeTyped
<1>3. /\ rows' = AcknowledgeRows(rows, outbox, reply.id, reply.tag)
      /\ outbox' = Rebase(Tail(outbox), reply.id, reply.tag)
  BY DEF Ack, AcknowledgeOutbox
<1>4. rows' \in [Ids -> Row]
  BY <1>1, <1>2, <1>3, AcknowledgedRows DEF CacheOK
<1>5. outbox' \in Seq(Item(Ids))
  BY <1>2, <1>3, RebaseEntries
<1> QED
  BY <1>1, <1>2, <1>3, <1>4, <1>5

(* Settling a conflict touches only the rows of the entry and of the answer. *)
LEMMA SettleEffect ==
  ASSUME CacheOK, PassOK, Upload, Settle
  PROVE  /\ outbox # <<>> /\ outbox' = Tail(outbox)
         /\ HeadItem.id \in Ids
         /\ rows' \in [Ids -> Row] /\ outbox' \in Seq(Item(Ids))
         /\ conflicts' \in Seq(Conflict)
         /\ \/ rows' = rows /\ (reply.id = NoId \/ Pending(Tail(outbox), HeadItem.id))
            \/ /\ reply.id \in Ids /\ ~Pending(Tail(outbox), HeadItem.id)
               /\ \E mid \in [Ids -> Row] :
                    /\ \A q \in Ids \ {HeadItem.id} : mid[q] = rows[q]
                    /\ mid[HeadItem.id].dirty = FALSE
                    /\ mid[HeadItem.id].here = rows[HeadItem.id].here
                    /\ mid[HeadItem.id].tag = rows[HeadItem.id].tag
                    /\ rows' = Upsert(mid, reply.id, reply)
<1>1. outbox # <<>>
  BY DEF Settle, Upload
<1>2. HeadItem.id \in Ids /\ outbox' = Tail(outbox) /\ outbox' \in Seq(Item(Ids))
  BY <1>1, HeadTyped DEF Settle
<1>3. conflicts' \in Seq(Conflict)
  <2> DEFINE c == [id |-> HeadItem.id, local |-> local, remote |-> reply,
                   kept |-> "none"]
  <2>1. c \in Conflict
    BY <1>2 DEF Conflict, PassOK
  <2>2. conflicts' = Append(conflicts, c)
    BY DEF Settle
  <2> HIDE DEF c
  <2> QED
    BY <2>1, <2>2 DEF CacheOK
<1>4. CASE reply.id = NoId \/ Pending(Tail(outbox), HeadItem.id)
  <2>1. rows' = rows
    BY <1>2, <1>4 DEF Settle
  <2> QED
    BY <1>1, <1>2, <1>3, <1>4, <2>1 DEF CacheOK
<1>5. CASE ~(reply.id = NoId \/ Pending(Tail(outbox), HeadItem.id))
  <2> DEFINE row == [rows[HeadItem.id] EXCEPT !.dirty = FALSE]
             mid == [rows EXCEPT ![HeadItem.id] = row]
  <2>1. rows[HeadItem.id] \in Row
    BY <1>2 DEF CacheOK
  <2>2. /\ row \in Row /\ row.dirty = FALSE
        /\ row.here = rows[HeadItem.id].here /\ row.tag = rows[HeadItem.id].tag
    BY <2>1 DEF Row
  <2>3. rows' = Upsert(mid, reply.id, reply)
    BY <1>2, <1>5 DEF Settle
  <2> HIDE DEF row
  <2>4. /\ mid \in [Ids -> Row] /\ mid[HeadItem.id] = row
        /\ \A q \in Ids \ {HeadItem.id} : mid[q] = rows[q]
    BY <1>2, <2>2 DEF CacheOK
  <2> HIDE DEF mid
  <2>5. reply.id \in Ids
    BY <1>5, ChangeTyped
  <2>6. rows' \in [Ids -> Row]
    BY <2>3, <2>4, <2>5, ChangeTyped, UpsertRows
  <2> QED
    BY <1>1, <1>2, <1>3, <1>5, <2>2, <2>3, <2>4, <2>5, <2>6
<1> QED
  BY <1>4, <1>5

(* A cache that never synchronised, or is up to date, is in order. *)
LEMMA InitTyped == Init => Typed
<1> SUFFICES ASSUME Init PROVE Typed
  OBVIOUS
<1>1. EnvOK
  BY DEF Init, EnvOK, NoText
<1>c. CloudOK /\ Unborn
  <2>1. Written("live", 2, FALSE, 1, "other", NoText) \in Record
        /\ Written("live", 2, FALSE, 1, "other", NoText).state = "live"
    BY DEF Written, Record, Text, NoText
  <2> QED
    BY <2>1, Constants DEF Init, CloudOK, Unborn, NoRecord, Written
<1>2. PassOK
  BY Constants DEF Init, PassOK, Stages
<1>3. First \in Ids /\ [id \in Ids |-> NoRow] \in [Ids -> Row]
  BY IdsAssumption, Constants DEF Ids
<1>4. cloud[First].title \in Text /\ cloud[First].deleted \in BOOLEAN
      /\ cloud[First].tag \in Nat
  BY <1>c, IdsAssumption, RecordTyped
<1>5. CacheOK
  <2>1. Upsert([id \in Ids |-> NoRow], First, cloud[First]) \in [Ids -> Row]
    BY <1>3, <1>4, UpsertRows
  <2>2. clock \in Nat /\ outbox \in Seq(Item(Ids)) /\ conflicts \in Seq(Conflict)
    BY <1>c DEF Init, CloudOK
  <2>3. rows \in [Ids -> Row]
    BY <1>3, <2>1 DEF Init
  <2>4. cursor \in Nat /\ lists \in Nat
    <3>1. lists = 0 /\ (cursor = 0 \/ cursor = clock)
      BY Zenon DEF Init
    <3> QED
      BY <2>2, <3>1
  <2> QED
    BY <2>2, <2>3, <2>4 DEF CacheOK
<1>6. Upload
  BY DEF Init, Upload
<1> QED
  BY <1>1, <1>c, <1>2, <1>5, <1>6 DEF Typed, TypeOK

(* Every step keeps the types, the entry in hand and the tags in order. *)
LEMMA StepTyped == Typed /\ [Next]_vars => Typed'
<1> SUFFICES ASSUME Typed, [Next]_vars PROVE Typed'
  OBVIOUS
<1> USE DEF Typed, TypeOK, cacheVars, cloudVars, passVars, envVars, history
<1>1. ASSUME NEW id \in LocalIds, CreateReminder(id)
      PROVE  Typed'
  <2>e. /\ rows' \in [Ids -> Row] /\ outbox' \in Seq(Item(Ids))
        /\ wish' \in [Ids -> Nat] /\ outbox' # <<>>
        /\ outbox # <<>> => Head(outbox') = Head(outbox)
    BY <1>1, CreateEffect
  <2>1. CacheOK'
    BY <1>1, <2>e DEF CacheOK, CreateReminder, UserCall
  <2>2. CloudOK'
    BY <1>1 DEF CloudOK, CreateReminder, UserCall
  <2>3. PassOK'
    BY <1>1 DEF PassOK, Stages, CreateReminder, UserCall
  <2>4. EnvOK'
    BY <1>1, <2>e DEF EnvOK, CreateReminder, UserCall
  <2>5. Upload'
    BY <1>1, <2>e DEF Upload, HeadItem, CreateReminder, UserCall
  <2>6. Unborn'
    BY <1>1 DEF Unborn, CreateReminder, UserCall
  <2> QED
    BY <2>1, <2>2, <2>3, <2>4, <2>5, <2>6
<1>2. ASSUME NEW id \in Ids, UpdateReminder(id)
      PROVE  Typed'
  <2>p. SetTitle(Fresh) \in Patch
    BY FreshType, Constants
  <2>e. /\ rows' \in [Ids -> Row] /\ outbox' \in Seq(Item(Ids))
        /\ wish' \in [Ids -> Nat] /\ outbox' # <<>>
        /\ outbox # <<>> => Head(outbox') = Head(outbox)
    BY <1>2, <2>p, LocalChangeEffect DEF UpdateReminder
  <2>1. CacheOK'
    BY <1>2, <2>e DEF CacheOK, UpdateReminder, UserCall
  <2>2. CloudOK'
    BY <1>2 DEF CloudOK, UpdateReminder, UserCall
  <2>3. PassOK'
    BY <1>2 DEF PassOK, Stages, UpdateReminder, UserCall
  <2>4. EnvOK'
    BY <1>2, <2>e DEF EnvOK, UpdateReminder, UserCall
  <2>5. Upload'
    BY <1>2, <2>e DEF Upload, HeadItem, UpdateReminder, UserCall
  <2>6. Unborn'
    BY <1>2 DEF Unborn, UpdateReminder, UserCall
  <2> QED
    BY <2>1, <2>2, <2>3, <2>4, <2>5, <2>6
<1>3. ASSUME NEW id \in Ids, DeleteReminder(id)
      PROVE  Typed'
  <2>p. SetDeleted("set") \in Patch
    BY Constants DEF Marks
  <2>e. /\ rows' \in [Ids -> Row] /\ outbox' \in Seq(Item(Ids))
        /\ wish' \in [Ids -> Nat] /\ outbox' # <<>>
        /\ outbox # <<>> => Head(outbox') = Head(outbox)
    BY <1>3, <2>p, LocalChangeEffect DEF DeleteReminder
  <2>1. CacheOK'
    BY <1>3, <2>e DEF CacheOK, DeleteReminder, UserCall
  <2>2. CloudOK'
    BY <1>3 DEF CloudOK, DeleteReminder, UserCall
  <2>3. PassOK'
    BY <1>3 DEF PassOK, Stages, DeleteReminder, UserCall
  <2>4. EnvOK'
    BY <1>3, <2>e DEF EnvOK, DeleteReminder, UserCall
  <2>5. Upload'
    BY <1>3, <2>e DEF Upload, HeadItem, DeleteReminder, UserCall
  <2>6. Unborn'
    BY <1>3 DEF Unborn, DeleteReminder, UserCall
  <2> QED
    BY <2>1, <2>2, <2>3, <2>4, <2>5, <2>6
<1>4. ASSUME NEW id \in Ids, RestoreReminder(id)
      PROVE  Typed'
  <2>p. SetDeleted("clear") \in Patch
    BY Constants DEF Marks
  <2>e. /\ rows' \in [Ids -> Row] /\ outbox' \in Seq(Item(Ids))
        /\ wish' \in [Ids -> Nat] /\ outbox' # <<>>
        /\ outbox # <<>> => Head(outbox') = Head(outbox)
    BY <1>4, <2>p, LocalChangeEffect DEF RestoreReminder
  <2>1. CacheOK'
    BY <1>4, <2>e DEF CacheOK, RestoreReminder, UserCall
  <2>2. CloudOK'
    BY <1>4 DEF CloudOK, RestoreReminder, UserCall
  <2>3. PassOK'
    BY <1>4 DEF PassOK, Stages, RestoreReminder, UserCall
  <2>4. EnvOK'
    BY <1>4, <2>e DEF EnvOK, RestoreReminder, UserCall
  <2>5. Upload'
    BY <1>4, <2>e DEF Upload, HeadItem, RestoreReminder, UserCall
  <2>6. Unborn'
    BY <1>4 DEF Unborn, RestoreReminder, UserCall
  <2> QED
    BY <2>1, <2>2, <2>3, <2>4, <2>5, <2>6
<1>5. ASSUME NEW i \in 1..Len(conflicts), KeepLocal(i)
      PROVE  Typed'
  <2>p. SetTitle(conflicts[i].local.title) \in Patch /\ conflicts[i].id \in Ids
    <3>1. conflicts[i] \in Conflict
      BY DEF CacheOK
    <3> QED
      BY <3>1, Constants DEF Conflict, Row
  <2>e. /\ rows' \in [Ids -> Row] /\ outbox' \in Seq(Item(Ids))
        /\ wish' \in [Ids -> Nat] /\ outbox' # <<>>
        /\ outbox # <<>> => Head(outbox') = Head(outbox)
    BY <1>5, <2>p, LocalChangeEffect DEF KeepLocal
  <2>1. CacheOK'
    <3>1. [conflicts[i] EXCEPT !.kept = "local"] \in Conflict
      <4>1. conflicts[i] \in Conflict
        BY DEF CacheOK
      <4> QED
        BY <4>1 DEF Conflict
    <3>2. conflicts' = [conflicts EXCEPT ![i] = [conflicts[i] EXCEPT !.kept = "local"]]
      BY <1>5 DEF KeepLocal
    <3>3. conflicts' \in Seq(Conflict)
      BY <3>1, <3>2 DEF CacheOK
    <3> QED
      BY <1>5, <3>3, <2>e DEF CacheOK, KeepLocal
  <2>2. CloudOK'
    BY <1>5 DEF CloudOK, KeepLocal, UserCall
  <2>3. PassOK'
    BY <1>5 DEF PassOK, Stages, KeepLocal, UserCall
  <2>4. EnvOK'
    BY <1>5, <2>e DEF EnvOK, KeepLocal, UserCall
  <2>5. Upload'
    BY <1>5, <2>e DEF Upload, HeadItem, KeepLocal, UserCall
  <2>6. Unborn'
    BY <1>5 DEF Unborn, KeepLocal, UserCall
  <2> QED
    BY <2>1, <2>2, <2>3, <2>4, <2>5, <2>6
<1>6. ASSUME NEW i \in 1..Len(conflicts), KeepRemote(i)
      PROVE  Typed'
  <2>1. CacheOK'
    <3>1. [conflicts[i] EXCEPT !.kept = "remote"] \in Conflict
      <4>1. conflicts[i] \in Conflict
        BY DEF CacheOK
      <4> QED
        BY <4>1 DEF Conflict
    <3>2. conflicts' = [conflicts EXCEPT ![i] = [conflicts[i] EXCEPT !.kept = "remote"]]
      BY <1>6 DEF KeepRemote
    <3>3. conflicts' \in Seq(Conflict)
      BY <3>1, <3>2 DEF CacheOK
    <3> QED
      BY <1>6, <3>3 DEF CacheOK, KeepRemote
  <2>2. CloudOK'
    BY <1>6 DEF CloudOK, KeepRemote
  <2>3. PassOK'
    BY <1>6 DEF PassOK, Stages, KeepRemote
  <2>4. EnvOK'
    BY <1>6 DEF EnvOK, KeepRemote
  <2>5. Upload'
    BY <1>6 DEF Upload, HeadItem, KeepRemote
  <2>6. Unborn'
    BY <1>6 DEF Unborn, KeepRemote
  <2> QED
    BY <2>1, <2>2, <2>3, <2>4, <2>5, <2>6
<1>7. ASSUME NEW r \in Records, OtherEdit(r)
      PROVE  Typed'
  <2>c. /\ clock' \in Nat /\ clock' = clock + 1 /\ cloudLists' \in Nat
        /\ cloud' = [cloud EXCEPT ![r] = cloud'[r]]
        /\ cloud'[r] \in Record /\ cloud'[r].state # "none"
    <3> DEFINE new == Written("live", Fresh, cloud[r].deleted, clock + 1, "other", cloud[r].born)
    <3>1. Fresh \in Text /\ cloud[r].deleted \in BOOLEAN /\ cloud[r].born \in Nat
      BY RecordTyped, FreshType
    <3>2. cloud' = [cloud EXCEPT ![r] = new]
      BY <1>7 DEF OtherEdit, OtherWrites
    <3>3. new \in Record /\ new.state # "none"
      BY <3>1 DEF Written, Record, CloudOK
    <3> HIDE DEF new
    <3>4. clock' = clock + 1 /\ cloudLists' = cloudLists
      BY <1>7 DEF OtherEdit, OtherWrites
    <3> QED
      BY <3>2, <3>3, <3>4 DEF CloudOK
  <2>1. CacheOK'
    BY <1>7 DEF CacheOK, OtherEdit, OtherWrites
  <2>2. CloudOK'
    BY <2>c DEF CloudOK
  <2>3. PassOK'
    BY <1>7 DEF PassOK, Stages, OtherEdit, OtherWrites
  <2>4. EnvOK'
    BY <1>7 DEF EnvOK, OtherEdit, OtherWrites
  <2>5. Upload'
    BY <1>7 DEF Upload, HeadItem, OtherEdit, OtherWrites
  <2>6. Unborn'
    BY <2>c DEF Unborn, CloudOK
  <2> QED
    BY <2>1, <2>2, <2>3, <2>4, <2>5, <2>6
<1>8. ASSUME NEW r \in Records, OtherDelete(r)
      PROVE  Typed'
  <2>c. /\ clock' \in Nat /\ clock' = clock + 1 /\ cloudLists' \in Nat
        /\ cloud' = [cloud EXCEPT ![r] = cloud'[r]]
        /\ cloud'[r] \in Record /\ cloud'[r].state # "none"
    <3> DEFINE new == Written("live", cloud[r].title, TRUE, clock + 1, "other", cloud[r].born)
    <3>1. cloud[r].title \in Text /\ TRUE \in BOOLEAN /\ cloud[r].born \in Nat
      BY RecordTyped, FreshType
    <3>2. cloud' = [cloud EXCEPT ![r] = new]
      BY <1>8 DEF OtherDelete, OtherWrites
    <3>3. new \in Record /\ new.state # "none"
      BY <3>1 DEF Written, Record, CloudOK
    <3> HIDE DEF new
    <3>4. clock' = clock + 1 /\ cloudLists' = cloudLists
      BY <1>8 DEF OtherDelete, OtherWrites
    <3> QED
      BY <3>2, <3>3, <3>4 DEF CloudOK
  <2>1. CacheOK'
    BY <1>8 DEF CacheOK, OtherDelete, OtherWrites
  <2>2. CloudOK'
    BY <2>c DEF CloudOK
  <2>3. PassOK'
    BY <1>8 DEF PassOK, Stages, OtherDelete, OtherWrites
  <2>4. EnvOK'
    BY <1>8 DEF EnvOK, OtherDelete, OtherWrites
  <2>5. Upload'
    BY <1>8 DEF Upload, HeadItem, OtherDelete, OtherWrites
  <2>6. Unborn'
    BY <2>c DEF Unborn, CloudOK
  <2> QED
    BY <2>1, <2>2, <2>3, <2>4, <2>5, <2>6
<1>9. ASSUME NEW r \in Records, OtherErase(r)
      PROVE  Typed'
  <2>c. /\ clock' \in Nat /\ clock' = clock + 1 /\ cloudLists' \in Nat
        /\ cloud' = [cloud EXCEPT ![r] = cloud'[r]]
        /\ cloud'[r] \in Record /\ cloud'[r].state # "none"
    <3> DEFINE new == Written("erased", cloud[r].title, TRUE, clock + 1, "other", cloud[r].born)
    <3>1. cloud[r].title \in Text /\ TRUE \in BOOLEAN /\ cloud[r].born \in Nat
      BY RecordTyped, FreshType
    <3>2. cloud' = [cloud EXCEPT ![r] = new]
      BY <1>9 DEF OtherErase, OtherWrites
    <3>3. new \in Record /\ new.state # "none"
      BY <3>1 DEF Written, Record, CloudOK
    <3> HIDE DEF new
    <3>4. clock' = clock + 1 /\ cloudLists' = cloudLists
      BY <1>9 DEF OtherErase, OtherWrites
    <3> QED
      BY <3>2, <3>3, <3>4 DEF CloudOK
  <2>1. CacheOK'
    BY <1>9 DEF CacheOK, OtherErase, OtherWrites
  <2>2. CloudOK'
    BY <2>c DEF CloudOK
  <2>3. PassOK'
    BY <1>9 DEF PassOK, Stages, OtherErase, OtherWrites
  <2>4. EnvOK'
    BY <1>9 DEF EnvOK, OtherErase, OtherWrites
  <2>5. Upload'
    BY <1>9 DEF Upload, HeadItem, OtherErase, OtherWrites
  <2>6. Unborn'
    BY <2>c DEF Unborn, CloudOK
  <2> QED
    BY <2>1, <2>2, <2>3, <2>4, <2>5, <2>6
<1>10. ASSUME OtherList
      PROVE  Typed'
  <2>1. CacheOK'
    BY <1>10 DEF CacheOK, OtherList
  <2>2. CloudOK'
    BY <1>10 DEF CloudOK, OtherList
  <2>3. PassOK'
    BY <1>10 DEF PassOK, Stages, OtherList
  <2>4. EnvOK'
    BY <1>10 DEF EnvOK, OtherList
  <2>5. Upload'
    BY <1>10 DEF Upload, HeadItem, OtherList
  <2>6. Unborn'
    BY <1>10 DEF Unborn, OtherList
  <2> QED
    BY <2>1, <2>2, <2>3, <2>4, <2>5, <2>6
<1>11. ASSUME StartPass
      PROVE  Typed'
  <2>1. CacheOK'
    BY <1>11 DEF CacheOK, StartPass
  <2>2. CloudOK'
    BY <1>11 DEF CloudOK, StartPass
  <2>3. PassOK'
    BY <1>11 DEF PassOK, Stages, StartPass
  <2>4. EnvOK'
    BY <1>11 DEF EnvOK, StartPass
  <2>5. Upload'
    BY <1>11 DEF Upload, HeadItem, StartPass
  <2>6. Unborn'
    BY <1>11 DEF Unborn, StartPass
  <2> QED
    BY <2>1, <2>2, <2>3, <2>4, <2>5, <2>6
<1>12. ASSUME NEW r \in Records, NEW lost \in BOOLEAN, PushCreate(r, lost)
      PROVE  Typed'
  <2> DEFINE new == Written("live", PatchedTitle(NoRecord, HeadPatch), FALSE, clock + 1,
                            "pc", HeadPatch.title)
  <2>h. HeadPatch \in Patch /\ HeadPatch.title \in Nat /\ outbox # <<>>
    BY <1>12, HeadTyped DEF PushCreate
  <2>c. /\ clock' \in Nat /\ cloudLists' \in Nat /\ cloud' = [cloud EXCEPT ![r] = new]
        /\ new \in Record /\ new.state # "none" /\ cloud'[r] = new
        /\ Answer(r, new) \in Reply /\ Answer(r, new).id = r
    <3>1. PatchedTitle(NoRecord, HeadPatch) \in Text
      BY <2>h, PatchedTypes, Constants DEF NoRecord, Written
    <3>2. clock' \in Nat /\ cloudLists' \in Nat /\ cloud' = [cloud EXCEPT ![r] = new]
      BY <1>12 DEF PushCreate, CloudOK
    <3>3. new \in Record /\ new.state # "none"
      BY <2>h, <3>1 DEF Written, Record, CloudOK
    <3>4. Answer(r, new) \in Reply /\ Answer(r, new).id = r
      BY <3>3, AnswerTyped DEF Record
    <3> QED
      BY <3>2, <3>3, <3>4 DEF CloudOK
  <2>1. CacheOK'
    BY <1>12 DEF CacheOK, PushCreate, Received, Abort, Forget
  <2>2. CloudOK'
    BY <2>c DEF CloudOK
  <2>3. PassOK'
    <3>1. Received(lost, "replace", Answer(r, new))
      BY <1>12, <2>c DEF PushCreate
    <3> QED
      BY <3>1, <2>c, ReceivedEffect DEF Stages
  <2>4. EnvOK'
    <3>1. Received(lost, "replace", Answer(r, new))
      BY <1>12, <2>c DEF PushCreate
    <3>2. faults' \in Nat
      BY <3>1, <2>c, ReceivedEffect DEF Stages
    <3> QED
      BY <1>12, <2>h, <3>2 DEF EnvOK, PushCreate
  <2>5. Upload'
    <3>1. Received(lost, "replace", Answer(r, new)) /\ outbox' = outbox
          /\ HeadItem.op = "create" /\ HeadItem' = HeadItem
      BY <1>12, <2>c DEF PushCreate, cacheVars, HeadItem
    <3> QED
      BY <3>1, <2>c, <2>h DEF Upload, Received, Abort, Forget
  <2>6. Unborn'
    BY <2>c DEF Unborn, CloudOK
  <2> QED
    BY <2>1, <2>2, <2>3, <2>4, <2>5, <2>6
<1>13. ASSUME PushLookup
      PROVE  Typed'
  <2>h. HeadItem.id \in Ids /\ outbox # <<>>
    BY <1>13, HeadTyped DEF PushLookup
  <2>a. HeadItem.id \in Records =>
          /\ Answer(HeadItem.id, cloud[HeadItem.id]) \in Reply
          /\ Answer(HeadItem.id, cloud[HeadItem.id]).id = HeadItem.id
          /\ Answer(HeadItem.id, cloud[HeadItem.id]).tag = cloud[HeadItem.id].tag
    BY RecordTyped, AnswerTyped
  <2>1. CacheOK'
    BY <1>13 DEF CacheOK, PushLookup, Abort, Forget
  <2>2. CloudOK'
    BY <1>13 DEF CloudOK, PushLookup, Abort, Forget
  <2>3. PassOK'
    <3>1. CASE HeadItem.id \in Records /\ cloud[HeadItem.id].state = "live"
      <4>1. /\ pc' \in {"modify", "clash"}
            /\ reply' = Answer(HeadItem.id, cloud[HeadItem.id])
            /\ UNCHANGED <<local, inbox, next, victim, listsChanged>>
        BY <1>13, <3>1 DEF PushLookup
      <4> QED
        BY <3>1, <4>1, <2>a DEF PassOK, Stages
    <3>2. CASE Abort
      BY <3>2, Constants DEF PassOK, Stages, Abort, Forget
    <3> QED
      BY <1>13, <3>1, <3>2 DEF PushLookup
  <2>4. EnvOK'
    BY <1>13 DEF EnvOK, PushLookup, Abort, Forget
  <2>5. Upload'
    <3>1. HeadItem' = HeadItem /\ outbox' = outbox
      BY <1>13 DEF PushLookup, HeadItem
    <3> QED
      BY <1>13, <3>1, <2>a, <2>h DEF Upload, PushLookup, Abort, Forget
  <2>6. Unborn'
    BY <1>13 DEF Unborn, PushLookup, Abort, Forget
  <2> QED
    BY <2>1, <2>2, <2>3, <2>4, <2>5, <2>6
<1>14. ASSUME NEW lost \in BOOLEAN, PushModify(lost)
      PROVE  Typed'
  <2> DEFINE r == reply.id
             new == Written("live", PatchedTitle(cloud[r], HeadPatch),
                            PatchedDeleted(cloud[r], HeadPatch), clock + 1, "pc",
                            cloud[r].born)
  <2>h. /\ HeadPatch \in Patch /\ HeadPatch.title \in Nat /\ outbox # <<>>
        /\ r \in Records /\ HeadItem.id = r
    BY <1>14, HeadTyped DEF PushModify, Upload
  <2>c. /\ clock' \in Nat /\ cloudLists' \in Nat /\ cloud' = [cloud EXCEPT ![r] = new]
        /\ new \in Record /\ new.state = "live"
        /\ Answer(r, new) \in Reply /\ Answer(r, new).id = r
    <3>1. /\ cloud[r] \in Record /\ PatchedTitle(cloud[r], HeadPatch) \in Text
          /\ PatchedDeleted(cloud[r], HeadPatch) \in BOOLEAN /\ cloud[r].born \in Nat
      BY <2>h, RecordTyped, PatchedTypes
    <3>2. clock' \in Nat /\ cloudLists' \in Nat /\ cloud' = [cloud EXCEPT ![r] = new]
      BY <1>14 DEF PushModify, CloudOK
    <3>3. new \in Record /\ new.state = "live"
      BY <2>h, <3>1 DEF Written, Record, CloudOK
    <3> HIDE DEF new
    <3>4. Answer(r, new) \in Reply /\ Answer(r, new).id = r
      BY <2>h, <3>3, AnswerTyped DEF Record
    <3> QED
      BY <3>2, <3>3, <3>4
  <2>r. /\ Received(lost, "ack", Answer(r, new)) /\ outbox' = outbox
        /\ cloud[r].state = "live" /\ uploaded' = uploaded \cup {HeadPatch.title}
        /\ UNCHANGED <<edits, others, erases, listEdits, minted, wish, rows, conflicts,
                       cursor, lists>>
    BY <1>14 DEF PushModify
  <2> HIDE DEF new, r
  <2>1. CacheOK'
    BY <2>r DEF CacheOK
  <2>2. CloudOK'
    BY <2>c, <2>h DEF CloudOK
  <2>3. PassOK'
    BY <2>r, <2>c, ReceivedEffect DEF Stages
  <2>4. EnvOK'
    <3>1. faults' \in Nat
      BY <2>r, <2>c, ReceivedEffect DEF Stages
    <3> QED
      BY <2>r, <2>h, <3>1 DEF EnvOK
  <2>5. Upload'
    BY <2>r, <2>h, <2>c DEF Upload, HeadItem, Received, Abort, Forget
  <2>6. Unborn'
    BY <2>r, <2>h, <2>c DEF Unborn, CloudOK
  <2> QED
    BY <2>1, <2>2, <2>3, <2>4, <2>5, <2>6
<1>15. ASSUME NEW kind \in RaceReplies, PushRefused(kind)
      PROVE  Typed'
  <2>r. reply.id \in Records /\ outbox # <<>> /\ HeadItem.op # "create"
    BY <1>15 DEF PushRefused, Upload
  <2>a. Refusal(reply.id, kind) \in Reply
    <3>1. Answer(reply.id, cloud[reply.id]) \in Reply
      BY <2>r, RecordTyped, AnswerTyped
    <3>2. [NoReply EXCEPT !.id = reply.id] \in Reply
      BY <2>r, Constants DEF Reply
    <3> QED
      BY <3>1, <3>2, Constants, RepliesAssumption DEF Refusal
  <2>1. CacheOK'
    BY <1>15 DEF CacheOK, PushRefused, Received, Abort, Forget
  <2>2. CloudOK'
    BY <1>15 DEF CloudOK, PushRefused, Received, Abort, Forget
  <2>3. PassOK'
    <3>1. CASE Received(FALSE, "clash", Refusal(reply.id, kind))
      <4>1. /\ pc' = "clash" /\ reply' = Refusal(reply.id, kind)
            /\ UNCHANGED <<local, inbox, next, victim, listsChanged>>
        BY <3>1 DEF Received
      <4> QED
        BY <4>1, <2>a DEF PassOK, Stages
    <3>2. CASE Abort
      BY <3>2, Constants DEF PassOK, Stages, Abort, Forget
    <3> QED
      BY <1>15, <3>1, <3>2 DEF PushRefused
  <2>4. EnvOK'
    BY <1>15 DEF EnvOK, PushRefused, Received, Abort, Forget
  <2>5. Upload'
    BY <1>15, <2>r DEF Upload, HeadItem, PushRefused, Received, Abort, Forget
  <2>6. Unborn'
    BY <1>15 DEF Unborn, PushRefused, Received, Abort, Forget
  <2> QED
    BY <2>1, <2>2, <2>3, <2>4, <2>5, <2>6
<1>16. ASSUME ReplaceId
      PROVE  Typed'
  <2>e. /\ rows' \in [Ids -> Row] /\ outbox' \in Seq(Item(Ids))
        /\ wish' \in [Ids -> Nat] /\ outbox' # <<>>
        /\ Head(outbox').id = reply.id
    BY <1>16, ReplaceIdEffect
  <2>1. CacheOK'
    BY <1>16, <2>e DEF CacheOK, ReplaceId
  <2>2. CloudOK'
    BY <1>16 DEF CloudOK, ReplaceId
  <2>3. PassOK'
    BY <1>16 DEF PassOK, Stages, ReplaceId
  <2>4. EnvOK'
    BY <1>16, <2>e DEF EnvOK, ReplaceId
  <2>5. Upload'
    BY <1>16, <2>e DEF Upload, HeadItem, ReplaceId
  <2>6. Unborn'
    BY <1>16 DEF Unborn, ReplaceId
  <2> QED
    BY <2>1, <2>2, <2>3, <2>4, <2>5, <2>6
<1>17. ASSUME Ack
      PROVE  Typed'
  <2>e. rows' \in [Ids -> Row] /\ outbox' \in Seq(Item(Ids))
    BY <1>17, AckEffect
  <2>1. CacheOK'
    BY <1>17, <2>e DEF CacheOK, Ack
  <2>2. CloudOK'
    BY <1>17 DEF CloudOK, Ack
  <2>3. PassOK'
    BY <1>17 DEF PassOK, Stages, Ack
  <2>4. EnvOK'
    BY <1>17 DEF EnvOK, Ack
  <2>5. Upload'
    BY <1>17 DEF Upload, HeadItem, Ack
  <2>6. Unborn'
    BY <1>17 DEF Unborn, Ack
  <2> QED
    BY <2>1, <2>2, <2>3, <2>4, <2>5, <2>6
<1>18. ASSUME UpsertReply
      PROVE  Typed'
  <2>e. rows' \in [Ids -> Row]
    <3>1. reply.id \in Ids
      BY <1>18 DEF UpsertReply, Upload, Ids
    <3> QED
      BY <1>18, <3>1, ChangeTyped, UpsertRows DEF UpsertReply, CacheOK
  <2>1. CacheOK'
    BY <1>18, <2>e DEF CacheOK, UpsertReply, Forget
  <2>2. CloudOK'
    BY <1>18 DEF CloudOK, UpsertReply, Forget
  <2>3. PassOK'
    BY <1>18, Constants DEF PassOK, Stages, UpsertReply, Forget
  <2>4. EnvOK'
    BY <1>18 DEF EnvOK, UpsertReply, Forget
  <2>5. Upload'
    BY <1>18 DEF Upload, HeadItem, UpsertReply, Forget
  <2>6. Unborn'
    BY <1>18 DEF Unborn, UpsertReply, Forget
  <2> QED
    BY <2>1, <2>2, <2>3, <2>4, <2>5, <2>6
<1>19. ASSUME ReadLocal
      PROVE  Typed'
  <2>e. rows[HeadItem.id] \in Row /\ outbox # <<>>
    BY <1>19, HeadTyped DEF ReadLocal, Upload, CacheOK
  <2>1. CacheOK'
    BY <1>19 DEF CacheOK, ReadLocal
  <2>2. CloudOK'
    BY <1>19 DEF CloudOK, ReadLocal
  <2>3. PassOK'
    BY <1>19, <2>e DEF PassOK, Stages, ReadLocal
  <2>4. EnvOK'
    BY <1>19 DEF EnvOK, ReadLocal
  <2>5. Upload'
    BY <1>19, <2>e DEF Upload, HeadItem, ReadLocal
  <2>6. Unborn'
    BY <1>19 DEF Unborn, ReadLocal
  <2> QED
    BY <2>1, <2>2, <2>3, <2>4, <2>5, <2>6
<1>20. ASSUME Settle
      PROVE  Typed'
  <2>e. /\ rows' \in [Ids -> Row] /\ outbox' \in Seq(Item(Ids))
        /\ conflicts' \in Seq(Conflict)
    BY <1>20, SettleEffect
  <2>1. CacheOK'
    BY <1>20, <2>e DEF CacheOK, Settle, Forget
  <2>2. CloudOK'
    BY <1>20 DEF CloudOK, Settle, Forget
  <2>3. PassOK'
    BY <1>20, Constants DEF PassOK, Stages, Settle, Forget
  <2>4. EnvOK'
    BY <1>20 DEF EnvOK, Settle, Forget
  <2>5. Upload'
    BY <1>20 DEF Upload, HeadItem, Settle, Forget
  <2>6. Unborn'
    BY <1>20 DEF Unborn, Settle, Forget
  <2> QED
    BY <2>1, <2>2, <2>3, <2>4, <2>5, <2>6
<1>21. ASSUME PushDone
      PROVE  Typed'
  <2>1. CacheOK'
    BY <1>21 DEF CacheOK, PushDone
  <2>2. CloudOK'
    BY <1>21 DEF CloudOK, PushDone
  <2>3. PassOK'
    BY <1>21 DEF PassOK, Stages, PushDone
  <2>4. EnvOK'
    BY <1>21 DEF EnvOK, PushDone
  <2>5. Upload'
    BY <1>21 DEF Upload, HeadItem, PushDone
  <2>6. Unborn'
    BY <1>21 DEF Unborn, PushDone
  <2> QED
    BY <2>1, <2>2, <2>3, <2>4, <2>5, <2>6
<1>22. ASSUME Delta
      PROVE  Typed'
  <2>1. CacheOK'
    BY <1>22 DEF CacheOK, Delta
  <2>2. CloudOK'
    BY <1>22 DEF CloudOK, Delta
  <2>3. PassOK'
    <3>1. inbox' \subseteq Change
      <4>1. \A q \in Records : cloud[q].tag > cursor => cloud[q].state # "none"
        BY RecordTyped DEF Unborn, NoTag, CacheOK
      <4> QED
        BY <1>22, <4>1, RecordTyped DEF Delta
    <3> QED
      BY <1>22, <3>1, RepliesAssumption DEF PassOK, CloudOK, Stages, Delta, NoCursor
  <2>4. EnvOK'
    BY <1>22 DEF EnvOK, Delta
  <2>5. Upload'
    BY <1>22 DEF Upload, HeadItem, Delta
  <2>6. Unborn'
    BY <1>22 DEF Unborn, Delta
  <2> QED
    BY <2>1, <2>2, <2>3, <2>4, <2>5, <2>6
<1>23. ASSUME FullCursor
      PROVE  Typed'
  <2>1. CacheOK'
    BY <1>23 DEF CacheOK, FullCursor
  <2>2. CloudOK'
    BY <1>23 DEF CloudOK, FullCursor
  <2>3. PassOK'
    BY <1>23 DEF PassOK, CloudOK, Stages, FullCursor, NoCursor
  <2>4. EnvOK'
    BY <1>23 DEF EnvOK, FullCursor
  <2>5. Upload'
    BY <1>23 DEF Upload, HeadItem, FullCursor
  <2>6. Unborn'
    BY <1>23 DEF Unborn, FullCursor
  <2> QED
    BY <2>1, <2>2, <2>3, <2>4, <2>5, <2>6
<1>24. ASSUME FullLists
      PROVE  Typed'
  <2>1. CacheOK'
    BY <1>24 DEF CacheOK, CloudOK, FullLists
  <2>2. CloudOK'
    BY <1>24 DEF CloudOK, FullLists
  <2>3. PassOK'
    BY <1>24 DEF PassOK, Stages, FullLists
  <2>4. EnvOK'
    BY <1>24 DEF EnvOK, FullLists
  <2>5. Upload'
    BY <1>24 DEF Upload, HeadItem, FullLists
  <2>6. Unborn'
    BY <1>24 DEF Unborn, FullLists
  <2> QED
    BY <2>1, <2>2, <2>3, <2>4, <2>5, <2>6
<1>25. ASSUME FullQuery
      PROVE  Typed'
  <2>1. CacheOK'
    BY <1>25 DEF CacheOK, FullQuery
  <2>2. CloudOK'
    BY <1>25 DEF CloudOK, FullQuery
  <2>3. PassOK'
    <3>1. inbox' \subseteq Change
      BY <1>25, RecordTyped DEF FullQuery
    <3> QED
      BY <1>25, <3>1 DEF PassOK, Stages, FullQuery
  <2>4. EnvOK'
    BY <1>25 DEF EnvOK, FullQuery
  <2>5. Upload'
    BY <1>25 DEF Upload, HeadItem, FullQuery
  <2>6. Unborn'
    BY <1>25 DEF Unborn, FullQuery
  <2> QED
    BY <2>1, <2>2, <2>3, <2>4, <2>5, <2>6
<1>26. ASSUME NEW x \in inbox, ApplyLive(x)
      PROVE  Typed'
  <2>e. rows' \in [Ids -> Row]
    BY <1>26, ChangeTyped, UpsertRows DEF ApplyLive, CacheOK
  <2>1. CacheOK'
    BY <1>26, <2>e DEF CacheOK, ApplyLive
  <2>2. CloudOK'
    BY <1>26 DEF CloudOK, ApplyLive
  <2>3. PassOK'
    BY <1>26 DEF PassOK, Stages, ApplyLive
  <2>4. EnvOK'
    BY <1>26 DEF EnvOK, ApplyLive
  <2>5. Upload'
    BY <1>26 DEF Upload, HeadItem, ApplyLive
  <2>6. Unborn'
    BY <1>26 DEF Unborn, ApplyLive
  <2> QED
    BY <2>1, <2>2, <2>3, <2>4, <2>5, <2>6
<1>27. ASSUME NEW x \in inbox, ReadTombstone(x)
      PROVE  Typed'
  <2>1. CacheOK'
    BY <1>27 DEF CacheOK, ReadTombstone
  <2>2. CloudOK'
    BY <1>27 DEF CloudOK, ReadTombstone
  <2>3. PassOK'
    <3>1. x.id \in Records
      BY ChangeTyped
    <3> QED
      BY <1>27, <3>1 DEF PassOK, Stages, ReadTombstone
  <2>4. EnvOK'
    BY <1>27 DEF EnvOK, ReadTombstone
  <2>5. Upload'
    <3>1. x.id \in Records
      BY ChangeTyped
    <3> QED
      BY <1>27, <3>1 DEF Upload, ReadTombstone
  <2>6. Unborn'
    BY <1>27 DEF Unborn, ReadTombstone
  <2> QED
    BY <2>1, <2>2, <2>3, <2>4, <2>5, <2>6
<1>28. ASSUME MarkTombstone
      PROVE  Typed'
  <2>e. rows' \in [Ids -> Row]
    <3>1. victim \in Ids /\ SetDeleted("set") \in Patch
      BY <1>28, Constants DEF MarkTombstone, Upload, Ids, Marks
    <3>2. PICK d \in BOOLEAN : d = FALSE
      OBVIOUS
    <3>3. rows' = Edit(rows, victim, SetDeleted("set"), d)
      BY <1>28, <3>2, Zenon DEF MarkTombstone
    <3> QED
      BY <3>1, <3>3, EditRows DEF CacheOK
  <2>1. CacheOK'
    BY <1>28, <2>e DEF CacheOK, MarkTombstone
  <2>2. CloudOK'
    BY <1>28 DEF CloudOK, MarkTombstone
  <2>3. PassOK'
    BY <1>28 DEF PassOK, Stages, MarkTombstone
  <2>4. EnvOK'
    BY <1>28 DEF EnvOK, MarkTombstone
  <2>5. Upload'
    BY <1>28 DEF Upload, HeadItem, MarkTombstone
  <2>6. Unborn'
    BY <1>28 DEF Unborn, MarkTombstone
  <2> QED
    BY <2>1, <2>2, <2>3, <2>4, <2>5, <2>6
<1>29. ASSUME RefreshLists
      PROVE  Typed'
  <2>1. CacheOK'
    BY <1>29 DEF CacheOK, CloudOK, RefreshLists
  <2>2. CloudOK'
    BY <1>29 DEF CloudOK, RefreshLists
  <2>3. PassOK'
    BY <1>29 DEF PassOK, Stages, RefreshLists
  <2>4. EnvOK'
    BY <1>29 DEF EnvOK, RefreshLists
  <2>5. Upload'
    BY <1>29 DEF Upload, HeadItem, RefreshLists
  <2>6. Unborn'
    BY <1>29 DEF Unborn, RefreshLists
  <2> QED
    BY <2>1, <2>2, <2>3, <2>4, <2>5, <2>6
<1>30. ASSUME Save
      PROVE  Typed'
  <2>1. CacheOK'
    BY <1>30 DEF CacheOK, PassOK, Save
  <2>2. CloudOK'
    BY <1>30 DEF CloudOK, Save, Forget
  <2>3. PassOK'
    BY <1>30, Constants DEF PassOK, Stages, Save, Forget
  <2>4. EnvOK'
    BY <1>30 DEF EnvOK, Save, Forget
  <2>5. Upload'
    BY <1>30 DEF Upload, HeadItem, Save, Forget
  <2>6. Unborn'
    BY <1>30 DEF Unborn, Save, Forget
  <2> QED
    BY <2>1, <2>2, <2>3, <2>4, <2>5, <2>6
<1>31. ASSUME Throw
      PROVE  Typed'
  <2>1. CacheOK'
    BY <1>31 DEF CacheOK, Throw, Forget
  <2>2. CloudOK'
    BY <1>31 DEF CloudOK, Throw, Forget
  <2>3. PassOK'
    BY <1>31, Constants DEF PassOK, Stages, Throw, Forget
  <2>4. EnvOK'
    BY <1>31 DEF EnvOK, Throw, Forget
  <2>5. Upload'
    BY <1>31 DEF Upload, HeadItem, Throw, Forget
  <2>6. Unborn'
    BY <1>31 DEF Unborn, Throw, Forget
  <2> QED
    BY <2>1, <2>2, <2>3, <2>4, <2>5, <2>6
<1>32. ASSUME Crash
      PROVE  Typed'
  <2>1. CacheOK'
    BY <1>32 DEF CacheOK, Crash, Abort, Forget
  <2>2. CloudOK'
    BY <1>32 DEF CloudOK, Crash, Abort, Forget
  <2>3. PassOK'
    BY <1>32, Constants DEF PassOK, Stages, Crash, Abort, Forget
  <2>4. EnvOK'
    BY <1>32 DEF EnvOK, Crash, Abort, Forget
  <2>5. Upload'
    BY <1>32 DEF Upload, HeadItem, Crash, Abort, Forget
  <2>6. Unborn'
    BY <1>32 DEF Unborn, Crash, Abort, Forget
  <2> QED
    BY <2>1, <2>2, <2>3, <2>4, <2>5, <2>6
<1>34. ASSUME CreateRefused
      PROVE  Typed'
  <2>1. CacheOK'
    BY <1>34 DEF CacheOK, CreateRefused
  <2>2. CloudOK'
    BY <1>34 DEF CloudOK, CreateRefused
  <2>3. PassOK'
    BY <1>34, Constants DEF PassOK, Stages, CreateRefused
  <2>4. EnvOK'
    BY <1>34 DEF EnvOK, CreateRefused, history
  <2>5. Upload'
    BY <1>34 DEF Upload, HeadItem, CreateRefused, cacheVars, NoReply
  <2>6. Unborn'
    BY <1>34 DEF Unborn, CreateRefused
  <2> QED
    BY <2>1, <2>2, <2>3, <2>4, <2>5, <2>6
<1>33. CASE UNCHANGED vars
  BY <1>33 DEF vars, CacheOK, CloudOK, PassOK, EnvOK, Upload, Unborn, HeadItem
<1> QED
  BY <1>1, <1>2, <1>3, <1>4, <1>5, <1>6, <1>7, <1>8, <1>9, <1>10, <1>11, <1>12, <1>13,
     <1>14, <1>15, <1>16, <1>17, <1>18, <1>19, <1>20, <1>21, <1>22, <1>23, <1>24, <1>25,
     <1>26, <1>27, <1>28, <1>29, <1>30, <1>31, <1>32, <1>33, <1>34 DEF Next, UserNext, OtherNext,
     EngineStep, FaultNext

-----------------------------------------------------------------------------
(* The types, and what a pass knows of the entry in hand, hold throughout. *)
THEOREM TypedAlways == Spec => []Typed
<1> QED
  BY InitTyped, StepTyped, PTL DEF Spec

(* The variables keep their types, for any number of records and edits. *)
THEOREM TypeCorrect == Spec => []TypeOK
<1>1. Typed => TypeOK
  BY DEF Typed
<1> QED
  BY <1>1, TypedAlways, PTL

-----------------------------------------------------------------------------
(* What the user may do to the rows and the outbox. *)
LEMMA UserSteps ==
  ASSUME Typed, UserNext
  PROVE  \/ UNCHANGED <<rows, outbox, wish>> /\ \E i \in 1..Len(conflicts) : KeepRemote(i)
         \/ \E id \in LocalIds : CreateReminder(id)
         \/ /\ \E id \in Ids, o \in {"update", "delete"}, p \in Patch \ {NoPatch} :
                 LocalChange(id, o, p) /\ (o = "delete" => p.title = NoText)
            /\ edits' = edits + 1 /\ minted' = minted
<1> DEFINE Edited == /\ \E id \in Ids, o \in {"update", "delete"},
                           p \in Patch \ {NoPatch} :
                           LocalChange(id, o, p) /\ (o = "delete" => p.title = NoText)
                     /\ edits' = edits + 1 /\ minted' = minted
<1>1. ASSUME NEW id \in Ids, UpdateReminder(id) PROVE Edited
  <2>1. SetTitle(Fresh) \in Patch \ {NoPatch}
    BY FreshType, Constants DEF Typed, TypeOK
  <2>2. LocalChange(id, "update", SetTitle(Fresh))
    BY <1>1 DEF UpdateReminder
  <2> QED
    BY <1>1, <2>1, <2>2 DEF UpdateReminder, UserCall
<1>2. ASSUME NEW id \in Ids, DeleteReminder(id) PROVE Edited
  <2>1. SetDeleted("set") \in Patch \ {NoPatch}
    BY Constants DEF Marks
  <2>2. LocalChange(id, "delete", SetDeleted("set")) /\ SetDeleted("set").title = NoText
    BY <1>2 DEF DeleteReminder, SetDeleted, NoPatch
  <2> QED
    BY <1>2, <2>1, <2>2 DEF DeleteReminder, UserCall
<1>3. ASSUME NEW id \in Ids, RestoreReminder(id) PROVE Edited
  <2>1. SetDeleted("clear") \in Patch \ {NoPatch}
    BY Constants DEF Marks
  <2>2. LocalChange(id, "update", SetDeleted("clear"))
    BY <1>3 DEF RestoreReminder
  <2> QED
    BY <1>3, <2>1, <2>2 DEF RestoreReminder, UserCall
<1>4. ASSUME NEW i \in 1..Len(conflicts), KeepLocal(i) PROVE Edited
  <2>1. conflicts[i] \in Conflict
    BY DEF Typed, TypeOK, CacheOK
  <2>2. conflicts[i].id \in Ids /\ conflicts[i].local.title \in Text
    BY <2>1 DEF Conflict, Row
  <2>3. SetTitle(conflicts[i].local.title) \in Patch \ {NoPatch}
    BY <2>2, Constants
  <2>4. LocalChange(conflicts[i].id, "update", SetTitle(conflicts[i].local.title))
    BY <1>4 DEF KeepLocal
  <2> QED
    BY <1>4, <2>2, <2>3, <2>4 DEF KeepLocal, UserCall
<1> HIDE DEF Edited
<1>5. \/ UNCHANGED <<rows, outbox, wish>> /\ \E i \in 1..Len(conflicts) : KeepRemote(i)
      \/ \E id \in LocalIds : CreateReminder(id)
      \/ Edited
  BY <1>1, <1>2, <1>3, <1>4 DEF UserNext, KeepRemote, history
<1> QED
  BY <1>5 DEF Edited

(* Of all steps only these touch the rows or the outbox. *)
LEMMA CacheSteps ==
  ASSUME Typed, [Next]_vars
  PROVE  \/ UNCHANGED <<rows, outbox>>
         \/ \E id \in LocalIds : CreateReminder(id)
         \/ \E id \in Ids, o \in {"update", "delete"}, p \in Patch \ {NoPatch} :
              LocalChange(id, o, p) /\ (o = "delete" => p.title = NoText)
         \/ ReplaceId \/ Ack \/ UpsertReply \/ Settle
         \/ \E x \in inbox : ApplyLive(x)
         \/ MarkTombstone
<1> DEFINE Calm == UNCHANGED <<rows, outbox>>
           Edited == \E id \in Ids, o \in {"update", "delete"}, p \in Patch \ {NoPatch} :
                       LocalChange(id, o, p) /\ (o = "delete" => p.title = NoText)
<1> USE DEF cacheVars
<1>5. ASSUME UserNext
      PROVE  \/ Calm \/ Edited \/ \E id \in LocalIds : CreateReminder(id)
  BY <1>5, UserSteps
<1> HIDE DEF Edited
<1>6. ASSUME OtherNext PROVE Calm
  BY <1>6 DEF OtherNext, OtherEdit, OtherDelete, OtherErase, OtherWrites, OtherList
<1>7. ASSUME EngineStep
      PROVE  \/ Calm
             \/ ReplaceId \/ Ack \/ UpsertReply \/ Settle
             \/ \E x \in inbox : ApplyLive(x)
             \/ MarkTombstone
  BY <1>7 DEF EngineStep, StartPass, PushCreate, PushLookup, PushModify, PushRefused,
     ReadLocal, PushDone, Delta, FullCursor, FullLists, FullQuery, ReadTombstone,
     RefreshLists, Save
<1>8. ASSUME FaultNext PROVE Calm
  BY <1>8 DEF FaultNext, PushCreate, PushModify, Throw, Crash, CreateRefused
<1>9. ASSUME UNCHANGED vars PROVE Calm
  BY <1>9 DEF vars
<1> QED
  BY <1>5, <1>6, <1>7, <1>8, <1>9 DEF Next, Edited

-----------------------------------------------------------------------------
(* A conflict keeps all but the user's decision on it. *)
SameCase(c, d) == d.id = c.id /\ d.local = c.local /\ d.remote = c.remote

(* Nothing that was uploaded or kept for the user is forgotten. *)
LEMMA StepKeepsHistory ==
  ASSUME Typed, [Next]_vars
  PROVE  /\ uploaded \subseteq uploaded'
         /\ \A i \in 1..Len(conflicts) :
              i \in 1..Len(conflicts') /\ SameCase(conflicts[i], conflicts'[i])
<1> USE DEF Typed, TypeOK
<1> DEFINE Grown == \A i \in 1..Len(conflicts) :
                      i \in 1..Len(conflicts') /\ SameCase(conflicts[i], conflicts'[i])
<1>1. uploaded \subseteq uploaded'
  <2>1. UserNext \/ OtherNext => uploaded' = uploaded
    BY DEF UserNext, CreateReminder, UpdateReminder, DeleteReminder, RestoreReminder,
       KeepLocal, KeepRemote, OtherNext, OtherEdit, OtherDelete, OtherErase, OtherWrites,
       OtherList, history
  <2>2. EngineStep \/ FaultNext \/ UNCHANGED vars => uploaded \subseteq uploaded'
    BY DEF EngineStep, FaultNext, StartPass, PushCreate, PushLookup, PushModify,
       PushRefused, ReplaceId, Ack, UpsertReply, ReadLocal, Settle, PushDone, Delta,
       FullCursor, FullLists, FullQuery, ApplyLive, ReadTombstone, MarkTombstone,
       RefreshLists, Save, Throw, Crash, CreateRefused, vars, history
  <2> QED
    BY <2>1, <2>2 DEF Next
<1>2. ASSUME conflicts' = conflicts PROVE Grown
  BY <1>2 DEF SameCase
<1>3. ASSUME NEW i \in 1..Len(conflicts), NEW k,
             conflicts' = [conflicts EXCEPT ![i].kept = k]
      PROVE  Grown
  <2>1. conflicts \in Seq(Conflict) /\ Len(conflicts') = Len(conflicts)
    BY <1>3 DEF CacheOK
  <2>2. ASSUME NEW j \in 1..Len(conflicts)
        PROVE  SameCase(conflicts[j], conflicts'[j])
    <3>1. conflicts[j] \in Conflict
      BY <2>1
    <3>2. conflicts'[j] = IF j = i THEN [conflicts[i] EXCEPT !.kept = k] ELSE conflicts[j]
      BY <1>3, <2>1
    <3> QED
      BY <3>1, <3>2 DEF Conflict, SameCase
  <2> QED
    BY <2>1, <2>2
<1>4. ASSUME NEW x, conflicts' = Append(conflicts, x) PROVE Grown
  BY <1>4 DEF CacheOK, SameCase
<1>5. UserNext \/ OtherNext =>
        \/ conflicts' = conflicts
        \/ \E i \in 1..Len(conflicts) :
             \/ conflicts' = [conflicts EXCEPT ![i].kept = "local"]
             \/ conflicts' = [conflicts EXCEPT ![i].kept = "remote"]
  BY DEF UserNext, CreateReminder, UpdateReminder, DeleteReminder, RestoreReminder,
     KeepLocal, KeepRemote, OtherNext, OtherEdit, OtherDelete, OtherErase, OtherWrites,
     OtherList, cacheVars
<1>6. EngineStep \/ FaultNext \/ UNCHANGED vars =>
        conflicts' = conflicts \/ \E x : conflicts' = Append(conflicts, x)
  <2>1. Settle => \E x : conflicts' = Append(conflicts, x)
    BY Zenon DEF Settle
  <2>2. (EngineStep /\ ~Settle) \/ FaultNext \/ UNCHANGED vars => conflicts' = conflicts
    BY DEF EngineStep, FaultNext, StartPass, PushCreate, PushLookup, PushModify,
       PushRefused, ReplaceId, Ack, UpsertReply, ReadLocal, PushDone, Delta,
       FullCursor, FullLists, FullQuery, ApplyLive, ReadTombstone, MarkTombstone,
       RefreshLists, Save, Throw, Crash, CreateRefused, vars, cacheVars
  <2> QED
    BY <2>1, <2>2
<1> HIDE DEF Grown
<1>7. Grown
  BY <1>2, <1>3, <1>4, <1>5, <1>6 DEF Next, Grown
<1> QED
  BY <1>1, <1>7 DEF Grown

(* Nor is a refusal that named no record. *)
LEMMA OrphansStay ==
  ASSUME Typed, [Next]_vars, NEW id, Orphaned(id)
  PROVE  Orphaned(id)'
<1>1. PICK i \in 1..Len(conflicts) : conflicts[i].id = id /\ conflicts[i].remote.id = NoId
  BY DEF Orphaned
<1>2. i \in 1..Len(conflicts') /\ SameCase(conflicts[i], conflicts'[i])
  BY StepKeepsHistory
<1> QED
  BY <1>1, <1>2 DEF Orphaned, SameCase

-----------------------------------------------------------------------------
(* A dirty row has an entry, or had one that a nameless refusal removed.    *)
Owned ==
  \A id \in Ids :
    rows[id].dirty => rows[id].here /\ (Pending(outbox, id) \/ Orphaned(id))

(* No step leaves a row dirty without an entry. *)
LEMMA StepOwned ==
  ASSUME Typed, Owned, [Next]_vars
  PROVE  Owned'
<1> USE DEF Typed, TypeOK
<1>0. \A id : Orphaned(id) => Orphaned(id)'
  BY OrphansStay
<1>1. CASE UNCHANGED <<rows, outbox>>
  BY <1>0, <1>1, Zenon DEF Owned
<1>2. ASSUME NEW id \in LocalIds, CreateReminder(id) PROVE Owned'
  BY <1>0, <1>2, CreateEffect DEF Owned
<1>3. ASSUME NEW id \in Ids, NEW o \in {"update", "delete"}, NEW p \in Patch \ {NoPatch},
             LocalChange(id, o, p)
      PROVE  Owned'
  BY <1>0, <1>3, LocalChangeEffect DEF Owned
<1>4. CASE ReplaceId
  <2> DEFINE old == HeadItem.id
             new == reply.id
  <2>1. /\ rows' = ReplaceIdRows(rows, old, new) /\ old \in Ids /\ new \in Ids
        /\ outbox' = ReplaceIdOutbox(outbox, old, new)
    BY <1>4, ReplaceIdEffect
  <2>2. Pending(outbox, old)
    BY <1>4, PendingTail DEF ReplaceId, Upload, CacheOK, HeadItem
  <2> HIDE DEF old, new
  <2>3. \A q : Pending(outbox', q)
           <=> \/ q = new /\ (Pending(outbox, old) \/ Pending(outbox, new))
               \/ q # old /\ q # new /\ Pending(outbox, q)
    BY <2>1, PendingReplaceId DEF CacheOK
  <2>4. /\ \A q \in Ids \ {old, new} : rows'[q] = rows[q]
        /\ rows[old].here /\ old # new => rows'[new] = rows[old] /\ rows'[old] = NoRow
        /\ ~rows[old].here \/ old = new => rows' = rows
    BY <2>1, ReplacedIdRows DEF CacheOK
  <2>5. ~NoRow.dirty
    BY DEF NoRow
  <2>6. CASE rows[old].here /\ old # new
    BY <1>0, <2>1, <2>2, <2>3, <2>4, <2>5, <2>6 DEF Owned
  <2>7. CASE ~rows[old].here \/ old = new
    BY <1>0, <2>1, <2>2, <2>3, <2>4, <2>7 DEF Owned
  <2> QED
    BY <2>6, <2>7
<1>5. CASE Ack
  <2>1. /\ outbox # <<>> /\ HeadItem.id = reply.id /\ reply.id \in Ids
        /\ rows' = AcknowledgeRows(rows, outbox, reply.id, reply.tag)
        /\ outbox' = Rebase(Tail(outbox), reply.id, reply.tag)
        /\ Tail(outbox) \in Seq(Item(Ids)) /\ reply.tag \in Nat
    BY <1>5, AckEffect
  <2>2. \A q : Pending(outbox', q) <=> Pending(Tail(outbox), q)
    BY <2>1, PendingRebase
  <2>3. \A q : Pending(outbox, q) /\ q # reply.id => Pending(Tail(outbox), q)
    BY <2>1, PendingTail DEF CacheOK, HeadItem
  <2> DEFINE id == reply.id
             acked == AcknowledgeRows(rows, outbox, id, reply.tag)
  <2>4. /\ \A q \in Ids \ {id} : acked[q] = rows[q]
        /\ rows[id].here => (acked[id].dirty <=> Pending(Tail(outbox), id))
        /\ ~rows[id].here => acked[id] = rows[id]
        /\ acked[id].here = rows[id].here
    <3>1. rows \in [Ids -> Row] /\ id \in Ids /\ reply.tag \in Nat
      BY <2>1 DEF CacheOK
    <3>2. \A q \in Ids \ {id} : acked[q] = rows[q]
      BY <3>1, AcknowledgedRows
    <3>3. rows[id].here => (acked[id].dirty <=> Pending(Tail(outbox), id))
      BY <3>1, AcknowledgedDirty
    <3>4. ~rows[id].here => acked[id] = rows[id]
      BY DEF AcknowledgeRows
    <3>5. AcknowledgeRows(rows, outbox, reply.id, reply.tag)[reply.id].here
            = rows[reply.id].here
      <4> HIDE DEF acked, id, Typed, TypeOK
      <4> QED
        BY <3>1, AcknowledgedRows DEF id
    <3> QED
      BY <3>2, <3>3, <3>4, <3>5
  <2> QED
    <3>1. rows' = acked /\ id \in Ids
      BY <2>1
    <3> HIDE DEF acked, id
    <3>2. \A q \in Ids \ {id} : Pending(outbox', q) \/ Orphaned(q)' \/ ~rows'[q].dirty
      BY <1>0, <2>2, <2>3, <2>4, <3>1 DEF Owned, id
    <3>3. rows'[id].dirty => rows'[id].here /\ Pending(outbox', id)
      BY <2>2, <2>4, <3>1, Zenon DEF Owned
    <3>4. \A q \in Ids \ {id} : rows'[q].dirty => rows'[q].here
      BY <2>4, <3>1 DEF Owned
    <3> QED
      BY <3>2, <3>3, <3>4 DEF Owned
<1>6. CASE UpsertReply
  <2>1. reply.id \in Ids /\ rows' = Upsert(rows, reply.id, reply) /\ outbox' = outbox
    BY <1>6 DEF UpsertReply, Upload, Ids
  <2>2. /\ \A q \in Ids \ {reply.id} : rows'[q] = rows[q]
        /\ rows'[reply.id].dirty = rows[reply.id].dirty
        /\ rows[reply.id].dirty => rows'[reply.id] = rows[reply.id]
    BY <2>1, ChangeTyped, UpsertRows DEF CacheOK
  <2> QED
    BY <1>0, <2>1, <2>2 DEF Owned
<1>7. CASE Settle
  <2> DEFINE id == HeadItem.id
  <2>1. outbox # <<>> /\ outbox' = Tail(outbox) /\ id \in Ids
    BY <1>7, SettleEffect
  <2>2. \A q : Pending(outbox, q) /\ q # id => Pending(Tail(outbox), q)
    BY <2>1, PendingTail DEF CacheOK, HeadItem
  <2>3. CASE rows' = rows /\ Pending(Tail(outbox), id)
    BY <1>0, <2>1, <2>2, <2>3 DEF Owned
  <2>5. CASE rows' = rows /\ reply.id = NoId
    <3> DEFINE c == [id |-> id, local |-> local, remote |-> reply, kept |-> "none"]
    <3>1. conflicts' = Append(conflicts, c) /\ conflicts \in Seq(Conflict)
      BY <1>7, Zenon DEF Settle, CacheOK
    <3>2. c.id = id /\ c.remote.id = NoId
      BY <2>5
    <3> HIDE DEF c, id
    <3>3. Len(conflicts') \in 1..Len(conflicts') /\ conflicts'[Len(conflicts')] = c
      <4> HIDE DEF Typed, TypeOK
      <4> QED
        BY <3>1
    <3>4. \E i \in 1..Len(conflicts') :
            conflicts'[i].id = id /\ conflicts'[i].remote.id = NoId
      BY <3>2, <3>3
    <3>5. \A q : q = id => Orphaned(q)'
      BY <3>4 DEF Orphaned
    <3> QED
      BY <1>0, <2>1, <2>2, <2>5, <3>5 DEF Owned, id
  <2>4. ASSUME NEW mid \in [Ids -> Row], reply.id \in Ids,
               \A q \in Ids \ {id} : mid[q] = rows[q],
               mid[id].dirty = FALSE, rows' = Upsert(mid, reply.id, reply)
        PROVE  Owned'
    <3>1. /\ \A q \in Ids \ {reply.id} : rows'[q] = mid[q]
          /\ rows'[reply.id].dirty = mid[reply.id].dirty
          /\ mid[reply.id].dirty => rows'[reply.id] = mid[reply.id]
      BY <2>4, ChangeTyped, UpsertRows
    <3>2. \A q \in Ids \ {id} : rows'[q].dirty => rows[q].dirty /\ rows'[q] = rows[q]
      BY <2>4, <3>1
    <3>3. rows'[id].dirty = FALSE
      BY <2>1, <2>4, <3>1
    <3> QED
      BY <1>0, <2>1, <2>2, <3>2, <3>3 DEF Owned
  <2> QED
    BY <1>7, <2>1, <2>3, <2>4, <2>5, SettleEffect
<1>8. ASSUME NEW x \in inbox, ApplyLive(x) PROVE Owned'
  <2>1. x.id \in Ids /\ rows' = Upsert(rows, x.id, x) /\ outbox' = outbox
    BY <1>8, ChangeTyped DEF ApplyLive
  <2>2. /\ \A q \in Ids \ {x.id} : rows'[q] = rows[q]
        /\ rows'[x.id].dirty = rows[x.id].dirty
        /\ rows[x.id].dirty => rows'[x.id] = rows[x.id]
    BY <2>1, ChangeTyped, UpsertRows DEF CacheOK
  <2> QED
    BY <1>0, <2>1, <2>2 DEF Owned
<1>9. CASE MarkTombstone
  <2>1. victim \in Ids /\ outbox' = outbox /\ SetDeleted("set") \in Patch
        /\ SetDeleted("set") # NoPatch
    BY <1>9, Constants DEF MarkTombstone, Upload, Ids, Marks
  <2>2. PICK d \in BOOLEAN : d = FALSE
    OBVIOUS
  <2>3. rows' = Edit(rows, victim, SetDeleted("set"), d)
    BY <1>9, <2>2, Zenon DEF MarkTombstone
  <2>4. /\ \A q \in Ids \ {victim} : rows'[q] = rows[q]
        /\ rows'[victim].here = rows[victim].here
        /\ rows[victim].here => rows'[victim].dirty = d
    BY <2>1, <2>3, EditRows DEF CacheOK
  <2>5. ~rows[victim].here => rows' = rows
    BY <1>9 DEF MarkTombstone, Edit
  <2> QED
    BY <1>0, <2>1, <2>2, <2>4, <2>5 DEF Owned
<1> QED
  BY <1>1, <1>2, <1>3, <1>4, <1>5, <1>6, <1>7, <1>8, <1>9, CacheSteps

-----------------------------------------------------------------------------
(* Of all steps only these write to the records of the account. *)
LEMMA CloudSteps ==
  ASSUME Typed, [Next]_vars
  PROVE  \/ cloud' = cloud /\ clock' \in {clock, clock + 1}
         \/ \E r \in Records, t \in Text, d \in BOOLEAN, s \in {"live", "erased"} :
              OtherWrites(r, t, d, s)
         \/ \E r \in Records, lost \in BOOLEAN : PushCreate(r, lost)
         \/ \E lost \in BOOLEAN : PushModify(lost)
<1> DEFINE Calm == cloud' = cloud /\ clock' \in {clock, clock + 1}
           Wrote == \E r \in Records, t \in Text, d \in BOOLEAN, s \in {"live", "erased"} :
                      OtherWrites(r, t, d, s)
<1> USE DEF cloudVars
<1>1. UserNext => Calm
  BY DEF UserNext, CreateReminder, UpdateReminder, DeleteReminder, RestoreReminder,
     KeepLocal, KeepRemote
<1>2. ASSUME NEW r \in Records, OtherEdit(r) \/ OtherDelete(r) \/ OtherErase(r)
      PROVE  Wrote
  <2>1. Fresh \in Text /\ cloud[r].title \in Text /\ cloud[r].deleted \in BOOLEAN
    BY FreshType, RecordTyped DEF Typed, TypeOK
  <2> QED
    BY <1>2, <2>1 DEF OtherEdit, OtherDelete, OtherErase
<1>3. OtherList => Calm
  BY DEF OtherList
<1>4. EngineStep => \/ Calm
                    \/ \E r \in Records : PushCreate(r, FALSE)
                    \/ PushModify(FALSE)
  BY DEF EngineStep, StartPass, PushLookup, PushRefused, ReplaceId, Ack, UpsertReply,
     ReadLocal, Settle, PushDone, Delta, FullCursor, FullLists, FullQuery, ApplyLive,
     ReadTombstone, MarkTombstone, RefreshLists, Save
<1>5. FaultNext => \/ Calm
                   \/ \E r \in Records : PushCreate(r, TRUE)
                   \/ PushModify(TRUE)
  BY DEF FaultNext, Throw, Crash, CreateRefused
<1>6. UNCHANGED vars => Calm
  BY DEF vars
<1> HIDE DEF Calm, Wrote
<1>7. \/ Calm \/ Wrote
      \/ \E r \in Records, lost \in BOOLEAN : PushCreate(r, lost)
      \/ \E lost \in BOOLEAN : PushModify(lost)
  BY <1>1, <1>2, <1>3, <1>4, <1>5, <1>6 DEF Next, OtherNext
<1> QED
  BY <1>7 DEF Calm, Wrote

(* A write gives its record a new tag; a record keeps what it was born from, *)
(* never comes to be unwritten, and is removed for good once.                *)
LEMMA Writes ==
  ASSUME Typed, [Next]_vars, NEW r \in Records
  PROVE  /\ clock' \in Nat /\ clock <= clock'
         /\ \/ cloud'[r] = cloud[r]
            \/ /\ cloud[r].state \in {"none", "live"} /\ cloud'[r].state # "none"
               /\ cloud'[r].tag = clock + 1 /\ clock' = clock + 1
               /\ cloud[r].state = "none" => pc = "head" /\ pc' \in {"idle", "replace"}
<1> USE DEF Typed, TypeOK, CloudOK
<1>1. ASSUME NEW q \in Records, NEW s, NEW t, NEW d, NEW by, NEW b, s # "none",
             cloud[q].state \in {"none", "live"},
             cloud[q].state = "none" => pc = "head" /\ pc' \in {"idle", "replace"},
             clock' = clock + 1,
             cloud' = [cloud EXCEPT ![q] = Written(s, t, d, clock + 1, by, b)]
      PROVE  \/ cloud'[r] = cloud[r]
             \/ /\ cloud[r].state \in {"none", "live"} /\ cloud'[r].state # "none"
                /\ cloud'[r].tag = clock + 1 /\ clock' = clock + 1
                /\ cloud[r].state = "none" => pc = "head" /\ pc' \in {"idle", "replace"}
  <2>1. /\ Written(s, t, d, clock + 1, by, b).state = s
        /\ Written(s, t, d, clock + 1, by, b).tag = clock + 1
    BY DEF Written
  <2> QED
    BY <1>1, <2>1
<1>2. cloud' = cloud /\ clock' \in {clock, clock + 1} => clock' \in Nat /\ clock <= clock'
  OBVIOUS
<1>3. ASSUME NEW q \in Records, NEW t, NEW d, NEW s \in {"live", "erased"},
             OtherWrites(q, t, d, s)
      PROVE  \/ cloud'[r] = cloud[r]
             \/ /\ cloud[r].state \in {"none", "live"} /\ cloud'[r].state # "none"
                /\ cloud'[r].tag = clock + 1 /\ clock' = clock + 1
                /\ cloud[r].state = "none" => pc = "head" /\ pc' \in {"idle", "replace"}
  BY <1>1, <1>3 DEF OtherWrites
<1>4. ASSUME NEW q \in Records, NEW lost \in BOOLEAN, PushCreate(q, lost)
      PROVE  \/ cloud'[r] = cloud[r]
             \/ /\ cloud[r].state \in {"none", "live"} /\ cloud'[r].state # "none"
                /\ cloud'[r].tag = clock + 1 /\ clock' = clock + 1
                /\ cloud[r].state = "none" => pc = "head" /\ pc' \in {"idle", "replace"}
  BY <1>1, <1>4 DEF PushCreate, Received, Abort
<1>5. ASSUME NEW lost \in BOOLEAN, PushModify(lost)
      PROVE  \/ cloud'[r] = cloud[r]
             \/ /\ cloud[r].state \in {"none", "live"} /\ cloud'[r].state # "none"
                /\ cloud'[r].tag = clock + 1 /\ clock' = clock + 1
                /\ cloud[r].state = "none" => pc = "head" /\ pc' \in {"idle", "replace"}
  BY <1>1, <1>5 DEF PushModify, Upload
<1>6. clock' \in {clock, clock + 1}
  BY CloudSteps DEF OtherWrites, PushCreate, PushModify
<1> QED
  BY <1>3, <1>4, <1>5, <1>6, CloudSteps

-----------------------------------------------------------------------------
(* What a pass has downloaded is of records that exist, one version of each, *)
(* and what it takes for removed is removed.                                 *)
Downloaded ==
  /\ pc \notin {"apply", "tombstone"} => inbox = {}
  /\ \A x \in inbox : /\ cloud[x.id].state # "none"
                      /\ x.state = "erased" => cloud[x.id].state = "erased"
  /\ \A x, y \in inbox : x.id = y.id => x = y
  /\ pc = "tombstone" => /\ cloud[victim].state = "erased"
                         /\ \A x \in inbox : x.id # victim

(* Each download comes from the records as they are, and no record that     *)
(* exists comes to be unwritten.                                            *)
LEMMA StepDownloaded ==
  ASSUME Typed, Downloaded, [Next]_vars
  PROVE  Downloaded'
<1> USE DEF Typed, TypeOK
<1>0. \A r \in Records : /\ cloud[r].state # "none" => cloud'[r].state # "none"
                         /\ cloud[r].state = "erased" => cloud'[r].state = "erased"
  BY Writes
<1>1. \A x \in inbox : x.id \in Records
  BY ChangeTyped
<1>2. CASE UNCHANGED <<inbox, victim, pc>>
  BY <1>0, <1>1, <1>2 DEF Downloaded, Upload
<1>3. CASE inbox' = {} /\ pc' # "tombstone"
  BY <1>3 DEF Downloaded
<1>4. ASSUME NEW S \in SUBSET Records, \A r \in S : cloud[r].state # "none",
             inbox' = {Download(r) : r \in S}, pc' = "apply", cloud' = cloud
      PROVE  Downloaded'
  <2>1. \A r \in S : Download(r).id = r /\ Download(r).state = cloud[r].state
    BY DEF Download
  <2> QED
    BY <1>4, <2>1 DEF Downloaded
<1>5. UserNext \/ OtherNext \/ UNCHANGED vars => UNCHANGED <<inbox, victim, pc>>
  BY DEF UserNext, CreateReminder, UpdateReminder, DeleteReminder, RestoreReminder,
     KeepLocal, KeepRemote, OtherNext, OtherEdit, OtherDelete, OtherErase, OtherWrites,
     OtherList, vars, passVars
<1>6. CASE Delta
  <2> DEFINE S == {q \in Records : cloud[q].tag > cursor}
  <2>1. \A r \in S : cloud[r].state # "none"
    BY RecordTyped DEF Unborn, CacheOK, NoTag
  <2>2. inbox' = {Download(r) : r \in S} /\ pc' = "apply" /\ cloud' = cloud
    BY <1>6 DEF Delta, cloudVars
  <2> HIDE DEF S
  <2>3. S \in SUBSET Records
    BY DEF S
  <2> QED
    BY <1>4, <2>1, <2>2, <2>3
<1>7. CASE FullQuery
  <2> DEFINE S == {q \in Records : cloud[q].state = "live"}
  <2>1. \A r \in S : cloud[r].state # "none"
    OBVIOUS
  <2>2. inbox' = {Download(r) : r \in S} /\ pc' = "apply" /\ cloud' = cloud
    BY <1>7 DEF FullQuery, cloudVars
  <2> HIDE DEF S
  <2>3. S \in SUBSET Records
    BY DEF S
  <2> QED
    BY <1>4, <2>1, <2>2, <2>3
<1>8. ASSUME NEW x \in inbox, ApplyLive(x) PROVE Downloaded'
  BY <1>0, <1>1, <1>8 DEF ApplyLive, Downloaded
<1>9. ASSUME NEW x \in inbox, ReadTombstone(x) PROVE Downloaded'
  BY <1>0, <1>1, <1>9 DEF ReadTombstone, Downloaded
<1>10. CASE MarkTombstone
  BY <1>0, <1>1, <1>10 DEF MarkTombstone, Downloaded
<1>11. FaultNext => inbox' = {} /\ pc' # "tombstone"
  BY DEF FaultNext, PushCreate, PushModify, Received, Throw, Crash, CreateRefused, Abort,
     Forget, Downloaded
<1>12. CASE RefreshLists
  BY <1>0, <1>1, <1>12 DEF RefreshLists, Downloaded
<1>13. ASSUME EngineStep, ~Delta, ~FullQuery, ~MarkTombstone, ~RefreshLists,
              ~\E x \in inbox : ApplyLive(x) \/ ReadTombstone(x)
       PROVE  inbox' = {} /\ pc' # "tombstone"
  BY <1>13 DEF EngineStep, StartPass, PushCreate, PushLookup, PushModify, PushRefused,
     Received, Abort, Forget, ReplaceId, Ack, UpsertReply, ReadLocal, Settle, PushDone,
     FullCursor, FullLists, Save, Downloaded
<1> QED
  <2>1. CASE EngineStep
    BY <1>3, <1>6, <1>7, <1>8, <1>9, <1>10, <1>12, <1>13, <2>1
  <2> QED
    BY <1>2, <1>3, <1>5, <1>11, <2>1 DEF Next

-----------------------------------------------------------------------------
(* What iCloud has answered is about a record that exists, and a refusal is *)
(* about the record of the entry in hand.                                   *)
Answered ==
  /\ reply.id # NoId => cloud[reply.id].state # "none"
  /\ pc \in {"clash", "settle"} => reply.id \in {NoId, HeadItem.id}

(* Neither the user nor another device changes the entry in hand. *)
LEMMA SameHead ==
  ASSUME Typed, outbox # <<>>, UserNext \/ OtherNext \/ UNCHANGED vars
  PROVE  HeadItem' = HeadItem /\ outbox' # <<>>
<1> USE DEF Typed, TypeOK
<1>1. OtherNext \/ UNCHANGED vars => outbox' = outbox
  BY DEF OtherNext, OtherEdit, OtherDelete, OtherErase, OtherWrites, OtherList,
     vars, cacheVars
<1>2. UserNext =>
        \/ outbox' = outbox
        \/ \E id \in LocalIds : CreateReminder(id)
        \/ \E id \in Ids, o \in {"update", "delete"}, p \in Patch \ {NoPatch} :
             LocalChange(id, o, p)
  BY UserSteps
<1> QED
  BY <1>1, <1>2, CreateEffect, LocalChangeEffect DEF HeadItem

(* They do not touch the pass. *)
LEMMA SamePass ==
  ASSUME UserNext \/ OtherNext \/ UNCHANGED vars
  PROVE  UNCHANGED passVars /\ uploaded' = uploaded /\ faults' = faults /\ cursor' = cursor
BY DEF UserNext, CreateReminder, UpdateReminder, DeleteReminder, RestoreReminder,
     KeepLocal, KeepRemote, OtherNext, OtherEdit, OtherDelete, OtherErase, OtherWrites,
     OtherList, vars, cacheVars, history, envVars

(* Each answer is of a record that exists then.                             *)
LEMMA StepAnswered ==
  ASSUME Typed, Answered, [Next]_vars
  PROVE  Answered'
<1> USE DEF Typed, TypeOK
<1>0. \A r \in Records : cloud[r].state # "none" => cloud'[r].state # "none"
  BY Writes
<1>1. reply.id # NoId => reply.id \in Records
  BY ChangeTyped
<1>2. CASE reply' = reply /\ pc' \notin {"clash", "settle"}
  BY <1>0, <1>1, <1>2 DEF Answered
<1>3. CASE reply' = NoReply /\ pc' \notin {"clash", "settle"}
  BY <1>3 DEF Answered, NoReply
<1>4. ASSUME NEW r \in Records, NEW v, reply' = Answer(r, v), cloud'[r].state # "none",
             pc' \in {"clash", "settle"} => r = HeadItem'.id
      PROVE  Answered'
  BY <1>4 DEF Answered, Answer
<1>5. CASE UserNext \/ OtherNext \/ UNCHANGED vars
  BY <1>0, <1>1, <1>5, SamePass, SameHead DEF Answered, passVars, Upload
<1>6. ASSUME NEW r \in Records, NEW lost \in BOOLEAN, PushCreate(r, lost) PROVE Answered'
  <2>1. cloud'[r].state # "none"
    BY <1>6 DEF PushCreate, CloudOK, Written
  <2> QED
    BY <1>3, <1>4, <1>6, <2>1 DEF PushCreate, Received, Abort, Forget
<1>7. ASSUME NEW lost \in BOOLEAN, PushModify(lost) PROVE Answered'
  <2>1. reply.id \in Records /\ cloud'[reply.id].state # "none"
    BY <1>7 DEF PushModify, Upload, CloudOK, Written
  <2> QED
    BY <1>3, <1>4, <1>7, <2>1 DEF PushModify, Received, Abort, Forget
<1>8. CASE PushLookup
  <2>1. outbox' = outbox /\ cloud' = cloud
    BY <1>8 DEF PushLookup, cacheVars, cloudVars
  <2>2. CASE HeadItem.id \in Records /\ cloud[HeadItem.id].state = "live"
    <3>1. reply' = Answer(HeadItem.id, cloud[HeadItem.id]) /\ HeadItem' = HeadItem
      BY <1>8, <2>1, <2>2 DEF PushLookup, HeadItem
    <3> QED
      BY <1>4, <2>1, <2>2, <3>1
  <2>3. CASE ~(HeadItem.id \in Records /\ cloud[HeadItem.id].state = "live")
    BY <1>3, <1>8, <2>3 DEF PushLookup, Abort, Forget
  <2> QED
    BY <2>2, <2>3
<1>9. ASSUME NEW kind \in RaceReplies, PushRefused(kind) PROVE Answered'
  <2>1. /\ outbox' = outbox /\ cloud' = cloud /\ outbox # <<>>
        /\ reply.id \in Records /\ reply.id = HeadItem.id
    BY <1>9 DEF PushRefused, cacheVars, cloudVars, Upload
  <2>2. HeadItem' = HeadItem
    BY <2>1 DEF HeadItem
  <2>3. CASE cloud[reply.id].state = "live"
    <3>1. reply' = Refusal(reply.id, kind)
      BY <1>9, <2>3 DEF PushRefused, Received
    <3>2. Refusal(reply.id, kind).id \in {NoId, reply.id}
      BY RepliesAssumption DEF Refusal, Answer, NoReply
    <3> QED
      BY <2>1, <2>2, <2>3, <3>1, <3>2 DEF Answered
  <2>4. CASE cloud[reply.id].state # "live"
    BY <1>3, <1>9, <2>4 DEF PushRefused, Abort, Forget
  <2> QED
    BY <2>3, <2>4
<1>10. CASE ReadLocal
  BY <1>10 DEF ReadLocal, Answered, HeadItem, cacheVars, cloudVars
<1>11. CASE Throw \/ Crash
  BY <1>3, <1>11 DEF Throw, Crash, Abort, Forget
<1>15. CASE CreateRefused
  BY <1>15 DEF CreateRefused, Answered, NoReply
<1>12. ASSUME EngineStep, ~PushLookup, ~PushModify(FALSE), ~ReadLocal,
              ~\E r \in Records : PushCreate(r, FALSE),
              ~\E kind \in RaceReplies : PushRefused(kind)
       PROVE  reply' \in {reply, NoReply} /\ pc' \notin {"clash", "settle"}
  BY <1>12 DEF EngineStep, StartPass, ReplaceId, Ack, UpsertReply, Settle, PushDone,
     Delta, FullCursor, FullLists, FullQuery, ApplyLive, ReadTombstone, MarkTombstone,
     RefreshLists, Save, Forget
<1>13. CASE EngineStep
  BY <1>2, <1>3, <1>6, <1>7, <1>8, <1>9, <1>10, <1>12, <1>13
<1>14. CASE FaultNext
  BY <1>6, <1>7, <1>11, <1>14, <1>15 DEF FaultNext
<1> QED
  BY <1>5, <1>13, <1>14 DEF Next

-----------------------------------------------------------------------------
(* A record that does not exist has no row, and neither has one that has    *)
(* just been made and whose id the cache has yet to learn.                  *)
Known ==
  /\ \A r \in Records : cloud[r].state = "none" => ~rows[r].here
  /\ pc = "replace" => ~rows[reply.id].here

(* Rows come from downloads and answers, which are of records that exist.   *)
LEMMA StepKnown ==
  ASSUME Typed, Downloaded, Answered, Known, [Next]_vars
  PROVE  Known'
<1> USE DEF Typed, TypeOK
<1>0. \A r \in Records : cloud'[r].state = "none" => cloud[r].state = "none"
  BY Writes
<1>1. ASSUME NEW id \in Ids, cloud'[id].state # "none" \/ id \notin Records \/ rows[id].here,
             \A q \in Ids : rows'[q].here => rows[q].here \/ q = id
      PROVE  \A r \in Records : cloud'[r].state = "none" => ~rows'[r].here
  BY <1>0, <1>1 DEF Known, Ids
<1>2. \A r \in Records : cloud'[r].state = "none" => ~rows'[r].here
  <2>0. First \in Ids
    BY IdsAssumption DEF Ids
  <2>1. CASE UNCHANGED <<rows, outbox>>
    BY <1>0, <2>1 DEF Known
  <2>2. ASSUME NEW id \in LocalIds, CreateReminder(id)
        PROVE  \A r \in Records : cloud'[r].state = "none" => ~rows'[r].here
    BY <1>1, <2>2, CreateEffect, IdsAssumption
  <2>3. ASSUME NEW id \in Ids, NEW o \in {"update", "delete"}, NEW p \in Patch \ {NoPatch},
               LocalChange(id, o, p)
        PROVE  \A r \in Records : cloud'[r].state = "none" => ~rows'[r].here
    BY <1>1, <2>3, LocalChangeEffect
  <2>4. CASE ReplaceId
    <3>1. /\ rows' = ReplaceIdRows(rows, HeadItem.id, reply.id)
          /\ HeadItem.id \in Ids /\ reply.id \in Records /\ reply.id \in Ids
      BY <2>4, ReplaceIdEffect DEF ReplaceId, Upload
    <3> DEFINE old == HeadItem.id
               new == reply.id
    <3> HIDE DEF old, new
    <3>2. /\ \A q \in Ids \ {old, new} : rows'[q] = rows[q]
          /\ rows[old].here /\ old # new => rows'[old] = NoRow
          /\ ~rows[old].here \/ old = new => rows' = rows
      <4>1. rows' = ReplaceIdRows(rows, old, new) /\ old \in Ids /\ new \in Ids
        BY <3>1 DEF old, new
      <4> QED
        BY <4>1, ReplacedIdRows DEF CacheOK
    <3>3. ~NoRow.here
      BY DEF NoRow
    <3>4. cloud[new].state # "none" /\ cloud'[new].state # "none"
      BY <1>0, <3>1, IdsAssumption DEF Answered, Ids, new
    <3>5. \A q \in Ids : rows'[q].here => rows[q].here \/ q = new
      BY <3>2, <3>3
    <3> QED
      BY <1>1, <3>1, <3>4, <3>5 DEF new
  <2>5. CASE Ack
    <3>0. /\ rows' = AcknowledgeRows(rows, outbox, reply.id, reply.tag)
          /\ reply.id \in Ids /\ reply.tag \in Nat
      BY <2>5, AckEffect
    <3>1. \A q \in Ids : rows'[q].here => rows[q].here
      BY <3>0, AcknowledgedKept DEF CacheOK
    <3> QED
      BY <1>0, <3>1 DEF Known, Ids
  <2>6. CASE UpsertReply
    <3>1. reply.id \in Records /\ reply.id \in Ids /\ rows' = Upsert(rows, reply.id, reply)
      BY <2>6 DEF UpsertReply, Upload, Ids
    <3>2. \A q \in Ids : rows'[q].here => rows[q].here \/ q = reply.id
      BY <3>1, ChangeTyped, UpsertRows DEF CacheOK
    <3>3. cloud[reply.id].state # "none"
      BY <3>1, IdsAssumption DEF Answered
    <3> QED
      BY <1>0, <1>1, <3>1, <3>2, <3>3
  <2>7. CASE Settle
    <3>1. CASE rows' = rows
      BY <1>0, <3>1 DEF Known
    <3>2. ASSUME reply.id \in Ids, NEW mid \in [Ids -> Row],
                 \A q \in Ids \ {HeadItem.id} : mid[q] = rows[q],
                 mid[HeadItem.id].here = rows[HeadItem.id].here,
                 rows' = Upsert(mid, reply.id, reply)
          PROVE  \A r \in Records : cloud'[r].state = "none" => ~rows'[r].here
      <4>1. \A q \in Ids : rows'[q].here => rows[q].here \/ q = reply.id
        BY <3>2, ChangeTyped, UpsertRows
      <4>2. reply.id # NoId /\ reply.id \in Records
        BY <3>2, ChangeTyped, IdsAssumption DEF Ids
      <4>3. cloud[reply.id].state # "none"
        BY <4>2 DEF Answered
      <4> QED
        BY <1>0, <1>1, <3>2, <4>1, <4>2, <4>3
    <3> QED
      BY <2>7, <3>1, <3>2, SettleEffect
  <2>8. ASSUME NEW x \in inbox, ApplyLive(x)
        PROVE  \A r \in Records : cloud'[r].state = "none" => ~rows'[r].here
    <3>1. x.id \in Records /\ x.id \in Ids /\ rows' = Upsert(rows, x.id, x)
      BY <2>8, ChangeTyped DEF ApplyLive
    <3>2. \A q \in Ids : rows'[q].here => rows[q].here \/ q = x.id
      BY <3>1, ChangeTyped, UpsertRows DEF CacheOK
    <3> QED
      BY <1>0, <1>1, <3>1, <3>2 DEF Downloaded
  <2>9. CASE MarkTombstone
    <3>1. victim \in Ids /\ SetDeleted("set") \in Patch
      BY <2>9, Constants DEF MarkTombstone, Upload, Ids, Marks
    <3>2. PICK d \in BOOLEAN : d = FALSE
      OBVIOUS
    <3>3. rows' = Edit(rows, victim, SetDeleted("set"), d)
      BY <2>9, <3>2, Zenon DEF MarkTombstone
    <3>4. /\ \A q \in Ids \ {victim} : rows'[q] = rows[q]
          /\ rows'[victim].here = rows[victim].here
      BY <3>1, <3>3, EditRows DEF CacheOK
    <3>5. \A q \in Ids : rows'[q].here => rows[q].here
      BY <3>4
    <3> QED
      BY <1>0, <3>5 DEF Known, Ids
  <2> QED
    BY <2>1, <2>2, <2>3, <2>4, <2>5, <2>6, <2>7, <2>8, <2>9, CacheSteps
<1>3. pc' = "replace" => ~rows'[reply'.id].here
  <2>1. CASE UserNext
    <3>1. pc = "replace" /\ rows' # rows =>
            \/ \E id \in LocalIds : CreateReminder(id)
            \/ \E id \in Ids, o \in {"update", "delete"}, p \in Patch \ {NoPatch} :
                 LocalChange(id, o, p)
      BY <2>1, UserSteps
    <3>2. pc = "replace" => reply.id \in Records /\ reply.id \in Ids /\ reply.id \notin LocalIds
      BY IdsAssumption DEF Upload, Ids
    <3>3. \A id \in LocalIds : CreateReminder(id) =>
            \A q \in Ids \ {id} : rows'[q] = rows[q]
      BY CreateEffect
    <3>4. \A id \in Ids, o \in {"update", "delete"}, p \in Patch \ {NoPatch} :
            LocalChange(id, o, p) => rows[id].here /\ \A q \in Ids \ {id} : rows'[q] = rows[q]
      BY LocalChangeEffect
    <3> QED
      BY <2>1, <3>1, <3>2, <3>3, <3>4, SamePass DEF passVars, Known
  <2>2. CASE OtherNext \/ UNCHANGED vars
    <3>1. rows' = rows
      BY <2>2 DEF OtherNext, OtherEdit, OtherDelete, OtherErase, OtherWrites, OtherList,
         vars, cacheVars
    <3>2. pc' = pc /\ reply' = reply
      BY <2>2, SamePass DEF passVars
    <3> QED
      BY <3>1, <3>2 DEF Known
  <2>3. ASSUME NEW r \in Records, NEW lost \in BOOLEAN, PushCreate(r, lost)
        PROVE  pc' = "replace" => ~rows'[reply'.id].here
    <3>1. ~rows[r].here /\ rows' = rows
      BY <2>3 DEF PushCreate, Known, cacheVars
    <3>2. pc' = "idle" \/ reply' = Answer(r, cloud'[r])
      BY <2>3 DEF PushCreate, Received, Abort
    <3> QED
      BY <3>1, <3>2 DEF Answer
  <2>4. ASSUME EngineStep \/ FaultNext,
               ~\E r \in Records, lost \in BOOLEAN : PushCreate(r, lost)
        PROVE  pc' # "replace"
    BY <2>4 DEF EngineStep, FaultNext, StartPass, PushLookup, PushModify, PushRefused,
       Received, Abort, ReplaceId, Ack, UpsertReply, ReadLocal, Settle, PushDone, Delta,
       FullCursor, FullLists, FullQuery, ApplyLive, ReadTombstone, MarkTombstone,
       RefreshLists, Save, Throw, Crash, CreateRefused
  <2> QED
    BY <2>1, <2>2, <2>3, <2>4 DEF Next
<1> QED
  BY <1>2, <1>3 DEF Known

-----------------------------------------------------------------------------
(* What the remaining steps do to a row, given what a pass knows.           *)

(* A conflict that is settled changes the row of the entry alone, and only  *)
(* when the reminder has no later entry: the row then shows the answer.     *)
LEMMA SettleOutcome ==
  ASSUME Typed, Answered, Settle
  PROVE  /\ outbox # <<>> /\ outbox' = Tail(outbox) /\ HeadItem.id \in Ids
         /\ \A q \in Ids \ {HeadItem.id} : rows'[q] = rows[q]
         /\ \/ rows' = rows
            \/ /\ ~Pending(Tail(outbox), HeadItem.id)
               /\ reply.id = HeadItem.id /\ reply.id \in Records
               /\ rows'[HeadItem.id].here /\ ~rows'[HeadItem.id].dirty
               /\ rows'[HeadItem.id].title = reply.title
               /\ rows'[HeadItem.id].deleted = reply.deleted
               /\ rows'[HeadItem.id].tag = reply.tag
<1> USE DEF Typed, TypeOK
<1>1. /\ outbox # <<>> /\ outbox' = Tail(outbox) /\ HeadItem.id \in Ids
      /\ reply.id \in {NoId, HeadItem.id}
  BY SettleEffect DEF Answered, Settle
<1>2. ASSUME reply.id \in Ids, ~Pending(Tail(outbox), HeadItem.id),
             NEW mid \in [Ids -> Row],
             \A q \in Ids \ {HeadItem.id} : mid[q] = rows[q],
             mid[HeadItem.id].dirty = FALSE,
             rows' = Upsert(mid, reply.id, reply)
      PROVE  /\ reply.id = HeadItem.id /\ reply.id \in Records
             /\ \A q \in Ids \ {HeadItem.id} : rows'[q] = rows[q]
             /\ rows'[HeadItem.id].here /\ ~rows'[HeadItem.id].dirty
             /\ rows'[HeadItem.id].title = reply.title
             /\ rows'[HeadItem.id].deleted = reply.deleted
             /\ rows'[HeadItem.id].tag = reply.tag
  <2>1. reply.id = HeadItem.id /\ reply.id \in Records
    BY <1>1, <1>2, ChangeTyped, IdsAssumption DEF Ids
  <2>2. \A q \in Ids \ {reply.id} : rows'[q] = mid[q]
    BY <1>2, ChangeTyped, UpsertRows
  <2>3. ~mid[reply.id].dirty
    BY <1>2, <2>1
  <2>4. /\ rows'[reply.id].here /\ ~rows'[reply.id].dirty
        /\ rows'[reply.id].title = reply.title
        /\ rows'[reply.id].deleted = reply.deleted
        /\ rows'[reply.id].tag = reply.tag
    BY <1>2, <2>3, UpsertShows
  <2> QED
    BY <1>2, <2>1, <2>2, <2>4
<1> QED
  BY <1>1, <1>2, SettleEffect

-----------------------------------------------------------------------------
(* A new id is taken over for a create; and a create that has been given an *)
(* id and lost the acknowledgement is uploaded again before anything is     *)
(* downloaded.                                                              *)
Pulling == {"pull", "lists", "query", "apply", "tombstone"}

Recreated ==
  /\ pc = "replace" => HeadItem.op = "create"
  /\ \A i \in 1..Len(outbox) :
       outbox[i].op = "create" /\ outbox[i].id \in Records => pc \notin Pulling

(* The push goes on until the outbox is empty, so that no create with an id *)
(* is left behind.                                                          *)
LEMMA StepRecreated ==
  ASSUME Typed, Answered, Recreated, [Next]_vars
  PROVE  Recreated'
<1> USE DEF Typed, TypeOK
<1> DEFINE Held(o) == \A i \in 1..Len(o) :
                        o[i].op = "create" /\ o[i].id \in Records => pc \notin Pulling
<1>1. ASSUME pc' \in Pulling => pc \in Pulling \/ outbox' = <<>>,
             \A i \in 1..Len(outbox') :
               outbox'[i].op = "create" /\ outbox'[i].id \in Records =>
                 \E j \in 1..Len(outbox) : outbox[j].op = "create" /\ outbox[j].id \in Records
      PROVE  \A i \in 1..Len(outbox') :
               outbox'[i].op = "create" /\ outbox'[i].id \in Records => pc' \notin Pulling
  BY <1>1 DEF Recreated
<1>2. CASE UserNext
  <2>1. pc' = pc
    BY <1>2, SamePass DEF passVars
  <2>2. pc = "replace" => HeadItem' = HeadItem
    BY <1>2, SameHead DEF Upload
  <2>3. CASE outbox' = outbox
    BY <2>1, <2>2, <2>3 DEF Recreated
  <2>4. ASSUME NEW id \in LocalIds, CreateReminder(id) PROVE Recreated'
    <3>1. /\ Len(outbox') = Len(outbox) + 1
          /\ \A i \in 1..Len(outbox) : outbox'[i] = outbox[i]
          /\ outbox'[Len(outbox) + 1].id = id
      BY <2>4, CreateEffect
    <3>2. Len(outbox) \in Nat /\ id \notin Records
      BY IdsAssumption DEF CacheOK
    <3> QED
      BY <1>1, <2>1, <2>2, <3>1, <3>2 DEF Recreated
  <2>5. ASSUME NEW id \in Ids, NEW o \in {"update", "delete"}, NEW p \in Patch \ {NoPatch},
               LocalChange(id, o, p)
        PROVE  Recreated'
    <3>1. /\ Len(outbox') = Len(outbox) + 1
          /\ \A i \in 1..Len(outbox) : outbox'[i] = outbox[i]
          /\ outbox'[Len(outbox) + 1].op = o
      BY <2>5, LocalChangeEffect
    <3>2. Len(outbox) \in Nat
      BY DEF CacheOK
    <3> QED
      BY <1>1, <2>1, <2>2, <3>1, <3>2 DEF Recreated
  <2> QED
    BY <1>2, <2>3, <2>4, <2>5, UserSteps
<1>3. CASE OtherNext \/ UNCHANGED vars
  <2>1. outbox' = outbox
    BY <1>3 DEF OtherNext, OtherEdit, OtherDelete, OtherErase, OtherWrites, OtherList,
       vars, cacheVars
  <2>2. pc' = pc
    BY <1>3, SamePass DEF passVars
  <2> QED
    BY <2>1, <2>2 DEF Recreated, HeadItem
<1>4. CASE ReplaceId
  BY <1>4 DEF ReplaceId, Recreated, Pulling
<1>5. CASE Ack \/ Settle
  BY <1>5 DEF Ack, Settle, Recreated, Pulling
<1>6. ASSUME NEW r \in Records, NEW lost \in BOOLEAN, PushCreate(r, lost)
      PROVE  Recreated'
  BY <1>6 DEF PushCreate, Received, Abort, Recreated, Pulling, HeadItem, cacheVars
<1>7. ASSUME EngineStep \/ FaultNext, ~ReplaceId, ~Ack, ~Settle,
             ~\E r \in Records, lost \in BOOLEAN : PushCreate(r, lost)
      PROVE  /\ outbox' = outbox /\ pc' # "replace"
             /\ pc' \in Pulling => pc \in Pulling \/ outbox' = <<>>
  BY <1>7 DEF EngineStep, FaultNext, StartPass, PushLookup, PushModify, PushRefused,
     Received, Abort, UpsertReply, ReadLocal, PushDone, Delta, FullCursor, FullLists,
     FullQuery, ApplyLive, ReadTombstone, MarkTombstone, RefreshLists, Save, Throw, Crash, CreateRefused,
     cacheVars, Pulling
<1>8. CASE EngineStep \/ FaultNext
  <2>1. CASE ~ReplaceId /\ ~Ack /\ ~Settle
             /\ ~\E r \in Records, lost \in BOOLEAN : PushCreate(r, lost)
    BY <1>1, <1>7, <1>8, <2>1 DEF Recreated
  <2> QED
    BY <1>4, <1>5, <1>6, <2>1
<1> QED
  BY <1>2, <1>3, <1>8 DEF Next

-----------------------------------------------------------------------------
(* An entry's row is dirty, or its record has been removed for good and     *)
(* nothing that could overwrite the row is under way.                       *)
Gone(id) ==
  /\ id \in Records /\ cloud[id].state = "erased"
  /\ \A x \in inbox : x.id = id => x.state = "erased"
  /\ pc = "upsert" => reply.id # id
  /\ \A i \in 1..Len(outbox) : outbox[i].id = id => outbox[i].op # "create"

(* The inductive form of PendingIsDirty where records may be removed for    *)
(* good.                                                                    *)
Shown ==
  \A id \in Ids : Pending(outbox, id) => rows[id].here /\ (rows[id].dirty \/ Gone(id))

(* A record that is gone stays so. *)
LEMMA GoneStays ==
  ASSUME Typed, Answered, Known, Shown, [Next]_vars,
         NEW id \in Ids, Pending(outbox, id), Gone(id), ~(Ack /\ reply.id = id)
  PROVE  Gone(id)'
<1> USE DEF Typed, TypeOK
<1>1. id \in Records /\ cloud'[id].state = "erased"
  BY Writes DEF Gone
<1>2. \A x \in inbox' : x.id = id => x.state = "erased"
  <2>1. CASE inbox' \subseteq inbox
    BY <2>1 DEF Gone
  <2>2. ASSUME NEW S \in SUBSET Records, inbox' = {Download(r) : r \in S}
        PROVE  \A x \in inbox' : x.id = id => x.state = "erased"
    BY <2>2 DEF Download, Gone
  <2>3. CASE Delta
    <3> DEFINE S == {q \in Records : cloud[q].tag > cursor}
    <3>1. inbox' = {Download(r) : r \in S}
      BY <2>3 DEF Delta
    <3>2. S \in SUBSET Records
      OBVIOUS
    <3> HIDE DEF S
    <3> QED
      BY <2>2, <3>1, <3>2
  <2>4. CASE FullQuery
    <3> DEFINE S == {q \in Records : cloud[q].state = "live"}
    <3>1. inbox' = {Download(r) : r \in S}
      BY <2>4 DEF FullQuery
    <3>2. S \in SUBSET Records
      OBVIOUS
    <3> HIDE DEF S
    <3> QED
      BY <2>2, <3>1, <3>2
  <2>5. ASSUME ~Delta, ~FullQuery PROVE inbox' \subseteq inbox
    <3>1. UserNext \/ OtherNext \/ UNCHANGED vars => inbox' = inbox
      BY SamePass DEF passVars
    <3>2. Forget => inbox' = {}
      BY DEF Forget
    <3>3. EngineStep \/ FaultNext => inbox' \subseteq inbox
      BY <2>5, <3>2 DEF EngineStep, FaultNext, StartPass, PushCreate, PushLookup,
         PushModify, PushRefused, Received, Abort, ReplaceId, Ack, UpsertReply, ReadLocal,
         Settle, PushDone, FullCursor, FullLists, ApplyLive, ReadTombstone, MarkTombstone,
         RefreshLists, Save, Throw, Crash, CreateRefused
    <3> QED
      BY <3>1, <3>3 DEF Next
  <2> QED
    BY <2>1, <2>3, <2>4, <2>5
<1>3. pc' = "upsert" => reply'.id # id
  <2>1. CASE UserNext \/ OtherNext \/ UNCHANGED vars
    <3>1. pc' = pc /\ reply' = reply
      BY <2>1, SamePass DEF passVars
    <3> QED
      BY <3>1 DEF Gone
  <2>2. CASE Ack
    BY <2>2 DEF Ack
  <2>3. ASSUME EngineStep \/ FaultNext, ~Ack PROVE pc' # "upsert"
    BY <2>3 DEF EngineStep, FaultNext, StartPass, PushCreate, PushLookup,
         PushModify, PushRefused, Received, Abort, ReplaceId, UpsertReply, ReadLocal,
         Settle, PushDone, Delta, FullCursor, FullLists, FullQuery, ApplyLive,
         ReadTombstone, MarkTombstone, RefreshLists, Save, Throw, Crash, CreateRefused
  <2> QED
    BY <2>1, <2>2, <2>3 DEF Next
<1>4. \A i \in 1..Len(outbox') : outbox'[i].id = id => outbox'[i].op # "create"
  <2>0. Len(outbox) \in Nat /\ \A i \in 1..Len(outbox) : outbox[i].id = id => outbox[i].op # "create"
    BY DEF Gone, CacheOK
  <2>1. CASE outbox' = outbox
    BY <2>0, <2>1
  <2>2. ASSUME NEW q \in LocalIds, CreateReminder(q)
        PROVE  \A i \in 1..Len(outbox') : outbox'[i].id = id => outbox'[i].op # "create"
    <3>1. /\ Len(outbox') = Len(outbox) + 1
          /\ \A i \in 1..Len(outbox) : outbox'[i] = outbox[i]
          /\ outbox'[Len(outbox) + 1].id = q
      BY <2>2, CreateEffect
    <3>2. q # id
      BY <1>1, IdsAssumption
    <3> QED
      BY <2>0, <3>1, <3>2
  <2>3. ASSUME NEW q \in Ids, NEW o \in {"update", "delete"}, NEW p \in Patch \ {NoPatch},
               LocalChange(q, o, p)
        PROVE  \A i \in 1..Len(outbox') : outbox'[i].id = id => outbox'[i].op # "create"
    <3>1. /\ Len(outbox') = Len(outbox) + 1
          /\ \A i \in 1..Len(outbox) : outbox'[i] = outbox[i]
          /\ outbox'[Len(outbox) + 1].op = o
      BY <2>3, LocalChangeEffect
    <3> QED
      BY <2>0, <3>1
  <2>4. CASE ReplaceId
    <3>1. /\ outbox' = ReplaceIdOutbox(outbox, HeadItem.id, reply.id)
          /\ HeadItem.id \in Ids /\ reply.id \in Ids
      BY <2>4, ReplaceIdEffect
    <3>2. reply.id # id
      BY <2>4 DEF ReplaceId, Known, Shown
    <3>3. outbox \in Seq(Item(Ids))
      BY DEF CacheOK
    <3>4. /\ Len(outbox') = Len(outbox)
          /\ \A i \in 1..Len(outbox) :
               /\ outbox'[i].id = IF outbox[i].id = HeadItem.id THEN reply.id ELSE outbox[i].id
               /\ outbox'[i].op = outbox[i].op
      BY <3>1, <3>3, ReplaceIdEntries
    <3>5. \A i \in 1..Len(outbox) : outbox'[i].id = id => outbox[i].id = id
      BY <3>2, <3>4
    <3> QED
      BY <2>0, <3>4, <3>5
  <2>5. CASE Ack \/ Settle
    <3>1. Shifted(outbox, outbox')
      BY <2>5, AckEffect, SettleEffect, TailShifts, AcknowledgeShifts DEF CacheOK
    <3> QED
      BY <2>0, <3>1 DEF Shifted
  <2>6. \/ outbox' = outbox \/ ReplaceId \/ Ack \/ Settle
        \/ \E q \in LocalIds : CreateReminder(q)
        \/ \E q \in Ids, o \in {"update", "delete"}, p \in Patch \ {NoPatch} :
             LocalChange(q, o, p)
    BY CacheSteps DEF UpsertReply, ApplyLive, MarkTombstone
  <2> QED
    BY <2>1, <2>2, <2>3, <2>4, <2>5, <2>6
<1> QED
  BY <1>1, <1>2, <1>3, <1>4 DEF Gone

(* Only an acknowledgement that is followed by no entry cleans a row.       *)
LEMMA StepShown ==
  ASSUME Typed, Downloaded, Answered, Known, Recreated, Shown, [Next]_vars
  PROVE  Shown'
<1> USE DEF Typed, TypeOK
<1> DEFINE Fine(id) == rows'[id].here /\ (rows'[id].dirty \/ Gone(id)')
<1>1. ASSUME NEW id \in Ids, Pending(outbox, id), rows'[id] = rows[id],
             ~(Ack /\ reply.id = id)
      PROVE  Fine(id)
  BY <1>1, GoneStays DEF Shown
<1> SUFFICES ASSUME NEW id \in Ids, Pending(outbox', id) PROVE Fine(id)
  BY DEF Shown
<1> HIDE DEF Fine
<1>2. CASE UNCHANGED <<rows, outbox>> /\ ~Ack
  BY <1>1, <1>2
<1>3. ASSUME NEW q \in LocalIds, CreateReminder(q) PROVE Fine(id)
  <2>1. /\ Pending(outbox, id) \/ id = q
        /\ rows'[q].here /\ rows'[q].dirty
        /\ id # q => rows'[id] = rows[id]
    BY <1>3, CreateEffect
  <2>2. ~Ack
    BY <1>3 DEF CreateReminder, passVars, Ack
  <2> QED
    BY <1>1, <2>1, <2>2 DEF Fine
<1>4. ASSUME NEW q \in Ids, NEW o \in {"update", "delete"}, NEW p \in Patch \ {NoPatch},
             LocalChange(q, o, p)
      PROVE  Fine(id)
  <2>1. /\ Pending(outbox, id) \/ id = q
        /\ rows'[q].here /\ rows'[q].dirty
        /\ id # q => rows'[id] = rows[id]
    BY <1>4, LocalChangeEffect
  <2>2. ~Ack
    <3>1. Len(outbox') = Len(outbox) + 1
      BY <1>4, LocalChangeEffect
    <3>2. Ack => Len(outbox') = Len(outbox) - 1
      BY AckEffect, AcknowledgeShifts DEF CacheOK, Shifted
    <3>3. Len(outbox) \in Nat
      BY DEF CacheOK
    <3> QED
      BY <3>1, <3>2, <3>3
  <2> QED
    BY <1>1, <2>1, <2>2 DEF Fine
<1>5. CASE ReplaceId
  <2> DEFINE old == HeadItem.id
             new == reply.id
  <2>1. /\ rows' = ReplaceIdRows(rows, old, new) /\ old \in Ids /\ new \in Ids
        /\ outbox' = ReplaceIdOutbox(outbox, old, new)
    BY <1>5, ReplaceIdEffect
  <2>2. Pending(outbox, old) /\ ~Pending(outbox, new) /\ ~rows[new].here
    BY <1>5, <2>1, PendingTail DEF ReplaceId, Upload, CacheOK, HeadItem, Known, Shown
  <2>3. rows[old].here /\ rows[old].dirty
    <3>1. HeadItem = outbox[1] /\ 1 \in 1..Len(outbox) /\ HeadItem.op = "create"
      BY <1>5, HeadTyped DEF ReplaceId, Upload, Recreated
    <3> QED
      BY <2>1, <2>2, <3>1 DEF Shown, Gone
  <2>4. ~Ack
    BY <1>5 DEF ReplaceId, Ack
  <2> HIDE DEF old, new
  <2>5. /\ \A q \in Ids \ {old, new} : rows'[q] = rows[q]
        /\ rows[old].here /\ old # new => rows'[new] = rows[old]
    BY <2>1, ReplacedIdRows DEF CacheOK
  <2>6. id = new \/ (id # old /\ id # new /\ Pending(outbox, id))
    BY <2>1, PendingReplaceId DEF CacheOK
  <2> QED
    BY <1>1, <2>2, <2>3, <2>4, <2>5, <2>6 DEF Fine
<1>6. CASE Ack
  <2>1. /\ outbox # <<>> /\ HeadItem.id = reply.id /\ reply.id \in Ids
        /\ rows' = AcknowledgeRows(rows, outbox, reply.id, reply.tag)
        /\ outbox' = Rebase(Tail(outbox), reply.id, reply.tag)
        /\ Tail(outbox) \in Seq(Item(Ids)) /\ reply.tag \in Nat
    BY <1>6, AckEffect
  <2>2. Pending(Tail(outbox), id) /\ Pending(outbox, id)
    BY <2>1, PendingRebase, PendingTail DEF CacheOK
  <2>3. CASE id = reply.id
    <3>1. rows[id].here
      BY <2>2 DEF Shown
    <3>2. rows'[id].here
      BY <2>1, <3>1, AcknowledgedKept DEF CacheOK
    <3>3. rows'[id].dirty
      BY <2>1, <2>2, <2>3, <3>1, AcknowledgedDirty DEF CacheOK
    <3> QED
      BY <3>2, <3>3 DEF Fine
  <2>4. CASE id # reply.id
    <3>1. rows'[id] = rows[id]
      BY <2>1, <2>4 DEF AcknowledgeRows, CacheOK
    <3> QED
      BY <1>1, <2>2, <2>4, <3>1
  <2> QED
    BY <2>3, <2>4
<1>7. CASE UpsertReply
  <2>1. /\ reply.id \in Ids /\ rows' = Upsert(rows, reply.id, reply) /\ outbox' = outbox
        /\ ~Ack
    BY <1>7 DEF UpsertReply, Upload, Ids, Ack
  <2>2. /\ \A q \in Ids \ {reply.id} : rows'[q] = rows[q]
        /\ rows[reply.id].dirty => rows'[reply.id] = rows[reply.id]
    BY <2>1, ChangeTyped, UpsertRows DEF CacheOK
  <2>3. id = reply.id => rows[id].dirty
    BY <1>7, <2>1 DEF Shown, Gone, UpsertReply
  <2> QED
    BY <1>1, <2>1, <2>2, <2>3
<1>8. CASE Settle
  <2>1. /\ outbox # <<>> /\ outbox' = Tail(outbox)
        /\ \A q \in Ids \ {HeadItem.id} : rows'[q] = rows[q]
        /\ rows' = rows \/ ~Pending(Tail(outbox), HeadItem.id)
        /\ ~Ack
    BY <1>8, SettleOutcome DEF Settle, Ack
  <2>2. Pending(outbox, id)
    BY <2>1, PendingTail DEF CacheOK
  <2> QED
    BY <1>1, <2>1, <2>2
<1>9. ASSUME NEW x \in inbox, ApplyLive(x) PROVE Fine(id)
  <2>1. /\ x.id \in Ids /\ rows' = Upsert(rows, x.id, x) /\ outbox' = outbox
        /\ x.state = "live" /\ ~Ack
    BY <1>9, ChangeTyped DEF ApplyLive, Ack
  <2>2. /\ \A q \in Ids \ {x.id} : rows'[q] = rows[q]
        /\ rows[x.id].dirty => rows'[x.id] = rows[x.id]
    BY <2>1, ChangeTyped, UpsertRows DEF CacheOK
  <2>3. id = x.id => rows[id].dirty
    BY <2>1 DEF Shown, Gone
  <2> QED
    BY <1>1, <2>1, <2>2, <2>3
<1>10. CASE MarkTombstone
  <2>1. /\ victim \in Ids /\ victim \in Records /\ outbox' = outbox
        /\ SetDeleted("set") \in Patch /\ ~Ack
    BY <1>10, Constants DEF MarkTombstone, Upload, Ids, Marks, Ack
  <2>2. PICK d \in BOOLEAN : d = FALSE
    OBVIOUS
  <2>3. rows' = Edit(rows, victim, SetDeleted("set"), d)
    BY <1>10, <2>2, Zenon DEF MarkTombstone
  <2>4. /\ \A q \in Ids \ {victim} : rows'[q] = rows[q]
        /\ rows'[victim].here = rows[victim].here
    BY <2>1, <2>3, EditRows DEF CacheOK
  <2>5. CASE id # victim
    BY <1>1, <2>1, <2>4, <2>5
  <2>6. CASE id = victim
    <3>1. rows'[id].here
      BY <2>1, <2>4, <2>6 DEF Shown
    <3>2. /\ cloud'[victim].state = "erased"
          /\ \A x \in inbox' : x.id # victim
          /\ pc' = "apply"
      BY <1>10 DEF MarkTombstone, Downloaded, cloudVars
    <3>3. \A i \in 1..Len(outbox) : outbox[i].id = victim => outbox[i].op # "create"
      BY <1>10, <2>1 DEF MarkTombstone, Recreated, Pulling
    <3>4. Gone(id)'
      BY <2>1, <2>6, <3>2, <3>3 DEF Gone
    <3> QED
      BY <2>6, <3>1, <3>4 DEF Fine
  <2> QED
    BY <2>5, <2>6
<1> QED
  BY <1>2, <1>3, <1>4, <1>5, <1>6, <1>7, <1>8, <1>9, <1>10, CacheSteps

-----------------------------------------------------------------------------
(* Of all steps only these touch the outbox or the texts the user gave. *)
LEMMA OutboxSteps ==
  ASSUME Typed, [Next]_vars
  PROVE  \/ UNCHANGED <<outbox, wish>>
         \/ \E q \in LocalIds : CreateReminder(q)
         \/ \E q \in Ids, o \in {"update", "delete"}, p \in Patch \ {NoPatch} :
              LocalChange(q, o, p) /\ (o = "delete" => p.title = NoText)
         \/ ReplaceId
         \/ (Ack \/ Settle) /\ wish' = wish
<1> DEFINE Edited == \E q \in Ids, o \in {"update", "delete"}, p \in Patch \ {NoPatch} :
                       LocalChange(q, o, p) /\ (o = "delete" => p.title = NoText)
<1>1. UserNext => \/ UNCHANGED <<outbox, wish>> \/ (\E q \in LocalIds : CreateReminder(q))
                  \/ Edited
  <2>1. ASSUME UNCHANGED <<rows, outbox, wish>> PROVE UNCHANGED <<outbox, wish>>
    BY <2>1
  <2> QED
    BY <2>1, UserSteps, Zenon DEF Edited
<1> HIDE DEF Edited
<1>2. OtherNext => UNCHANGED <<outbox, wish>>
  BY DEF OtherNext, OtherEdit, OtherDelete, OtherErase, OtherWrites, OtherList, history,
     cacheVars
<1>3. FaultNext => UNCHANGED <<outbox, wish>>
  BY DEF FaultNext, PushCreate, PushModify, Throw, Crash, CreateRefused, history, cacheVars
<1>4. EngineStep => \/ UNCHANGED <<outbox, wish>> \/ ReplaceId
                    \/ (Ack \/ Settle) /\ wish' = wish
  BY DEF EngineStep, StartPass, PushCreate, PushLookup, PushModify, PushRefused,
     Ack, UpsertReply, ReadLocal, Settle, PushDone, Delta, FullCursor,
     FullLists, FullQuery, ApplyLive, ReadTombstone, MarkTombstone, RefreshLists, Save,
     history, cacheVars
<1>5. UNCHANGED vars => UNCHANGED <<outbox, wish>>
  BY DEF vars, history, cacheVars
<1> HIDE DEF Edited
<1>6. \/ UNCHANGED <<outbox, wish>> \/ (\E q \in LocalIds : CreateReminder(q)) \/ Edited
      \/ ReplaceId
      \/ (Ack \/ Settle) /\ wish' = wish
  BY <1>1, <1>2, <1>3, <1>4, <1>5, Zenon DEF Next
<1>7. Edited => \E q \in Ids, o \in {"update", "delete"}, p \in Patch \ {NoPatch} :
                  LocalChange(q, o, p) /\ (o = "delete" => p.title = NoText)
  BY Zenon DEF Edited
<1>8. CASE Edited
  BY <1>7, <1>8, Zenon
<1> QED
  BY <1>6, <1>8

(* The last text of a reminder in the outbox is the one its row shows and   *)
(* the one the user gave it last.                                           *)
Latest ==
  \A id \in Ids : \A i \in 1..Len(outbox) : LastIn(outbox, id, i) =>
    outbox[i].patch.title = rows[id].title /\ outbox[i].patch.title = wish[id]

(* Every edit writes the row and the entry together, and what overwrites a  *)
(* row finds it dirty while an entry waits.                                 *)
LEMMA StepLatest ==
  ASSUME Typed, Answered, Known, Shown, Latest, [Next]_vars
  PROVE  Latest'
<1> USE DEF Typed, TypeOK
<1> SUFFICES ASSUME NEW id \in Ids, NEW i \in 1..Len(outbox'), LastIn(outbox', id, i)
             PROVE  outbox'[i].patch.title = rows'[id].title
                    /\ outbox'[i].patch.title = wish'[id]
  BY DEF Latest
<1>1. \/ wish' = wish \/ ReplaceId
      \/ \E q \in LocalIds : CreateReminder(q)
      \/ \E q \in Ids, o \in {"update", "delete"}, p \in Patch \ {NoPatch} :
           LocalChange(q, o, p) /\ (o = "delete" => p.title = NoText)
  BY OutboxSteps
<1>2. ASSUME wish' = wish, NEW j \in 1..Len(outbox), LastIn(outbox, id, j),
             outbox'[i].patch = outbox[j].patch, rows'[id].title = rows[id].title
      PROVE  outbox'[i].patch.title = rows'[id].title
             /\ outbox'[i].patch.title = wish'[id]
  BY <1>2 DEF Latest
<1>3. i \in TextsIn(outbox', id) /\ Pending(outbox', id)
  BY DEF LastIn, TextsIn, Pending
<1>4. ASSUME outbox' = outbox, wish' = wish,
             \A q \in Ids : rows'[q].title = rows[q].title \/ ~Pending(outbox, q)
      PROVE  outbox'[i].patch.title = rows'[id].title
             /\ outbox'[i].patch.title = wish'[id]
  BY <1>2, <1>3, <1>4
<1>5. ASSUME NEW q \in LocalIds, CreateReminder(q)
      PROVE  outbox'[i].patch.title = rows'[id].title
             /\ outbox'[i].patch.title = wish'[id]
  <2>1. /\ outbox' \in Seq(Item(Ids)) /\ Len(outbox') = Len(outbox) + 1 /\ q \in Ids
        /\ \A j \in 1..Len(outbox) : outbox'[j] = outbox[j]
        /\ outbox'[Len(outbox')].id = q
        /\ \A x \in Ids \ {q} : rows'[x] = rows[x]
    BY <1>5, CreateEffect
  <2>2. /\ outbox'[Len(outbox')].patch.title = Fresh /\ Fresh \in Text
        /\ wish' = [wish EXCEPT ![q] = Fresh] /\ rows'[q].title = Fresh
    <3>1. SetTitle(Fresh) \in Patch /\ SetTitle(Fresh).title = Fresh /\ Fresh \in Text
      BY FreshType, Constants
    <3>2. outbox'[Len(outbox) + 1].patch = SetTitle(Fresh)
      BY <1>5, CreateEffect
    <3>3. outbox'[Len(outbox')].patch = SetTitle(Fresh)
      BY <2>1, <3>2
    <3>4. rows'[q].title = Fresh
      BY <1>5, <2>1 DEF CreateReminder, UpsertLocal, CacheOK
    <3> QED
      BY <1>5, <3>1, <3>3, <3>4 DEF CreateReminder
  <2>3. CASE id = q
    <3>1. outbox \in Seq(Item(Ids)) /\ outbox'[Len(outbox')].patch.title # NoText
      BY <2>2 DEF CacheOK, Text
    <3>2. i = Len(outbox')
      <4> HIDE DEF Typed, TypeOK
      <4> QED
        BY <2>1, <2>3, <3>1, LastIsAppended
    <3> QED
      BY <2>1, <2>2, <2>3, <3>2 DEF EnvOK
  <2>4. CASE id # q
    <3>0. outbox \in Seq(Item(Ids))
      BY DEF CacheOK
    <3>1. i \in 1..Len(outbox) /\ LastIn(outbox, id, i)
      <4> HIDE DEF Typed, TypeOK
      <4> QED
        BY <2>1, <2>4, <3>0, LastIsOlder
    <3> QED
      BY <2>1, <2>2, <2>4, <3>1 DEF Latest, EnvOK
  <2> QED
    BY <2>3, <2>4
<1>6. ASSUME NEW q \in Ids, NEW o \in {"update", "delete"}, NEW p \in Patch \ {NoPatch},
             LocalChange(q, o, p), o = "delete" => p.title = NoText
      PROVE  outbox'[i].patch.title = rows'[id].title
             /\ outbox'[i].patch.title = wish'[id]
  <2> DEFINE e == IF o = "delete" THEN NoPatch ELSE p
  <2>1. /\ outbox' \in Seq(Item(Ids)) /\ Len(outbox') = Len(outbox) + 1
        /\ \A j \in 1..Len(outbox) : outbox'[j] = outbox[j]
        /\ outbox'[Len(outbox')].id = q
        /\ \A x \in Ids \ {q} : rows'[x] = rows[x]
    BY <1>6, LocalChangeEffect
  <2>2. /\ outbox'[Len(outbox')].patch = e /\ rows'[q].title = PatchedTitle(rows[q], p)
        /\ wish' = IF p.title = NoText THEN wish ELSE [wish EXCEPT ![q] = p.title]
    <3>1. /\ rows[q].here /\ rows' = Edit(rows, q, p, TRUE)
          /\ wish' = IF p.title = NoText THEN wish ELSE [wish EXCEPT ![q] = p.title]
      BY <1>6 DEF LocalChange
    <3>2. outbox'[Len(outbox) + 1].patch = e
      BY <1>6, LocalChangeEffect
    <3> HIDE DEF e
    <3>3. outbox'[Len(outbox')].patch = e
      BY <2>1, <3>2
    <3>4. rows'[q].title = PatchedTitle(rows[q], p)
      <4>1. rows \in [Ids -> Row] /\ p \in Patch
        BY DEF CacheOK
      <4> HIDE DEF Typed, TypeOK
      <4>2. PICK d \in BOOLEAN : d = TRUE
        OBVIOUS
      <4>3. Edit(rows, q, p, d)[q].title = PatchedTitle(rows[q], p)
        BY <3>1, <4>1, EditTitle
      <4> QED
        BY <3>1, <4>2, <4>3
    <3> QED
      BY <3>1, <3>3, <3>4
  <2>3. NoPatch.title = NoText
    BY DEF NoPatch
  <2>4. CASE id = q /\ e.title # NoText
    <3>0. outbox \in Seq(Item(Ids)) /\ outbox'[Len(outbox')].patch.title # NoText
      BY <2>2, <2>4 DEF CacheOK
    <3>1. i = Len(outbox')
      <4> HIDE DEF e, Typed, TypeOK
      <4> QED
        BY <2>1, <2>4, <3>0, LastIsAppended
    <3>2. e = p
      BY <2>3, <2>4
    <3> HIDE DEF e
    <3> QED
      BY <2>2, <2>4, <3>1, <3>2 DEF EnvOK, PatchedTitle
  <2>5. CASE ~(id = q /\ e.title # NoText)
    <3>0. outbox \in Seq(Item(Ids))
      BY DEF CacheOK
    <3>1. i \in 1..Len(outbox) /\ LastIn(outbox, id, i)
      <4> HIDE DEF e, Typed, TypeOK
      <4> QED
        BY <2>1, <2>2, <2>5, <3>0, LastIsOlder
    <3>2. outbox'[i].patch.title = rows[id].title /\ outbox'[i].patch.title = wish[id]
      BY <2>1, <3>1 DEF Latest
    <3>3. CASE id # q
      BY <2>1, <2>2, <3>2, <3>3 DEF EnvOK
    <3>4. CASE id = q /\ p.title = NoText
      BY <2>2, <3>2, <3>4 DEF PatchedTitle
    <3>5. CASE id = q /\ p.title # NoText /\ o = "delete"
      BY <1>6, <3>5
    <3> QED
      BY <2>5, <3>3, <3>4, <3>5
  <2> QED
    BY <2>4, <2>5
<1>7. CASE ReplaceId
  <2> DEFINE old == HeadItem.id
             new == reply.id
  <2>1. /\ rows' = ReplaceIdRows(rows, old, new) /\ old \in Ids /\ new \in Ids
        /\ outbox' = ReplaceIdOutbox(outbox, old, new)
        /\ wish' = [wish EXCEPT ![new] = wish[old], ![old] = IF old = new THEN @ ELSE NoText]
    BY <1>7, ReplaceIdEffect DEF ReplaceId
  <2>2. Pending(outbox, old) /\ ~Pending(outbox, new) /\ ~rows[new].here
    BY <1>7, <2>1, PendingTail DEF ReplaceId, Upload, CacheOK, HeadItem, Known, Shown
  <2>3. rows[old].here /\ old # new
    BY <2>1, <2>2 DEF Shown
  <2> HIDE DEF old, new
  <2>4. /\ \A q \in Ids \ {old, new} : rows'[q] = rows[q]
        /\ rows'[new] = rows[old]
    BY <2>1, <2>3, ReplacedIdRows DEF CacheOK
  <2>5. /\ wish'[new] = wish[old]
        /\ \A q \in Ids \ {old, new} : wish'[q] = wish[q]
    BY <2>1, <2>3 DEF EnvOK
  <2>6. /\ i \in 1..Len(outbox) /\ outbox'[i].patch = outbox[i].patch
    BY <2>1, ReplaceIdEntries DEF CacheOK
  <2>7. /\ id = new => LastIn(outbox, old, i)
        /\ id # old
        /\ id # new => LastIn(outbox, id, i)
    BY <2>1, <2>2, <2>3, <2>6, LastReplaced DEF CacheOK
  <2>8. CASE id = new
    <3>1. /\ outbox[i].patch.title = rows[old].title
          /\ outbox[i].patch.title = wish[old]
      BY <2>1, <2>6, <2>7, <2>8 DEF Latest
    <3>2. outbox'[i].patch.title = rows'[id].title
      BY <2>4, <2>6, <2>8, <3>1
    <3>3. outbox'[i].patch.title = wish'[id]
      BY <2>5, <2>6, <2>8, <3>1
    <3> QED
      BY <3>2, <3>3
  <2>9. CASE id # new
    <3>1. rows'[id] = rows[id] /\ wish'[id] = wish[id]
      BY <2>4, <2>5, <2>7, <2>9
    <3>2. /\ outbox[i].patch.title = rows[id].title
          /\ outbox[i].patch.title = wish[id]
      BY <2>6, <2>7, <2>9 DEF Latest
    <3> QED
      BY <2>6, <3>1, <3>2
  <2> QED
    BY <2>8, <2>9
<1>8. CASE Ack
  <2>1. /\ outbox # <<>> /\ reply.id \in Ids /\ reply.tag \in Nat
        /\ rows' = AcknowledgeRows(rows, outbox, reply.id, reply.tag)
        /\ outbox' \in Seq(Item(Ids)) /\ wish' = wish
        /\ outbox' = Rebase(Tail(outbox), reply.id, reply.tag)
    BY <1>8, AckEffect DEF Ack, history
  <2>2. Shifted(outbox, outbox')
    BY <2>1, AcknowledgeShifts DEF CacheOK
  <2>3. i + 1 \in 1..Len(outbox) /\ LastIn(outbox, id, i + 1)
    BY <2>1, <2>2, LastShifted DEF CacheOK
  <2>4. outbox'[i].patch = outbox[i + 1].patch
    BY <2>2 DEF Shifted
  <2>5. rows'[id].title = rows[id].title
    BY <2>1, AcknowledgedKept DEF CacheOK
  <2> QED
    BY <1>2, <2>1, <2>3, <2>4, <2>5
<1>9. CASE Settle
  <2>1. /\ outbox # <<>> /\ outbox' = Tail(outbox)
        /\ \A q \in Ids \ {HeadItem.id} : rows'[q] = rows[q]
        /\ rows' = rows \/ ~Pending(Tail(outbox), HeadItem.id)
        /\ outbox' \in Seq(Item(Ids)) /\ wish' = wish
    BY <1>9, SettleOutcome, SettleEffect DEF Settle, history
  <2>2. Shifted(outbox, outbox')
    BY <2>1, TailShifts DEF CacheOK
  <2>3. i + 1 \in 1..Len(outbox) /\ LastIn(outbox, id, i + 1)
    BY <2>1, <2>2, LastShifted DEF CacheOK
  <2>4. outbox'[i].patch = outbox[i + 1].patch
    BY <2>2 DEF Shifted
  <2>5. rows'[id].title = rows[id].title
    BY <1>3, <2>1
  <2> QED
    BY <1>2, <2>1, <2>3, <2>4, <2>5
<1>10. CASE UpsertReply
  <2>1. /\ reply.id \in Ids /\ rows' = Upsert(rows, reply.id, reply) /\ outbox' = outbox
        /\ wish' = wish
    BY <1>10 DEF UpsertReply, Upload, Ids, history
  <2>2. \A q \in Ids : q # reply.id \/ rows[reply.id].dirty => rows'[q] = rows[q]
    BY <2>1, UpsertSpares DEF CacheOK
  <2>3. Pending(outbox, reply.id) => rows[reply.id].dirty
    BY <1>10, <2>1 DEF Shown, Gone, UpsertReply
  <2> QED
    BY <1>4, <2>1, <2>2, <2>3
<1>11. ASSUME NEW x \in inbox, ApplyLive(x)
       PROVE  outbox'[i].patch.title = rows'[id].title
              /\ outbox'[i].patch.title = wish'[id]
  <2>1. /\ x.id \in Ids /\ rows' = Upsert(rows, x.id, x) /\ outbox' = outbox
        /\ x.state = "live" /\ wish' = wish
    BY <1>11, ChangeTyped DEF ApplyLive, history
  <2>2. /\ \A q \in Ids \ {x.id} : rows'[q] = rows[q]
        /\ rows[x.id].dirty => rows'[x.id] = rows[x.id]
    BY <2>1, ChangeTyped, UpsertRows DEF CacheOK
  <2>3. Pending(outbox, x.id) => rows[x.id].dirty
    BY <2>1 DEF Shown, Gone
  <2> QED
    BY <1>4, <2>1, <2>2, <2>3
<1>12. CASE MarkTombstone
  <2>1. /\ victim \in Ids /\ outbox' = outbox /\ wish' = wish
        /\ SetDeleted("set") \in Patch /\ SetDeleted("set").title = NoText
    BY <1>12, Constants DEF MarkTombstone, Upload, Ids, Marks, history, SetDeleted, NoPatch
  <2>2. PICK d \in BOOLEAN : d = FALSE
    OBVIOUS
  <2>3. rows' = Edit(rows, victim, SetDeleted("set"), d)
    BY <1>12, <2>2, Zenon DEF MarkTombstone
  <2>4. \A q \in Ids \ {victim} : rows'[q] = rows[q]
    BY <2>1, <2>3, EditRows DEF CacheOK
  <2>5. rows[victim].here => rows'[victim].title = rows[victim].title
    BY <2>1, <2>3, EditTitle DEF CacheOK, PatchedTitle
  <2>6. Pending(outbox, victim) => rows[victim].here
    BY <2>1 DEF Shown
  <2> QED
    BY <1>4, <2>1, <2>4, <2>5, <2>6
<1>13. CASE UNCHANGED <<rows, outbox>> /\ wish' = wish
  BY <1>4, <1>13
<1> QED
  BY <1>1, <1>5, <1>6, <1>7, <1>8, <1>9, <1>10, <1>11, <1>12, <1>13, CacheSteps

(* What a pass and the cache know of each other holds throughout. *)
Kin == Downloaded /\ Answered /\ Known /\ Recreated /\ Shown /\ Latest

(* The invariants above hold throughout.                                    *)
THEOREM KinAlways == Spec => []Kin
<1>1. Init => Kin
  <2> SUFFICES ASSUME Init PROVE Kin
    OBVIOUS
  <2>1. Downloaded /\ Answered /\ Recreated
    BY DEF Init, Downloaded, Answered, Recreated, NoReply
  <2>2. Shown /\ Latest
    BY DEF Init, Shown, Latest, Pending
  <2>3. Known
    <3>1. First \in Ids /\ [id \in Ids |-> NoRow] \in [Ids -> Row]
      BY IdsAssumption, Constants DEF Ids
    <3>2. ~NoRow.here
      BY DEF NoRow
    <3>3. \A r \in Records : cloud[r].state = "none" => r # First
      BY DEF Init, Written
    <3>4. \/ rows = [id \in Ids |-> NoRow]
          \/ rows = Upsert([id \in Ids |-> NoRow], First, cloud[First])
      BY Zenon DEF Init
    <3>5. \A r \in Records : r # First => ~rows[r].here
      BY <3>1, <3>2, <3>4, UpsertSpares DEF Ids
    <3> QED
      BY <3>3, <3>5 DEF Known, Init
  <2> QED
    BY <2>1, <2>2, <2>3 DEF Kin
<1>2. Typed /\ Kin /\ [Next]_vars => Kin'
  BY StepDownloaded, StepAnswered, StepKnown, StepRecreated, StepShown, StepLatest DEF Kin
<1> QED
  BY <1>1, <1>2, TypedAlways, PTL DEF Spec

(* A row is dirty exactly while the outbox holds an entry of its reminder:  *)
(* the guard of Upsert spares every local edit, and no row is shut out of   *)
(* the downloads for ever.  The exceptions are those of the property, a     *)
(* record removed for good and a refusal that names no record.              *)
THEOREM DirtyExactlyWhilePending == Spec => []DirtyMeansPending
<1>1. Init => Owned
  <2> SUFFICES ASSUME Init PROVE Owned
    OBVIOUS
  <2>1. \A id \in Ids : NoRow.dirty = FALSE
    BY DEF NoRow
  <2>2. [id \in Ids |-> NoRow] \in [Ids -> Row] /\ First \in Ids
    BY IdsAssumption, Constants DEF Ids
  <2>3. /\ cloud[First].title \in Text /\ cloud[First].deleted \in BOOLEAN
        /\ cloud[First].tag \in Nat
    BY InitTyped, IdsAssumption, RecordTyped DEF Typed, TypeOK
  <2>4. rows = [id \in Ids |-> NoRow]
        \/ rows = Upsert([id \in Ids |-> NoRow], First, cloud[First])
    BY Zenon DEF Init
  <2>5. \A id \in Ids : ~rows[id].dirty
    <3> HIDE DEF NoRow
    <3>1. CASE rows = [id \in Ids |-> NoRow]
      BY <2>1, <3>1
    <3>2. CASE rows = Upsert([id \in Ids |-> NoRow], First, cloud[First])
      <4> DEFINE empty == [id \in Ids |-> NoRow]
      <4>1. empty \in [Ids -> Row] /\ \A id \in Ids : ~empty[id].dirty
        BY <2>1, <2>2
      <4> HIDE DEF empty
      <4>2. \A q \in Ids \ {First} : Upsert(empty, First, cloud[First])[q] = empty[q]
        BY <2>2, <2>3, <4>1, UpsertRows
      <4>3. Upsert(empty, First, cloud[First])[First].dirty = empty[First].dirty
        BY <2>2, <2>3, <4>1, UpsertRows
      <4>4. rows = Upsert(empty, First, cloud[First])
        BY <3>2 DEF empty
      <4> QED
        BY <2>2, <4>1, <4>2, <4>3, <4>4
    <3> QED
      BY <2>4, <3>1, <3>2
  <2> QED
    BY <2>5 DEF Owned
<1>2. Typed /\ Owned /\ [Next]_vars => Owned'
  BY StepOwned
<1>3. Owned /\ Shown => DirtyMeansPending
  BY DEF Owned, Shown, Gone, ErasedRecord, DirtyMeansPending
<1>4. Kin => Shown
  BY DEF Kin
<1> QED
  BY <1>1, <1>2, <1>3, <1>4, TypedAlways, KinAlways, PTL DEF Spec

(* What the user typed last and has not been uploaded is what the list      *)
(* shows, whatever is downloaded, acknowledged, refused, removed or lost in *)
(* the meantime.                                                            *)
THEOREM ShowsUnsentText == Spec => []ReadYourWrites
<1>1. Kin => ReadYourWrites
  BY DEF Kin, Latest, ReadYourWrites, LastIn, TextsIn, Texts
<1> QED
  BY <1>1, KinAlways, PTL

-----------------------------------------------------------------------------
(* Where the last text of each reminder is.                                 *)

(* A delete has no text; an entry iCloud has done has its text there; and   *)
(* the row read for a conflict shows the text of the refused entry, unless  *)
(* the user has typed another since.                                        *)
DeletesBare ==
  \A i \in 1..Len(outbox) : outbox[i].op = "delete" => outbox[i].patch.title = NoText
Sent == pc \in {"replace", "ack"} => HeadItem.patch.title \in uploaded \cup {NoText}
Kept == pc = "settle" /\ LastIn(outbox, HeadItem.id, 1)
          => local.title = HeadItem.patch.title

(* The inductive form of NoLostEdit. *)
Wishes ==
  \A id \in Ids : wish[id] # NoText =>
    \/ wish[id] \in uploaded
    \/ \E i \in 1..Len(outbox) : LastIn(outbox, id, i)
    \/ \E i \in 1..Len(conflicts) : conflicts[i].local.title = wish[id]

(* Entries keep their patches.                                              *)
LEMMA StepDeletesBare ==
  ASSUME Typed, DeletesBare, [Next]_vars
  PROVE  DeletesBare'
<1> USE DEF Typed, TypeOK
<1>0. Len(outbox) \in Nat /\ NoPatch.title = NoText
  BY DEF CacheOK, NoPatch
<1>1. CASE outbox' = outbox
  BY <1>1 DEF DeletesBare
<1>2. ASSUME NEW q \in LocalIds, CreateReminder(q) PROVE DeletesBare'
  <2>1. /\ Len(outbox') = Len(outbox) + 1
        /\ \A i \in 1..Len(outbox) : outbox'[i] = outbox[i]
        /\ outbox'[Len(outbox) + 1].op = "create"
    BY <1>2, CreateEffect
  <2> QED
    BY <1>0, <2>1 DEF DeletesBare
<1>3. ASSUME NEW q \in Ids, NEW o \in {"update", "delete"}, NEW p \in Patch \ {NoPatch},
             LocalChange(q, o, p)
      PROVE  DeletesBare'
  <2>1. /\ Len(outbox') = Len(outbox) + 1
        /\ \A i \in 1..Len(outbox) : outbox'[i] = outbox[i]
        /\ outbox'[Len(outbox) + 1].op = o
        /\ outbox'[Len(outbox) + 1].patch = IF o = "delete" THEN NoPatch ELSE p
    BY <1>3, LocalChangeEffect
  <2> QED
    BY <1>0, <2>1 DEF DeletesBare
<1>4. CASE ReplaceId
  <2>1. /\ outbox' = ReplaceIdOutbox(outbox, HeadItem.id, reply.id) /\ reply.id \in Ids
    BY <1>4, ReplaceIdEffect
  <2>2. /\ Len(outbox') = Len(outbox)
        /\ \A i \in 1..Len(outbox) : /\ outbox'[i].op = outbox[i].op
                                     /\ outbox'[i].patch = outbox[i].patch
    BY <2>1, ReplaceIdEntries DEF CacheOK
  <2> QED
    BY <2>2 DEF DeletesBare
<1>5. CASE Ack \/ Settle
  <2>1. Shifted(outbox, outbox')
    BY <1>5, AckEffect, SettleEffect, TailShifts, AcknowledgeShifts DEF CacheOK
  <2> QED
    BY <1>0, <2>1 DEF DeletesBare, Shifted
<1> QED
  BY <1>1, <1>2, <1>3, <1>4, <1>5, OutboxSteps

(* An upload leaves its text in iCloud before it is acknowledged.           *)
LEMMA StepSent ==
  ASSUME Typed, DeletesBare, Recreated, Sent, [Next]_vars
  PROVE  Sent'
<1> USE DEF Typed, TypeOK
<1>1. CASE UserNext \/ OtherNext \/ UNCHANGED vars
  BY <1>1, SamePass, SameHead DEF passVars, Upload, Sent
<1>2. ASSUME NEW r \in Records, NEW lost \in BOOLEAN, PushCreate(r, lost) PROVE Sent'
  <2>1. HeadPatch.title \in uploaded' /\ HeadPatch = HeadItem.patch /\ HeadItem' = HeadItem
    BY <1>2 DEF PushCreate, HeadPatch, HeadItem, cacheVars
  <2> QED
    BY <2>1 DEF Sent
<1>3. ASSUME NEW lost \in BOOLEAN, PushModify(lost) PROVE Sent'
  <2>1. HeadPatch.title \in uploaded' /\ HeadItem' = HeadItem /\ outbox # <<>>
    BY <1>3 DEF PushModify, HeadItem, cacheVars, Upload
  <2>2. HeadItem = outbox[1] /\ 1 \in 1..Len(outbox)
    BY <2>1, HeadTyped
  <2>3. HeadItem.patch.title = NoText \/ HeadPatch = HeadItem.patch
    BY <2>2 DEF HeadPatch, DeletesBare
  <2> QED
    BY <2>1, <2>3 DEF Sent
<1>4. CASE ReplaceId
  <2>1. /\ outbox' = ReplaceIdOutbox(outbox, HeadItem.id, reply.id) /\ reply.id \in Ids
        /\ outbox' # <<>> /\ outbox' \in Seq(Item(Ids)) /\ outbox # <<>>
        /\ uploaded' = uploaded /\ pc = "replace"
    BY <1>4, ReplaceIdEffect DEF ReplaceId, Upload
  <2>2. HeadItem = outbox[1] /\ 1 \in 1..Len(outbox) /\ HeadItem' = outbox'[1]
    BY <2>1, HeadTyped, HeadTailType DEF HeadItem
  <2>3. \A i \in 1..Len(outbox) : outbox'[i].patch = outbox[i].patch
    BY <2>1, ReplaceIdEntries DEF CacheOK
  <2> QED
    BY <2>1, <2>2, <2>3 DEF Sent
<1>5. ASSUME EngineStep \/ FaultNext, ~ReplaceId, ~PushModify(FALSE), ~PushModify(TRUE),
             ~\E r \in Records : PushCreate(r, FALSE) \/ PushCreate(r, TRUE)
      PROVE  pc' \notin {"replace", "ack"}
  BY <1>5 DEF EngineStep, FaultNext, StartPass, PushLookup, PushRefused,
     Received, Abort, Ack, UpsertReply, ReadLocal, Settle, PushDone, Delta, FullCursor,
     FullLists, FullQuery, ApplyLive, ReadTombstone, MarkTombstone, RefreshLists, Save,
     Throw, Crash, CreateRefused
<1>6. CASE EngineStep \/ FaultNext
  BY <1>2, <1>3, <1>4, <1>5, <1>6 DEF Sent
<1> QED
  BY <1>1, <1>6 DEF Next

(* The row that a conflict keeps is read after the entry in hand was made.  *)
LEMMA StepKept ==
  ASSUME Typed, Latest, Kept, [Next]_vars
  PROVE  Kept'
<1> USE DEF Typed, TypeOK
<1>1. ASSUME UserNext \/ OtherNext \/ UNCHANGED vars, pc' = "settle",
             LastIn(outbox', HeadItem'.id, 1)
      PROVE  local'.title = HeadItem'.patch.title
  <2>1. pc = "settle" /\ local' = local /\ outbox # <<>> /\ HeadItem' = HeadItem
    BY <1>1, SamePass, SameHead DEF passVars, Upload
  <2>2. 1 \in 1..Len(outbox) /\ HeadItem.id \in Ids /\ Len(outbox) \in Nat
    BY <2>1, HeadTyped DEF CacheOK
  <2>3. CASE outbox' = outbox
    BY <1>1, <2>1, <2>3 DEF Kept
  <2>4. ASSUME outbox' \in Seq(Item(Ids)), Len(outbox') = Len(outbox) + 1,
               \A i \in 1..Len(outbox) : outbox'[i] = outbox[i]
        PROVE  local'.title = HeadItem'.patch.title
    <3>1. 1 \in 1..Len(outbox') /\ Len(outbox') # 1
      BY <2>2, <2>4
    <3>2. LastIn(outbox, HeadItem.id, 1)
      BY <1>1, <2>1, <2>4, <3>1, LastAppended DEF CacheOK
    <3> QED
      BY <2>1, <3>2 DEF Kept
  <2>5. \/ outbox' = outbox
        \/ \E q \in LocalIds : CreateReminder(q)
        \/ \E q \in Ids, o \in {"update", "delete"}, p \in Patch \ {NoPatch} :
             LocalChange(q, o, p)
    BY <1>1, UserSteps DEF OtherNext, OtherEdit, OtherDelete, OtherErase, OtherWrites,
       OtherList, vars, cacheVars
  <2> QED
    BY <2>3, <2>4, <2>5, CreateEffect, LocalChangeEffect
<1>2. CASE ReadLocal
  <2>1. /\ outbox' = outbox /\ local' = rows[HeadItem.id] /\ outbox # <<>>
    BY <1>2 DEF ReadLocal, cacheVars, Upload
  <2>2. /\ HeadItem = outbox[1] /\ 1 \in 1..Len(outbox) /\ HeadItem.id \in Ids
        /\ HeadItem' = HeadItem
    BY <2>1, HeadTyped DEF HeadItem
  <2> QED
    BY <2>1, <2>2 DEF Kept, Latest
<1>3. ASSUME EngineStep \/ FaultNext, ~ReadLocal PROVE pc' # "settle"
  BY <1>3 DEF EngineStep, FaultNext, StartPass, PushCreate, PushLookup, PushModify,
     PushRefused, Received, Abort, ReplaceId, Ack, UpsertReply, Settle, PushDone, Delta,
     FullCursor, FullLists, FullQuery, ApplyLive, ReadTombstone, MarkTombstone,
     RefreshLists, Save, Throw, Crash, CreateRefused
<1> QED
  BY <1>1, <1>2, <1>3 DEF Next, Kept

(* The last text of each reminder is uploaded, queued or kept after every   *)
(* step.                                                                    *)
LEMMA StepWishes ==
  ASSUME Typed, Known, Shown, Latest, Sent, Kept, Wishes, [Next]_vars
  PROVE  Wishes'
<1> USE DEF Typed, TypeOK
<1> DEFINE Safe(t) == \/ t \in uploaded
                      \/ \E i \in 1..Len(conflicts) : conflicts[i].local.title = t
           Queued(id) == \E i \in 1..Len(outbox) : LastIn(outbox, id, i)
           Safe1(t) == \/ t \in uploaded'
                       \/ \E i \in 1..Len(conflicts') : conflicts'[i].local.title = t
           Queued1(id) == \E i \in 1..Len(outbox') : LastIn(outbox', id, i)
<1> SUFFICES ASSUME NEW id \in Ids, wish'[id] # NoText
             PROVE  Safe1(wish'[id]) \/ Queued1(id)
  BY DEF Wishes
<1>1. \A q \in Ids : wish[q] # NoText => Safe(wish[q]) \/ Queued(q)
  BY DEF Wishes
<1>2. \A t : Safe(t) => Safe1(t)
  BY StepKeepsHistory DEF SameCase
<1>3. \/ UNCHANGED <<outbox, wish>>
      \/ \E q \in LocalIds : CreateReminder(q)
      \/ \E q \in Ids, o \in {"update", "delete"}, p \in Patch \ {NoPatch} :
           LocalChange(q, o, p) /\ (o = "delete" => p.title = NoText)
      \/ ReplaceId
      \/ (Ack \/ Settle) /\ wish' = wish
  BY OutboxSteps
<1> HIDE DEF Safe, Safe1
<1>4. CASE UNCHANGED <<outbox, wish>>
  BY <1>1, <1>2, <1>4
<1>5. ASSUME outbox' \in Seq(Item(Ids)), Len(outbox') = Len(outbox) + 1,
             \A j \in 1..Len(outbox) : outbox'[j] = outbox[j],
             \/ outbox'[Len(outbox')].id = id /\ outbox'[Len(outbox')].patch.title # NoText
             \/ wish'[id] = wish[id]
      PROVE  Safe1(wish'[id]) \/ Queued1(id)
  <2>0. Len(outbox) \in Nat /\ Len(outbox') \in 1..Len(outbox')
    BY <1>5 DEF CacheOK
  <2>1. CASE outbox'[Len(outbox')].id = id /\ outbox'[Len(outbox')].patch.title # NoText
    BY <1>5, <2>0, <2>1, LastAppended DEF CacheOK
  <2>2. ASSUME ~(outbox'[Len(outbox')].id = id /\ outbox'[Len(outbox')].patch.title # NoText),
               NEW i \in 1..Len(outbox), LastIn(outbox, id, i)
        PROVE  Queued1(id)
    <3>1. i \in 1..Len(outbox')
      BY <1>5, <2>0
    <3>2. LastIn(outbox', id, i)
      BY <1>5, <2>2, <3>1, LastAppended DEF CacheOK
    <3> QED
      BY <3>1, <3>2
  <2> QED
    BY <1>1, <1>2, <1>5, <2>1, <2>2
<1>6. ASSUME NEW q \in LocalIds, CreateReminder(q)
      PROVE  Safe1(wish'[id]) \/ Queued1(id)
  <2>1. /\ outbox' \in Seq(Item(Ids)) /\ Len(outbox') = Len(outbox) + 1 /\ q \in Ids
        /\ \A j \in 1..Len(outbox) : outbox'[j] = outbox[j]
        /\ outbox'[Len(outbox) + 1].id = q
        /\ outbox'[Len(outbox) + 1].patch = SetTitle(Fresh)
    BY <1>6, CreateEffect
  <2>2. SetTitle(Fresh).title # NoText
    BY FreshType, Constants DEF Text
  <2>3. id # q => wish'[id] = wish[id]
    BY <1>6, <2>1 DEF CreateReminder, EnvOK
  <2> QED
    BY <1>5, <2>1, <2>2, <2>3
<1>7. ASSUME NEW q \in Ids, NEW o \in {"update", "delete"}, NEW p \in Patch \ {NoPatch},
             LocalChange(q, o, p), o = "delete" => p.title = NoText
      PROVE  Safe1(wish'[id]) \/ Queued1(id)
  <2>1. /\ outbox' \in Seq(Item(Ids)) /\ Len(outbox') = Len(outbox) + 1
        /\ \A j \in 1..Len(outbox) : outbox'[j] = outbox[j]
        /\ outbox'[Len(outbox) + 1].id = q
        /\ outbox'[Len(outbox) + 1].patch = IF o = "delete" THEN NoPatch ELSE p
    BY <1>7, LocalChangeEffect
  <2>2. wish' = IF p.title = NoText THEN wish ELSE [wish EXCEPT ![q] = p.title]
    BY <1>7 DEF LocalChange
  <2>3. id # q \/ p.title = NoText => wish'[id] = wish[id]
    BY <2>2 DEF EnvOK
  <2> QED
    BY <1>5, <1>7, <2>1, <2>3
<1>8. CASE ReplaceId
  <2> DEFINE old == HeadItem.id
             new == reply.id
  <2>1. /\ old \in Ids /\ new \in Ids
        /\ outbox' = ReplaceIdOutbox(outbox, old, new)
        /\ wish' = [wish EXCEPT ![new] = wish[old], ![old] = IF old = new THEN @ ELSE NoText]
    BY <1>8, ReplaceIdEffect DEF ReplaceId
  <2>2. Pending(outbox, old) /\ ~Pending(outbox, new) /\ ~rows[new].here
    BY <1>8, <2>1, PendingTail DEF ReplaceId, Upload, CacheOK, HeadItem, Known, Shown
  <2>3. old # new
    BY <2>1, <2>2
  <2> HIDE DEF old, new
  <2>4. /\ wish'[new] = wish[old] /\ wish'[old] = NoText
        /\ \A q \in Ids \ {old, new} : wish'[q] = wish[q]
    BY <2>1, <2>3 DEF EnvOK
  <2>5. Len(outbox') = Len(outbox)
    BY <2>1, ReplaceIdEntries DEF CacheOK
  <2>6. \A i \in 1..Len(outbox) :
          /\ LastIn(outbox, old, i) => LastIn(outbox', new, i)
          /\ \A q : q # old /\ q # new /\ LastIn(outbox, q, i) => LastIn(outbox', q, i)
    BY <2>1, <2>2, <2>3, LastReplaced DEF CacheOK
  <2> QED
    BY <1>1, <1>2, <2>1, <2>4, <2>5, <2>6
<1>9. ASSUME Ack \/ Settle, wish' = wish, NEW i \in 1..Len(outbox), LastIn(outbox, id, i)
      PROVE  Safe1(wish'[id]) \/ Queued1(id)
  <2>1. /\ outbox # <<>> /\ outbox' \in Seq(Item(Ids))
        /\ Shifted(outbox, outbox')
    BY <1>9, AckEffect, SettleEffect, TailShifts, AcknowledgeShifts DEF CacheOK
  <2>2. CASE i # 1
    BY <1>9, <2>1, <2>2, LastShifted DEF CacheOK
  <2>3. CASE i = 1
    <3>1. HeadItem = outbox[1] /\ HeadItem.id = id /\ HeadItem.patch.title = wish[id]
      BY <1>9, <2>1, <2>3, HeadTyped DEF Latest, LastIn, TextsIn
    <3>2. CASE Ack
      <4>1. wish[id] \in uploaded
        BY <1>9, <3>1, <3>2 DEF Ack, Sent
      <4> QED
        BY <1>2, <1>9, <4>1 DEF Safe
    <3>3. CASE Settle
      <4>1. local.title = wish[id]
        BY <1>9, <2>3, <3>1, <3>3 DEF Settle, Kept
      <4> DEFINE e == [id |-> HeadItem.id, local |-> local, remote |-> reply, kept |-> "none"]
      <4>2. conflicts' = Append(conflicts, e)
        BY <3>3 DEF Settle
      <4>3. e.local = local
        OBVIOUS
      <4> HIDE DEF e
      <4>4. Len(conflicts') \in 1..Len(conflicts') /\ conflicts'[Len(conflicts')] = e
        BY <4>2 DEF CacheOK
      <4> QED
        BY <1>9, <4>1, <4>3, <4>4 DEF Safe1
    <3> QED
      BY <1>9, <3>2, <3>3
  <2> QED
    BY <2>2, <2>3
<1>10. CASE (Ack \/ Settle) /\ wish' = wish
  BY <1>1, <1>2, <1>9, <1>10
<1> QED
  BY <1>3, <1>4, <1>6, <1>7, <1>8, <1>10

(* The last text the user gave a reminder is never lost: it is in iCloud,   *)
(* in the outbox or in a conflict, however the pass is interrupted.  The    *)
(* invariant adds where the text is between iCloud's answer and the         *)
(* transaction that removes the entry.                                      *)
THEOREM EditsAreKept == Spec => []NoLostEdit
<1> DEFINE Held == Kin /\ DeletesBare /\ Sent /\ Kept /\ Wishes
<1>1. Init => DeletesBare /\ Sent /\ Kept /\ Wishes
  BY DEF Init, DeletesBare, Sent, Kept, Wishes
<1>2. Typed /\ Kin /\ Kin' /\ (DeletesBare /\ Sent /\ Kept /\ Wishes) /\ [Next]_vars
        => (DeletesBare /\ Sent /\ Kept /\ Wishes)'
  BY StepDeletesBare, StepSent, StepKept, StepWishes DEF Kin
<1>3. Kin /\ Wishes => NoLostEdit
  BY DEF Kin, Latest, Wishes, NoLostEdit, LastIn, TextsIn, Texts
<1> QED
  BY <1>1, <1>2, <1>3, TypedAlways, KinAlways, PTL DEF Spec
=============================================================================
