-------------------------- MODULE SyncCloudProofs ---------------------------
(***************************************************************************)
(* What a pass does to iCloud's records and takes from them: the saved     *)
(* token, overwriting, conflicts, and one record per create.               *)
(***************************************************************************)
EXTENDS SyncCoreProofs, FiniteSetTheorems

(* The rows of records change by these steps only. *)
LEMMA RowSteps ==
  ASSUME Typed, Answered, [Next]_vars, NEW r \in Records
  PROVE  \/ rows'[r] = rows[r]
         \/ UserNext /\ rows[r].here /\ rows'[r].dirty /\ rows'[r].tag = rows[r].tag
         \/ ReplaceId /\ r \in {HeadItem.id, reply.id}
         \/ Ack /\ r = reply.id
         \/ UpsertReply /\ r = reply.id /\ rows'[r].tag = reply.tag
         \/ /\ Settle /\ r = reply.id /\ rows'[r].here
            /\ rows'[r].title = reply.title /\ rows'[r].deleted = reply.deleted
            /\ rows'[r].tag = reply.tag
         \/ \E x \in inbox :
              /\ ApplyLive(x) /\ x.id = r /\ rows'[r].here
              /\ rows'[r].title = x.title /\ rows'[r].deleted = x.deleted
              /\ rows'[r].tag = x.tag
         \/ /\ MarkTombstone /\ r = victim /\ rows'[r].tag = rows[r].tag
            /\ rows'[r].here => rows[r].here
<1> USE DEF Typed, TypeOK
<1>0. r \in Ids /\ r \notin LocalIds
  BY IdsAssumption DEF Ids
<1>1. CASE UNCHANGED <<rows, outbox>>
  BY <1>1
<1>2. ASSUME NEW id \in LocalIds, CreateReminder(id) PROVE rows'[r] = rows[r]
  BY <1>0, <1>2, CreateEffect
<1>3. ASSUME UserNext, NEW id \in Ids, NEW o \in {"update", "delete"}, NEW p \in Patch \ {NoPatch},
             LocalChange(id, o, p)
      PROVE  \/ rows'[r] = rows[r]
             \/ UserNext /\ rows[r].here /\ rows'[r].dirty /\ rows'[r].tag = rows[r].tag
  <2>1. /\ \A q \in Ids \ {id} : rows'[q] = rows[q]
        /\ rows[id].here /\ rows'[id].tag = rows[id].tag /\ rows'[id].dirty
    BY <1>3, LocalChangeEffect
  <2>2. CASE r = id
    BY <1>3, <2>1, <2>2, Zenon
  <2>3. CASE r # id
    BY <1>0, <2>1, <2>3
  <2> QED
    BY <2>2, <2>3
<1>4. CASE ReplaceId
  <2>1. /\ HeadItem.id \in Ids /\ reply.id \in Ids
        /\ rows' = ReplaceIdRows(rows, HeadItem.id, reply.id)
    BY <1>4, ReplaceIdEffect DEF ReplaceId
  <2>2. \A q \in Ids \ {HeadItem.id, reply.id} : rows'[q] = rows[q]
    BY <2>1, ReplacedIdRows DEF CacheOK
  <2> QED
    BY <1>0, <1>4, <2>2
<1>5. CASE Ack
  <2>1. /\ reply.id \in Ids /\ reply.tag \in Nat
        /\ rows' = AcknowledgeRows(rows, outbox, reply.id, reply.tag)
    BY <1>5, AckEffect
  <2>2. ASSUME r # reply.id PROVE rows'[r] = rows[r]
    <3>1. rows \in [Ids -> Row]
      BY DEF CacheOK
    <3> HIDE DEF Typed, TypeOK
    <3>2. AcknowledgeRows(rows, outbox, reply.id, reply.tag)[r] = rows[r]
      BY <1>0, <2>1, <2>2, <3>1, AcknowledgedOthers
    <3> QED
      BY <2>1, <3>2
  <2> QED
    BY <1>0, <1>5, <2>2
<1>6. CASE UpsertReply
  <2>1. reply.id \in Ids /\ rows' = Upsert(rows, reply.id, reply)
    BY <1>6 DEF UpsertReply, Upload, Ids
  <2>2. CASE r # reply.id \/ rows[reply.id].dirty
    BY <1>0, <2>1, <2>2, UpsertSpares DEF CacheOK
  <2>3. CASE r = reply.id /\ ~rows[reply.id].dirty
    BY <1>6, <2>1, <2>3, UpsertShows DEF CacheOK
  <2> QED
    BY <2>2, <2>3
<1>7. CASE Settle
  BY <1>0, <1>7, SettleOutcome
<1>8. ASSUME NEW x \in inbox, ApplyLive(x)
      PROVE  \/ rows'[r] = rows[r]
             \/ /\ ApplyLive(x) /\ x.id = r /\ rows'[r].here
                /\ rows'[r].title = x.title /\ rows'[r].deleted = x.deleted
                /\ rows'[r].tag = x.tag
  <2>1. x.id \in Ids /\ rows' = Upsert(rows, x.id, x)
    BY <1>8, ChangeTyped DEF ApplyLive
  <2>2. CASE x.id # r \/ rows[x.id].dirty
    BY <1>0, <2>1, <2>2, UpsertSpares DEF CacheOK
  <2>3. CASE x.id = r /\ ~rows[x.id].dirty
    <3>1. /\ Upsert(rows, x.id, x)[x.id].here
          /\ Upsert(rows, x.id, x)[x.id].title = x.title
          /\ Upsert(rows, x.id, x)[x.id].deleted = x.deleted
          /\ Upsert(rows, x.id, x)[x.id].tag = x.tag
      BY <2>1, <2>3, UpsertShows DEF CacheOK
    <3> QED
      BY <1>8, <2>1, <2>3, <3>1
  <2> QED
    BY <2>2, <2>3
<1>9. CASE MarkTombstone
  <2>1. victim \in Ids /\ SetDeleted("set") \in Patch
    BY <1>9, Constants DEF MarkTombstone, Upload, Ids, Marks
  <2>2. PICK d \in BOOLEAN : d = FALSE
    OBVIOUS
  <2>3. rows' = Edit(rows, victim, SetDeleted("set"), d)
    BY <1>9, <2>2, Zenon DEF MarkTombstone
  <2>4. /\ \A q \in Ids \ {victim} : rows'[q] = rows[q]
        /\ rows'[victim].tag = rows[victim].tag
        /\ rows'[victim].here = rows[victim].here
    BY <2>1, <2>3, EditRows DEF CacheOK
  <2>5. rows'[victim].here => rows[victim].here
    BY <2>4
  <2> QED
    BY <1>0, <1>9, <2>4, <2>5
<1>10. UserNext => \/ UNCHANGED <<rows, outbox>>
                   \/ \E id \in LocalIds : CreateReminder(id)
                   \/ \E id \in Ids, o \in {"update", "delete"}, p \in Patch \ {NoPatch} :
                        LocalChange(id, o, p)
  BY UserSteps
<1>11. CASE UserNext
  BY <1>1, <1>2, <1>3, <1>10, <1>11
<1>12. OtherNext \/ UNCHANGED vars => UNCHANGED <<rows, outbox>>
  BY DEF OtherNext, OtherEdit, OtherDelete, OtherErase, OtherWrites, OtherList, vars,
     cacheVars
<1>13. FaultNext => UNCHANGED <<rows, outbox>>
  BY DEF FaultNext, PushCreate, PushModify, Throw, Crash, CreateRefused, cacheVars
<1>14. EngineStep => \/ UNCHANGED <<rows, outbox>> \/ ReplaceId \/ Ack \/ UpsertReply \/ Settle
                     \/ (\E x \in inbox : ApplyLive(x)) \/ MarkTombstone
  BY DEF EngineStep, StartPass, PushCreate, PushLookup, PushModify, PushRefused,
     ReadLocal, PushDone, Delta, FullCursor, FullLists, FullQuery, ReadTombstone,
     RefreshLists, Save, cacheVars
<1>15. CASE EngineStep
  BY <1>1, <1>4, <1>5, <1>6, <1>7, <1>8, <1>9, <1>14, <1>15
<1> QED
  BY <1>1, <1>11, <1>12, <1>13, <1>15 DEF Next

-----------------------------------------------------------------------------
(* The saved token.                                                         *)

(* Tokens and tags are times of the past. *)
Clocked ==
  /\ cursor <= clock /\ next <= clock
  /\ \A r \in Records : cloud[r].tag <= clock
  /\ pc \in {"lists", "query", "apply", "tombstone"} => cursor <= next \/ next = NoCursor

(* The record in hand has been written since the last pull, unless the      *)
(* answer is the record as it is; so has one that a create has made.        *)
Recent(r) == cloud[r].tag > cursor
Answers ==
  /\ pc \in {"replace", "ack", "upsert"} => Recent(reply.id)
  /\ pc \in {"modify", "clash", "settle"} /\ reply.id # NoId =>
       reply = Answer(reply.id, cloud[reply.id]) \/ Recent(reply.id)
  /\ \A i \in 1..Len(outbox) :
       outbox[i].op = "create" /\ outbox[i].id \in Records => Recent(outbox[i].id)

(* The pull has downloaded what it will not have shown by its end. *)
Shows(r) == /\ rows[r].here
            /\ rows[r].title = cloud[r].title
            /\ rows[r].deleted = cloud[r].deleted
            /\ rows[r].tag = cloud[r].tag
Fetched ==
  pc \in {"apply", "tombstone"} =>
    /\ \A x \in inbox :
         x = Download(x.id) \/ (cloud[x.id].tag > next /\ Recent(x.id))
    /\ \A r \in Records :
         /\ cloud[r].state = "live" /\ cloud[r].tag <= next /\ ~rows[r].dirty
         /\ \A x \in inbox : x.id # r
         => Shows(r)

(* The clock only advances, and a pull reads it before it downloads.        *)
LEMMA StepClocked ==
  ASSUME Typed, Clocked, [Next]_vars
  PROVE  Clocked'
<1> USE DEF Typed, TypeOK, CacheOK, CloudOK, PassOK
<1>1. /\ clock' \in Nat /\ clock <= clock'
      /\ \A r \in Records : cloud'[r].tag = cloud[r].tag \/ cloud'[r].tag = clock'
  <2>1. First \in Records
    BY IdsAssumption
  <2> QED
    BY <2>1, Writes
<1>2. \A r \in Records : cloud'[r].tag <= clock'
  <2>1. \A r \in Records : cloud[r].tag \in Nat
    BY RecordTyped
  <2> QED
    BY <1>1, <2>1 DEF Clocked
<1>3. CASE UserNext \/ OtherNext \/ UNCHANGED vars
  BY <1>1, <1>2, <1>3, SamePass DEF passVars, Clocked
<1>4. CASE EngineStep \/ FaultNext
  <2>1. \/ cursor' = cursor
        \/ pc = "apply" /\ cursor' = next /\ pc' = "idle"
    BY <1>4 DEF EngineStep, FaultNext, StartPass, PushCreate, PushLookup, PushModify,
       PushRefused, ReplaceId, Ack, UpsertReply, ReadLocal, Settle, PushDone, Delta,
       FullCursor, FullLists, FullQuery, ApplyLive, ReadTombstone, MarkTombstone,
       RefreshLists, Save, Throw, Crash, CreateRefused, cacheVars
  <2>2. next' \in {NoCursor, next, clock}
    BY <1>4 DEF EngineStep, FaultNext, StartPass, PushCreate, PushLookup, PushModify,
       PushRefused, ReplaceId, Ack, UpsertReply, ReadLocal, Settle, PushDone, Delta,
       FullCursor, FullLists, FullQuery, ApplyLive, ReadTombstone, MarkTombstone,
       RefreshLists, Save, Throw, Crash, CreateRefused, Received, Abort, Forget, NoCursor
  <2>3. ASSUME pc' \in {"lists", "query", "apply", "tombstone"}
        PROVE  /\ cursor' = cursor
               /\ \/ next' \in {clock, NoCursor}
                  \/ next' = next /\ pc \in {"lists", "query", "apply", "tombstone"}
    <3>1. \/ Delta \/ FullCursor \/ FullLists \/ FullQuery \/ MarkTombstone \/ RefreshLists
          \/ \E x \in inbox : ApplyLive(x) \/ ReadTombstone(x)
      BY <1>4, <2>3 DEF EngineStep, FaultNext, StartPass, PushCreate, PushLookup, PushModify,
         PushRefused, ReplaceId, Ack, UpsertReply, ReadLocal, Settle, PushDone, Save,
         Throw, Crash, CreateRefused, Received, Abort
    <3> QED
      BY <3>1 DEF Delta, FullCursor, FullLists, FullQuery, ApplyLive, ReadTombstone,
         MarkTombstone, RefreshLists, cacheVars
  <2>4. cursor' <= clock' /\ next' <= clock'
    BY <1>1, <2>1, <2>2 DEF Clocked, NoCursor
  <2>5. pc' \in {"lists", "query", "apply", "tombstone"} => cursor' <= next' \/ next' = NoCursor
    BY <2>3 DEF Clocked
  <2> QED
    BY <1>2, <2>4, <2>5 DEF Clocked
<1> QED
  BY <1>3, <1>4 DEF Next

(* The token changes only when a pull ends. *)
LEMMA CursorSteps ==
  ASSUME [Next]_vars
  PROVE  cursor' = cursor \/ Save
<1>1. EngineStep \/ FaultNext => cursor' = cursor \/ Save
  BY DEF EngineStep, FaultNext, StartPass, PushCreate, PushLookup, PushModify,
     PushRefused, ReplaceId, Ack, UpsertReply, ReadLocal, Settle, PushDone, Delta,
     FullCursor, FullLists, FullQuery, ApplyLive, ReadTombstone, MarkTombstone,
     RefreshLists, Throw, Crash, CreateRefused, cacheVars
<1> QED
  BY <1>1, SamePass DEF Next

(* What is written is newer than the token. *)
LEMMA RecentStays ==
  ASSUME Typed, Clocked, [Next]_vars, NEW r \in Records
  PROVE  /\ cursor' = cursor /\ Recent(r) => cloud'[r].tag > cursor'
         /\ cursor' = cursor => cloud'[r] = cloud[r] \/ cloud'[r].tag > cursor'
         /\ \/ cloud'[r] = cloud[r]
            \/ cloud'[r].tag = clock + 1 /\ clock + 1 > next /\ clock + 1 > cursor
BY Writes DEF Clocked, Recent, Typed, TypeOK, CacheOK, CloudOK, PassOK

(* A create that has an id is an old one, or has just been given it. *)
LEMMA CreateEntries ==
  ASSUME Typed, [Next]_vars, NEW i \in 1..Len(outbox'), outbox'[i].op = "create",
         outbox'[i].id \in Records
  PROVE  \/ \E j \in 1..Len(outbox) : /\ outbox[j].op = "create"
                                      /\ outbox[j].id = outbox'[i].id
         \/ ReplaceId /\ outbox'[i].id = reply.id
<1> USE DEF Typed, TypeOK
<1>0. Len(outbox) \in Nat /\ Records \cap LocalIds = {}
  BY IdsAssumption DEF CacheOK
<1>1. CASE outbox' = outbox
  BY <1>1
<1>2. ASSUME NEW q \in LocalIds, CreateReminder(q)
      PROVE  \E j \in 1..Len(outbox) : outbox[j].op = "create" /\ outbox[j].id = outbox'[i].id
  <2>1. /\ Len(outbox') = Len(outbox) + 1
        /\ \A j \in 1..Len(outbox) : outbox'[j] = outbox[j]
        /\ outbox'[Len(outbox) + 1].id = q
    BY <1>2, CreateEffect
  <2> QED
    BY <1>0, <2>1
<1>3. ASSUME NEW q \in Ids, NEW o \in {"update", "delete"}, NEW p \in Patch \ {NoPatch},
             LocalChange(q, o, p)
      PROVE  \E j \in 1..Len(outbox) : outbox[j].op = "create" /\ outbox[j].id = outbox'[i].id
  <2>1. /\ Len(outbox') = Len(outbox) + 1
        /\ \A j \in 1..Len(outbox) : outbox'[j] = outbox[j]
        /\ outbox'[Len(outbox) + 1].op = o
    BY <1>3, LocalChangeEffect
  <2> QED
    BY <1>0, <2>1
<1>4. CASE ReplaceId
  <2>1. /\ outbox' = ReplaceIdOutbox(outbox, HeadItem.id, reply.id) /\ reply.id \in Ids
    BY <1>4, ReplaceIdEffect
  <2>2. /\ Len(outbox') = Len(outbox)
        /\ \A j \in 1..Len(outbox) :
             /\ outbox'[j].op = outbox[j].op
             /\ outbox'[j].id = IF outbox[j].id = HeadItem.id THEN reply.id ELSE outbox[j].id
    BY <2>1, ReplaceIdEntries DEF CacheOK
  <2> QED
    BY <1>4, <2>2
<1>5. CASE Ack \/ Settle
  <2>1. Shifted(outbox, outbox')
    BY <1>5, AckEffect, SettleEffect, TailShifts, AcknowledgeShifts DEF CacheOK
  <2> QED
    BY <1>0, <2>1 DEF Shifted
<1> QED
  BY <1>1, <1>2, <1>3, <1>4, <1>5, OutboxSteps

(* Each write has a tag later than every token saved before.                *)
LEMMA StepAnswers ==
  ASSUME Typed, Recreated, Clocked, Answers, [Next]_vars
  PROVE  Answers'
<1> USE DEF Typed, TypeOK
<1>0. reply.id # NoId => reply.id \in Records
  BY ChangeTyped
<1>1. ASSUME NEW i \in 1..Len(outbox'), outbox'[i].op = "create", outbox'[i].id \in Records
      PROVE  cloud'[outbox'[i].id].tag > cursor'
  <2>1. cursor' = cursor \/ Save
    BY CursorSteps
  <2>2. CASE Save
    BY <1>1, <2>2 DEF Save, Recreated, Pulling
  <2>3. CASE cursor' = cursor
    <3>1. Recent(outbox'[i].id)
      BY <1>1, CreateEntries DEF Answers, ReplaceId
    <3> QED
      BY <1>1, <2>3, <3>1, RecentStays
  <2> QED
    BY <2>1, <2>2, <2>3
<1> DEFINE Held == /\ pc' \in {"replace", "ack", "upsert"} => cloud'[reply'.id].tag > cursor'
                   /\ pc' \in {"modify", "clash", "settle"} /\ reply'.id # NoId =>
                        \/ reply' = Answer(reply'.id, cloud'[reply'.id])
                        \/ cloud'[reply'.id].tag > cursor'
<1>2. ASSUME cursor' = cursor, reply' = reply,
             \/ pc' = pc
             \/ pc \in {"replace", "ack", "upsert"} /\ pc' \in {"ack", "upsert"}
             \/ pc = "clash" /\ pc' = "settle"
      PROVE  Held
  <2>1. ASSUME pc' \in {"replace", "ack", "upsert"} PROVE cloud'[reply.id].tag > cursor'
    BY <1>2, <2>1, RecentStays DEF Answers, Upload
  <2>2. ASSUME pc' \in {"modify", "clash", "settle"}, reply.id # NoId
        PROVE  reply = Answer(reply.id, cloud'[reply.id]) \/ cloud'[reply.id].tag > cursor'
    <3>1. pc \in {"modify", "clash", "settle"} /\ reply.id \in Records
      BY <1>0, <1>2, <2>2
    <3>2. reply = Answer(reply.id, cloud[reply.id]) \/ Recent(reply.id)
      BY <2>2, <3>1 DEF Answers
    <3> QED
      BY <1>2, <3>1, <3>2, RecentStays
  <2> QED
    BY <1>2, <2>1, <2>2
<1>3. ASSUME NEW r \in Records, NEW lost \in BOOLEAN, PushCreate(r, lost) PROVE Held
  <2>1. /\ pc' = "idle" \/ (pc' = "replace" /\ reply' = Answer(r, cloud'[r]))
        /\ cursor' = cursor /\ cloud[r].state = "none"
        /\ cloud' = [cloud EXCEPT ![r] = Written("live", PatchedTitle(NoRecord, HeadPatch),
                        FALSE, clock + 1, "pc", HeadPatch.title)]
    BY <1>3 DEF PushCreate, Received, Abort, cacheVars
  <2>2. cloud'[r].tag = clock + 1 /\ Answer(r, cloud'[r]).id = r
    BY <2>1 DEF CloudOK, Written, Answer
  <2>3. clock + 1 > cursor
    BY DEF Clocked, CloudOK, CacheOK
  <2> QED
    BY <2>1, <2>2, <2>3
<1>4. ASSUME NEW lost \in BOOLEAN, PushModify(lost) PROVE Held
  <2> DEFINE r == reply.id
             w == Written("live", PatchedTitle(cloud[r], HeadPatch),
                          PatchedDeleted(cloud[r], HeadPatch), clock + 1, "pc", cloud[r].born)
  <2>1. /\ pc' = "idle" \/ (pc' = "ack" /\ reply' = Answer(r, w))
        /\ cursor' = cursor /\ r \in Records
        /\ cloud' = [cloud EXCEPT ![r] = w]
    BY <1>4 DEF PushModify, Received, Abort, cacheVars, Upload
  <2>2. cloud'[r].tag = clock + 1 /\ Answer(r, w).id = r
    BY <2>1 DEF CloudOK, Written, Answer
  <2>3. clock + 1 > cursor
    BY DEF Clocked, CloudOK, CacheOK
  <2> QED
    BY <2>1, <2>2, <2>3
<1>5. ASSUME PushLookup PROVE Held
  <2>1. \/ pc' = "idle"
        \/ pc' \in {"modify", "clash"} /\ reply' = Answer(HeadItem.id, cloud[HeadItem.id])
    BY <1>5 DEF PushLookup, Abort
  <2>2. cloud' = cloud /\ Answer(HeadItem.id, cloud[HeadItem.id]).id = HeadItem.id
    BY <1>5 DEF PushLookup, cloudVars, Answer
  <2> QED
    BY <2>1, <2>2
<1>6. ASSUME NEW kind \in RaceReplies, PushRefused(kind) PROVE Held
  <2>1. /\ cloud' = cloud /\ cursor' = cursor /\ reply.id \in Records
        /\ cloud[reply.id].tag # reply.tag /\ pc = "modify"
        /\ pc' = "idle" \/ (pc' = "clash" /\ reply' = Refusal(reply.id, kind))
    BY <1>6 DEF PushRefused, cloudVars, cacheVars, Upload, Received, Abort
  <2>2. kind \in {"record", "bare", "raw"}
    BY RepliesAssumption
  <2>3. Refusal(reply.id, kind).id \in {reply.id, NoId}
    BY <2>2 DEF Refusal, Answer, NoReply
  <2>4. Answer(reply.id, cloud[reply.id]).tag = cloud[reply.id].tag
    BY DEF Answer
  <2>5. reply.id # NoId
    BY <2>1, IdsAssumption DEF Ids
  <2>6. cloud[reply.id].tag > cursor
    BY <2>1, <2>4, <2>5 DEF Answers, Recent
  <2> QED
    BY <2>1, <2>3, <2>6
<1>7. ASSUME pc' \notin {"replace", "ack", "upsert", "modify", "clash", "settle"} PROVE Held
  BY <1>7
<1>8. ASSUME EngineStep \/ FaultNext PROVE Held
  <2>1. \/ pc' \notin {"replace", "ack", "upsert", "modify", "clash", "settle"}
        \/ \E r \in Records : PushCreate(r, FALSE) \/ PushCreate(r, TRUE)
        \/ PushModify(FALSE) \/ PushModify(TRUE) \/ PushLookup
        \/ \E kind \in RaceReplies : PushRefused(kind)
        \/ ReplaceId \/ Ack \/ ReadLocal \/ CreateRefused
    BY <1>8 DEF EngineStep, FaultNext, StartPass, UpsertReply, Settle, PushDone, Delta,
       FullCursor, FullLists, FullQuery, ApplyLive, ReadTombstone, MarkTombstone,
       RefreshLists, Save, Throw, Crash, Abort
  <2>2. ReplaceId \/ Ack \/ ReadLocal => Held
    BY <1>2 DEF ReplaceId, Ack, ReadLocal, cacheVars
  <2>3. CreateRefused => Held
    BY DEF CreateRefused, NoReply
  <2> HIDE DEF Held
  <2> QED
    BY <1>3, <1>4, <1>5, <1>6, <1>7, <2>1, <2>2, <2>3
<1>9. ASSUME UserNext \/ OtherNext \/ UNCHANGED vars PROVE Held
  BY <1>2, <1>9, SamePass DEF passVars
<1>10. Held
  BY <1>8, <1>9 DEF Next
<1> QED
  BY <1>1, <1>10 DEF Answers, Recent

(* How a pass comes to apply what it has downloaded, and how it goes on. *)
LEMMA ApplySteps ==
  ASSUME [Next]_vars, pc' \in {"apply", "tombstone"}
  PROVE  \/ Delta \/ FullQuery
         \/ /\ pc \in {"apply", "tombstone"} /\ next' = next /\ cursor' = cursor
            /\ inbox' \subseteq inbox
            /\ \A x \in inbox \ inbox' : ApplyLive(x) \/ ReadTombstone(x)
<1>1. CASE UserNext \/ OtherNext \/ UNCHANGED vars
  BY <1>1, SamePass DEF passVars, UserNext, CreateReminder, UpdateReminder, DeleteReminder,
     RestoreReminder, KeepLocal, KeepRemote, OtherNext, OtherEdit, OtherDelete,
     OtherErase, OtherWrites, OtherList, vars, cacheVars
<1>2. CASE EngineStep \/ FaultNext
  <2>1. \/ Delta \/ FullQuery \/ MarkTombstone \/ RefreshLists
        \/ \E x \in inbox : ApplyLive(x) \/ ReadTombstone(x)
    BY <1>2 DEF EngineStep, FaultNext, StartPass, PushCreate, PushLookup, PushModify,
       PushRefused, ReplaceId, Ack, UpsertReply, ReadLocal, Settle, PushDone, FullCursor,
       FullLists, Save, Throw, Crash, CreateRefused, Received, Abort
  <2>2. ASSUME NEW x \in inbox, ApplyLive(x) \/ ReadTombstone(x)
        PROVE  /\ pc \in {"apply", "tombstone"} /\ next' = next /\ cursor' = cursor
               /\ inbox' \subseteq inbox
               /\ \A y \in inbox \ inbox' : ApplyLive(y) \/ ReadTombstone(y)
    <3>1. /\ pc \in {"apply", "tombstone"} /\ next' = next /\ inbox' = inbox \ {x}
          /\ cursor' = cursor
      BY <2>2 DEF ApplyLive, ReadTombstone, cacheVars
    <3>2. \A y \in inbox \ inbox' : y = x
      BY <3>1
    <3> QED
      BY <2>2, <3>1, <3>2
  <2>3. MarkTombstone \/ RefreshLists =>
          pc \in {"apply", "tombstone"} /\ next' = next /\ cursor' = cursor /\ inbox' = inbox
    BY DEF MarkTombstone, RefreshLists
  <2> QED
    BY <2>1, <2>2, <2>3
<1> QED
  BY <1>1, <1>2 DEF Next

(* A record that changes after it was downloaded is newer than the token    *)
(* that the pull will save.                                                 *)
LEMMA StepFetched ==
  ASSUME Typed, Downloaded, Answered, Clocked, Fetched, CursorSound, [Next]_vars
  PROVE  Fetched'
<1> USE DEF Typed, TypeOK
<1> SUFFICES ASSUME pc' \in {"apply", "tombstone"}
             PROVE  /\ \A x \in inbox' : \/ /\ cloud'[x.id] = cloud[x.id]
                                            /\ x = Download(x.id)
                                         \/ /\ cloud'[x.id].tag > next'
                                            /\ cloud'[x.id].tag > cursor'
                    /\ \A r \in Records :
                         /\ cloud'[r].state = "live" /\ cloud'[r].tag <= next' /\ ~rows'[r].dirty
                         /\ \A x \in inbox' : x.id # r
                         => /\ rows'[r].here
                            /\ rows'[r].title = cloud'[r].title
                            /\ rows'[r].deleted = cloud'[r].deleted
                            /\ rows'[r].tag = cloud'[r].tag
  BY DEF Fetched, Recent, Download, Shows
<1>1. ASSUME NEW S \in SUBSET Records, inbox' = {Download(r) : r \in S},
             cloud' = cloud, rows' = rows,
             \A r \in Records \ S : cloud[r].state = "live" => cloud[r].tag <= cursor
      PROVE  /\ \A x \in inbox' : cloud'[x.id] = cloud[x.id] /\ x = Download(x.id)
             /\ \A r \in Records :
                  /\ cloud'[r].state = "live" /\ ~rows'[r].dirty
                  /\ \A x \in inbox' : x.id # r
                  => Shows(r)
  <2>1. \A r \in S : Download(r).id = r
    BY DEF Download
  <2>2. \A x \in inbox' : x.id \in S /\ x = Download(x.id)
    BY <1>1, <2>1
  <2>3. \A r \in S : \E x \in inbox' : x.id = r
    BY <1>1, <2>1
  <2> QED
    BY <1>1, <2>2, <2>3 DEF CursorSound, Shows
<1>2. CASE Delta
  <2> DEFINE S == {q \in Records : cloud[q].tag > cursor}
  <2>1. /\ inbox' = {Download(r) : r \in S} /\ cloud' = cloud /\ rows' = rows
    BY <1>2 DEF Delta, cloudVars, cacheVars
  <2>2. \A r \in Records \ S : cloud[r].tag <= cursor
    BY RecordTyped DEF CacheOK
  <2>3. S \in SUBSET Records
    OBVIOUS
  <2> HIDE DEF S
  <2> QED
    BY <1>1, <2>1, <2>2, <2>3 DEF Shows
<1>3. CASE FullQuery
  <2> DEFINE S == {q \in Records : cloud[q].state = "live"}
  <2>1. /\ inbox' = {Download(r) : r \in S} /\ cloud' = cloud /\ rows' = rows
    BY <1>3 DEF FullQuery, cloudVars, cacheVars
  <2>2. \A r \in Records \ S : cloud[r].state # "live"
    OBVIOUS
  <2>3. S \in SUBSET Records
    OBVIOUS
  <2> HIDE DEF S
  <2> QED
    BY <1>1, <2>1, <2>2, <2>3 DEF Shows
<1>4. ASSUME pc \in {"apply", "tombstone"}, next' = next, cursor' = cursor,
             inbox' \subseteq inbox,
             \A x \in inbox \ inbox' : ApplyLive(x) \/ ReadTombstone(x)
      PROVE  /\ \A x \in inbox' : \/ cloud'[x.id] = cloud[x.id] /\ x = Download(x.id)
                                  \/ cloud'[x.id].tag > next' /\ cloud'[x.id].tag > cursor'
             /\ \A r \in Records :
                  /\ cloud'[r].state = "live" /\ cloud'[r].tag <= next' /\ ~rows'[r].dirty
                  /\ \A x \in inbox' : x.id # r
                  => /\ cloud'[r] = cloud[r] /\ rows'[r].here
                     /\ rows'[r].title = cloud[r].title
                     /\ rows'[r].deleted = cloud[r].deleted
                     /\ rows'[r].tag = cloud[r].tag
  <2>0. next \in Nat /\ clock \in Nat /\ \A r \in Records : cloud[r].tag \in Nat
    BY RecordTyped DEF PassOK, CloudOK
  <2>1. ASSUME NEW x \in inbox'
        PROVE  \/ cloud'[x.id] = cloud[x.id] /\ x = Download(x.id)
               \/ cloud'[x.id].tag > next' /\ cloud'[x.id].tag > cursor'
    <3>1. x \in inbox /\ x.id \in Records
      BY <1>4, <2>1, ChangeTyped
    <3>2. x = Download(x.id) \/ (cloud[x.id].tag > next /\ cloud[x.id].tag > cursor)
      BY <1>4, <3>1 DEF Fetched, Recent
    <3>3. \/ cloud'[x.id] = cloud[x.id]
          \/ cloud'[x.id].tag > next /\ cloud'[x.id].tag > cursor
      BY <2>0, <3>1, RecentStays
    <3> QED
      BY <1>4, <3>2, <3>3
  <2>2. ASSUME NEW r \in Records, cloud'[r].state = "live", cloud'[r].tag <= next',
               ~rows'[r].dirty, \A x \in inbox' : x.id # r
        PROVE  /\ cloud'[r] = cloud[r] /\ rows'[r].here
               /\ rows'[r].title = cloud[r].title
               /\ rows'[r].deleted = cloud[r].deleted
               /\ rows'[r].tag = cloud[r].tag
    <3>1. cloud'[r] = cloud[r] /\ r \in Ids
      BY <1>4, <2>0, <2>2, RecentStays DEF Ids
    <3>2. CASE \E x \in inbox : x.id = r
      <4>1. PICK x \in inbox : x.id = r
        BY <3>2
      <4>2. ApplyLive(x) \/ ReadTombstone(x)
        BY <1>4, <2>2, <4>1
      <4>3. ~ReadTombstone(x)
        BY <2>2, <3>1, <4>1 DEF ReadTombstone, Downloaded
      <4>4. rows' = Upsert(rows, r, x)
        BY <4>1, <4>2, <4>3 DEF ApplyLive
      <4>5. ~rows[r].dirty
        BY <2>2, <3>1, <4>4, UpsertSpares DEF CacheOK
      <4>6. /\ rows'[r].here
            /\ rows'[r].title = x.title /\ rows'[r].deleted = x.deleted
            /\ rows'[r].tag = x.tag
        BY <3>1, <4>4, <4>5, UpsertShows DEF CacheOK
      <4>7. x = Download(r)
        BY <1>4, <2>0, <2>2, <3>1, <4>1 DEF Fetched
      <4> QED
        BY <3>1, <4>6, <4>7 DEF Download
    <3>3. CASE \A x \in inbox : x.id # r
      <4>1. ~MarkTombstone \/ victim # r
        BY <2>2, <3>1 DEF MarkTombstone, Downloaded
      <4>2. ~ReplaceId /\ ~Ack /\ ~UpsertReply /\ ~Settle
        BY <1>4 DEF ReplaceId, Ack, UpsertReply, Settle
      <4>3. rows'[r] = rows[r]
        BY <2>2, <3>3, <4>1, <4>2, RowSteps
      <4>4. Shows(r)
        BY <1>4, <2>2, <3>1, <3>3, <4>3 DEF Fetched
      <4> QED
        BY <3>1, <4>3, <4>4 DEF Shows
    <3> QED
      BY <3>2, <3>3
  <2> QED
    BY <2>1, <2>2
<1>5. CASE /\ pc \in {"apply", "tombstone"} /\ next' = next /\ cursor' = cursor
           /\ inbox' \subseteq inbox
           /\ \A x \in inbox \ inbox' : ApplyLive(x) \/ ReadTombstone(x)
  BY <1>4, <1>5
<1> QED
  BY <1>2, <1>3, <1>5, ApplySteps

(* Saving the token is sound because all of the download has been applied.  *)
LEMMA StepCursorSound ==
  ASSUME Typed, Downloaded, Answered, Recreated, Clocked, Answers, Fetched, CursorSound,
         [Next]_vars
  PROVE  CursorSound'
<1> USE DEF Typed, TypeOK
<1> SUFFICES ASSUME NEW r \in Records, cloud'[r].state = "live",
                    cloud'[r].tag <= cursor', ~rows'[r].dirty
             PROVE  /\ rows'[r].here
                    /\ rows'[r].title = cloud'[r].title
                    /\ rows'[r].deleted = cloud'[r].deleted
                    /\ rows'[r].tag = cloud'[r].tag
  BY DEF CursorSound
<1>0. cursor \in Nat /\ next \in Nat /\ clock \in Nat /\ \A q \in Records : cloud[q].tag \in Nat
  BY RecordTyped DEF PassOK, CloudOK, CacheOK
<1>1. CASE Save
  <2>1. rows' = rows /\ cloud' = cloud /\ inbox = {} /\ pc = "apply"
        /\ cursor' = (IF next = NoCursor THEN cursor ELSE next)
    BY <1>1 DEF Save, cloudVars
  <2>2. CASE next = NoCursor
    BY <2>1, <2>2 DEF CursorSound
  <2>3. CASE next # NoCursor
    BY <2>1, <2>3 DEF Fetched, Shows
  <2> QED
    BY <2>2, <2>3
<1>2. CASE cursor' = cursor
  <2>1. cloud'[r] = cloud[r] /\ ~Recent(r)
    BY <1>0, <1>2, RecentStays DEF Recent
  <2>2. CASE rows'[r] = rows[r]
    BY <1>2, <2>1, <2>2 DEF CursorSound
  <2>3. ~(ReplaceId /\ r \in {HeadItem.id, reply.id})
    <3>1. ReplaceId => HeadItem.op = "create" /\ HeadItem = outbox[1] /\ 1 \in 1..Len(outbox)
      BY HeadTyped DEF ReplaceId, Recreated, Upload
    <3> QED
      BY <2>1, <3>1 DEF Answers, ReplaceId
  <2>4. ~((Ack \/ UpsertReply) /\ r = reply.id)
    BY <2>1 DEF Answers, Ack, UpsertReply
  <2>5. ~(MarkTombstone /\ r = victim)
    BY <2>1 DEF MarkTombstone, Downloaded
  <2>6. ASSUME Settle, r = reply.id, rows'[r].here,
               rows'[r].title = reply.title, rows'[r].deleted = reply.deleted,
               rows'[r].tag = reply.tag
        PROVE  /\ rows'[r].title = cloud[r].title /\ rows'[r].deleted = cloud[r].deleted
               /\ rows'[r].tag = cloud[r].tag
    <3>1. reply.id # NoId /\ pc = "settle"
      BY <2>6, IdsAssumption DEF Ids, Settle
    <3>2. reply = Answer(r, cloud[r])
      BY <2>1, <2>6, <3>1 DEF Answers
    <3> QED
      BY <2>6, <3>2 DEF Answer
  <2>7. ASSUME NEW x \in inbox, ApplyLive(x), x.id = r, rows'[r].here,
               rows'[r].title = x.title, rows'[r].deleted = x.deleted, rows'[r].tag = x.tag
        PROVE  /\ rows'[r].title = cloud[r].title /\ rows'[r].deleted = cloud[r].deleted
               /\ rows'[r].tag = cloud[r].tag
    <3>1. pc = "apply"
      BY <2>7 DEF ApplyLive
    <3>2. x = Download(r)
      BY <1>0, <2>1, <2>7, <3>1 DEF Fetched, Recent
    <3> QED
      BY <2>7, <3>2 DEF Download
  <2> QED
    BY <2>1, <2>2, <2>3, <2>4, <2>5, <2>6, <2>7, RowSteps
<1> QED
  BY <1>1, <1>2, CursorSteps

(* Nothing that happened up to the saved token is missing from the cache,   *)
(* so the delta that starts there misses nothing, although the pass and the *)
(* other device and the user write between its requests.                    *)
THEOREM TokenIsSound == Spec => []CursorSound
<1> DEFINE Held == Clocked /\ Answers /\ Fetched /\ CursorSound
<1>1. Init => Held
  <2> SUFFICES ASSUME Init PROVE Held
    OBVIOUS
  <2>0. First \in Ids /\ First \in Records /\ [id \in Ids |-> NoRow] \in [Ids -> Row]
    BY IdsAssumption, Constants DEF Ids
  <2>1. /\ cloud[First].tag = 1
        /\ \A r \in Records \ {First} : cloud[r].tag = 0 /\ cloud[r].state = "none"
    BY <2>0 DEF Init, Written, NoRecord, NoTag
  <2>2. /\ clock = 1 /\ next = 0 /\ pc = "idle"
        /\ \/ cursor = 0
           \/ cursor = 1 /\ rows = Upsert([id \in Ids |-> NoRow], First, cloud[First])
    BY Zenon DEF Init
  <2>3. Clocked
    BY <2>1, <2>2 DEF Clocked
  <2>4. Answers /\ Fetched
    <3>1. pc = "idle" /\ outbox = <<>>
      BY DEF Init
    <3> QED
      BY <3>1 DEF Answers, Fetched
  <2>5. ASSUME NEW r \in Records, cloud[r].state = "live", cloud[r].tag <= cursor
        PROVE  Shows(r)
    <3>1. r = First /\ cursor # 0
      BY <2>1, <2>2, <2>5
    <3>2. rows = Upsert([id \in Ids |-> NoRow], First, cloud[First])
      BY <2>2, <3>1
    <3>3. ~[id \in Ids |-> NoRow][First].dirty
      BY <2>0 DEF NoRow
    <3> QED
      BY <2>0, <3>1, <3>2, <3>3, UpsertShows DEF Shows
  <2> QED
    BY <2>3, <2>4, <2>5 DEF CursorSound, Shows
<1>2. Typed /\ Kin /\ Held /\ [Next]_vars => Held'
  BY StepClocked, StepAnswers, StepFetched, StepCursorSound DEF Kin
<1> QED
  BY <1>1, <1>2, TypedAlways, KinAlways, PTL DEF Spec

-----------------------------------------------------------------------------
(* Whose version an upload replaces.                                        *)

(* A version that comes from iCloud has a tag. *)
Tagged ==
  /\ \A r \in Records : cloud[r].state # "none" => cloud[r].tag # NoTag
  /\ \A x \in inbox : x.tag # NoTag
  /\ pc \in {"modify", "replace", "ack", "upsert"} => reply.tag # NoTag
  /\ pc \in {"clash", "settle"} /\ reply.id = NoId => reply.tag = NoTag

(* A row without a tag is one that was made here and waits to be created,   *)
(* or one whose last conflict told nothing of its tag; and only behind a    *)
(* create or after such a conflict is an entry without a base tag.          *)
CreateOf(id, i) == outbox[i].op = "create" /\ outbox[i].id = id
Untagged ==
  /\ \A id \in Ids : rows[id].here /\ rows[id].tag = NoTag =>
       Untold(id) \/ \E j \in 1..Len(outbox) : CreateOf(id, j)
  /\ \A i \in 1..Len(outbox) : outbox[i].op # "create" /\ outbox[i].base = NoTag =>
       Untold(outbox[i].id) \/ \E j \in 1..Len(outbox) : j < i /\ CreateOf(outbox[i].id, j)

(* Only a refusal without fields lacks the tag of the version it tells of.  *)
LEMMA StepTagged ==
  ASSUME Typed, Tagged, [Next]_vars
  PROVE  Tagged'
<1> USE DEF Typed, TypeOK
<1>0. clock \in Nat /\ clock + 1 # NoTag
  BY DEF CloudOK, NoTag
<1>1. \A r \in Records : cloud'[r].state # "none" => cloud'[r].tag # NoTag
  BY <1>0, Writes DEF Tagged
<1>2. \A x \in inbox' : x.tag # NoTag
  <2>1. ASSUME NEW S \in SUBSET Records, \A r \in S : cloud[r].state # "none",
               inbox' = {Download(r) : r \in S}
        PROVE  \A x \in inbox' : x.tag # NoTag
    BY <2>1 DEF Download, Tagged
  <2>2. CASE Delta
    <3> DEFINE S == {q \in Records : cloud[q].tag > cursor}
    <3>1. \A r \in S : cloud[r].state # "none"
      BY RecordTyped DEF Unborn, CacheOK, NoTag
    <3>2. inbox' = {Download(r) : r \in S}
      BY <2>2 DEF Delta
    <3>3. S \in SUBSET Records
      OBVIOUS
    <3> HIDE DEF S
    <3> QED
      BY <2>1, <3>1, <3>2, <3>3
  <2>3. CASE FullQuery
    <3> DEFINE S == {q \in Records : cloud[q].state = "live"}
    <3>1. \A r \in S : cloud[r].state # "none"
      OBVIOUS
    <3>2. inbox' = {Download(r) : r \in S}
      BY <2>3 DEF FullQuery
    <3>3. S \in SUBSET Records
      OBVIOUS
    <3> HIDE DEF S
    <3> QED
      BY <2>1, <3>1, <3>2, <3>3
  <2>4. ASSUME EngineStep \/ FaultNext, ~Delta, ~FullQuery PROVE inbox' \subseteq inbox
    BY <2>4 DEF EngineStep, FaultNext, StartPass, PushCreate, PushLookup, PushModify,
       PushRefused, ReplaceId, Ack, UpsertReply, ReadLocal, Settle, PushDone, FullCursor,
       FullLists, ApplyLive, ReadTombstone, MarkTombstone, RefreshLists, Save,
       Throw, Crash, CreateRefused, Received, Abort, Forget
  <2> QED
    BY <2>2, <2>3, <2>4, SamePass DEF Next, passVars, Tagged
<1> DEFINE Held == /\ pc' \in {"modify", "replace", "ack", "upsert"} => reply'.tag # NoTag
                   /\ pc' \in {"clash", "settle"} /\ reply'.id = NoId => reply'.tag = NoTag
<1>3. ASSUME reply' = reply, \/ pc' = pc
                             \/ pc \in {"replace", "ack"} /\ pc' \in {"ack", "upsert"}
                             \/ pc = "clash" /\ pc' = "settle"
      PROVE  Held
  BY <1>3 DEF Tagged
<1>4. ASSUME NEW r \in Records, NEW lost \in BOOLEAN, PushCreate(r, lost) PROVE Held
  <2>1. /\ pc' = "idle" \/ reply' = Answer(r, cloud'[r])
        /\ cloud' = [cloud EXCEPT ![r] = Written("live", PatchedTitle(NoRecord, HeadPatch),
                        FALSE, clock + 1, "pc", HeadPatch.title)]
    BY <1>4 DEF PushCreate, Received, Abort
  <2>2. cloud'[r].tag = clock + 1 /\ Answer(r, cloud'[r]).tag = cloud'[r].tag
    BY <2>1 DEF CloudOK, Written, Answer
  <2>3. pc' \notin {"clash", "settle"}
    BY <1>4 DEF PushCreate, Received, Abort
  <2> QED
    BY <1>0, <2>1, <2>2, <2>3
<1>5. ASSUME NEW lost \in BOOLEAN, PushModify(lost) PROVE Held
  <2> DEFINE w == Written("live", PatchedTitle(cloud[reply.id], HeadPatch),
                          PatchedDeleted(cloud[reply.id], HeadPatch), clock + 1, "pc",
                          cloud[reply.id].born)
  <2>1. pc' = "idle" \/ reply' = Answer(reply.id, w)
    BY <1>5 DEF PushModify, Received, Abort
  <2>2. w.tag = clock + 1
    BY DEF Written
  <2>3. pc' \notin {"clash", "settle"}
    BY <1>5 DEF PushModify, Received, Abort
  <2> QED
    BY <1>0, <2>1, <2>2, <2>3 DEF Answer
<1>6. ASSUME PushLookup PROVE Held
  <2>1. \/ pc' = "idle"
        \/ /\ reply' = Answer(HeadItem.id, cloud[HeadItem.id])
           /\ HeadItem.id \in Records /\ cloud[HeadItem.id].state = "live"
    BY <1>6 DEF PushLookup, Abort
  <2>2. HeadItem.id \in Records => HeadItem.id # NoId
    BY IdsAssumption DEF Ids
  <2> QED
    BY <2>1, <2>2 DEF Answer, Tagged
<1>7. ASSUME NEW kind \in RaceReplies, PushRefused(kind) PROVE Held
  <2>1. /\ reply.id \in Records
        /\ \/ pc' = "idle"
           \/ reply' = Refusal(reply.id, kind) /\ cloud[reply.id].state = "live"
    BY <1>7 DEF PushRefused, Upload, Received, Abort
  <2>2. Refusal(reply.id, kind).id = NoId => Refusal(reply.id, kind).tag = NoTag
    BY <2>1, RepliesAssumption, IdsAssumption DEF Refusal, Answer, NoReply, Ids
  <2>3. pc' \notin {"modify", "replace", "ack", "upsert"}
    BY <1>7 DEF PushRefused, Received, Abort
  <2> QED
    BY <1>7, <2>1, <2>2, <2>3 DEF PushRefused, Abort
<1>8. ASSUME pc' \notin {"modify", "replace", "ack", "upsert", "clash", "settle"} PROVE Held
  BY <1>8
<1>9. ASSUME EngineStep \/ FaultNext PROVE Held
  <2>1. \/ pc' \notin {"replace", "ack", "upsert", "modify", "clash", "settle"}
        \/ \E r \in Records : PushCreate(r, FALSE) \/ PushCreate(r, TRUE)
        \/ PushModify(FALSE) \/ PushModify(TRUE) \/ PushLookup
        \/ \E kind \in RaceReplies : PushRefused(kind)
        \/ ReplaceId \/ Ack \/ ReadLocal \/ CreateRefused
    BY <1>9 DEF EngineStep, FaultNext, StartPass, UpsertReply, Settle, PushDone, Delta,
       FullCursor, FullLists, FullQuery, ApplyLive, ReadTombstone, MarkTombstone,
       RefreshLists, Save, Throw, Crash, Abort
  <2>2. ReplaceId \/ Ack \/ ReadLocal => Held
    BY <1>3 DEF ReplaceId, Ack, ReadLocal
  <2>3. CreateRefused => Held
    BY DEF CreateRefused, NoReply
  <2> HIDE DEF Held
  <2> QED
    BY <1>4, <1>5, <1>6, <1>7, <1>8, <2>1, <2>2, <2>3
<1>10. ASSUME UserNext \/ OtherNext \/ UNCHANGED vars PROVE Held
  BY <1>3, <1>10, SamePass DEF passVars
<1>11. Held
  BY <1>9, <1>10 DEF Next
<1> QED
  BY <1>1, <1>2, <1>11 DEF Tagged

(* What a conflict has not told stays untold. *)
LEMMA UntoldStays ==
  ASSUME Typed, [Next]_vars, NEW id, Untold(id)
  PROVE  Untold(id)'
<1>1. PICK i \in 1..Len(conflicts) : conflicts[i].id = id /\ conflicts[i].remote.tag = NoTag
  BY DEF Untold
<1>2. i \in 1..Len(conflicts') /\ SameCase(conflicts[i], conflicts'[i])
  BY StepKeepsHistory
<1> QED
  BY <1>1, <1>2 DEF Untold, SameCase

(* A conflict settled without a tag is on record. *)
LEMMA SettleUntold ==
  ASSUME Typed, Settle, reply.tag = NoTag, NEW h, h = HeadItem.id
  PROVE  Untold(h)'
<1> DEFINE c == [id |-> h, local |-> local, remote |-> reply, kept |-> "none"]
<1>1. conflicts \in Seq(Conflict)
  BY DEF Typed, TypeOK, CacheOK
<1>2. conflicts' = Append(conflicts, c)
  BY Zenon DEF Settle
<1>3. c.id = h /\ c.remote.tag = NoTag
  OBVIOUS
<1> HIDE DEF c
<1>4. Len(conflicts') \in 1..Len(conflicts') /\ conflicts'[Len(conflicts')] = c
  BY <1>1, <1>2
<1> QED
  BY <1>3, <1>4 DEF Untold

(* A row gets its tag when its create is acknowledged, and the entries      *)
(* behind that create get it then too.                                      *)
LEMMA StepUntagged ==
  ASSUME Typed, Answered, Tagged, Untagged, [Next]_vars
  PROVE  Untagged'
<1> USE DEF Typed, TypeOK
<1>0. Len(outbox) \in Nat
  BY DEF CacheOK
<1> DEFINE Told(id) == \A k \in 1..Len(conflicts') :
                         conflicts'[k].id = id => conflicts'[k].remote.tag # NoTag
<1>00. \A id : Untold(id) => ~Told(id)
  <2> SUFFICES ASSUME NEW id, Untold(id) PROVE ~Told(id)
    OBVIOUS
  <2>1. Untold(id)'
    BY UntoldStays
  <2> QED
    BY <2>1 DEF Untold
<1> HIDE DEF Told
<1> DEFINE Fine == /\ \A id \in Ids : rows'[id].here /\ rows'[id].tag = NoTag /\ Told(id) =>
                        \E j \in 1..Len(outbox') : outbox'[j].op = "create" /\ outbox'[j].id = id
                   /\ \A i \in 1..Len(outbox') : /\ outbox'[i].op # "create" /\ outbox'[i].base = NoTag
                        /\ Told(outbox'[i].id) =>
                        \E j \in 1..Len(outbox') : /\ j < i /\ outbox'[j].op = "create"
                                                   /\ outbox'[j].id = outbox'[i].id
<1>1. ASSUME outbox' = outbox,
             \A id \in Ids : rows'[id].here /\ rows'[id].tag = NoTag
                               => rows[id].here /\ rows[id].tag = NoTag
      PROVE  Fine
  BY <1>00, <1>1 DEF Untagged, CreateOf
<1>2. ASSUME NEW q \in Ids, Len(outbox') = Len(outbox) + 1,
             \A i \in 1..Len(outbox) : outbox'[i] = outbox[i],
             outbox'[Len(outbox) + 1].id = q,
             \A id \in Ids \ {q} : rows'[id] = rows[id],
             \/ outbox'[Len(outbox) + 1].op = "create"
             \/ /\ rows[q].here /\ rows'[q].tag = rows[q].tag
                /\ outbox'[Len(outbox) + 1].base = rows[q].tag
      PROVE  Fine
  <2>1. ASSUME NEW id \in Ids, rows'[id].here, rows'[id].tag = NoTag, Told(id)
        PROVE  \E j \in 1..Len(outbox') : outbox'[j].op = "create" /\ outbox'[j].id = id
    <3>1. CASE id = q /\ outbox'[Len(outbox) + 1].op = "create"
      BY <1>0, <1>2, <3>1
    <3>2. CASE rows[id].here /\ rows[id].tag = NoTag
      <4>1. PICK j \in 1..Len(outbox) : outbox[j].op = "create" /\ outbox[j].id = id
        BY <1>00, <2>1, <3>2 DEF Untagged, CreateOf
      <4> QED
        BY <1>0, <1>2, <4>1
    <3> QED
      BY <1>2, <2>1, <3>1, <3>2
  <2>2. ASSUME NEW i \in 1..Len(outbox'), outbox'[i].op # "create", outbox'[i].base = NoTag,
               Told(outbox'[i].id)
        PROVE  \E j \in 1..Len(outbox') : /\ j < i /\ outbox'[j].op = "create"
                                          /\ outbox'[j].id = outbox'[i].id
    <3>1. CASE i = Len(outbox) + 1
      <4>1. rows[q].here /\ rows[q].tag = NoTag /\ outbox'[i].id = q
        BY <1>2, <2>2, <3>1
      <4>2. PICK j \in 1..Len(outbox) : outbox[j].op = "create" /\ outbox[j].id = q
        BY <1>00, <2>2, <4>1 DEF Untagged, CreateOf
      <4> QED
        BY <1>0, <1>2, <3>1, <4>1, <4>2
    <3>2. CASE i \in 1..Len(outbox)
      <4>1. PICK j \in 1..Len(outbox) : j < i /\ outbox[j].op = "create"
                                              /\ outbox[j].id = outbox[i].id
        BY <1>00, <1>2, <2>2, <3>2 DEF Untagged, CreateOf
      <4> QED
        BY <1>0, <1>2, <3>2, <4>1
    <3> QED
      BY <1>0, <1>2, <3>1, <3>2
  <2> QED
    BY <2>1, <2>2
<1>3. ASSUME NEW q \in LocalIds, CreateReminder(q) PROVE Fine
  <2>1. /\ Len(outbox') = Len(outbox) + 1 /\ q \in Ids
        /\ \A i \in 1..Len(outbox) : outbox'[i] = outbox[i]
        /\ outbox'[Len(outbox) + 1].id = q /\ outbox'[Len(outbox) + 1].op = "create"
        /\ \A id \in Ids \ {q} : rows'[id] = rows[id]
    BY <1>3, CreateEffect
  <2> HIDE DEF Fine
  <2> QED
    BY <1>2, <2>1
<1>4. ASSUME NEW q \in Ids, NEW o \in {"update", "delete"}, NEW p \in Patch \ {NoPatch},
             LocalChange(q, o, p)
      PROVE  Fine
  <2>1. /\ Len(outbox') = Len(outbox) + 1
        /\ \A i \in 1..Len(outbox) : outbox'[i] = outbox[i]
        /\ outbox'[Len(outbox) + 1].id = q
        /\ outbox'[Len(outbox) + 1].base = rows[q].tag
        /\ rows[q].here /\ rows'[q].tag = rows[q].tag
        /\ \A id \in Ids \ {q} : rows'[id] = rows[id]
    BY <1>4, LocalChangeEffect
  <2> HIDE DEF Fine
  <2> QED
    BY <1>2, <2>1
<1>5. ASSUME ReplaceId PROVE Fine
  <2> DEFINE old == HeadItem.id
             new == reply.id
  <2>1. /\ rows' = ReplaceIdRows(rows, old, new) /\ old \in Ids /\ new \in Ids
        /\ outbox' = ReplaceIdOutbox(outbox, old, new)
    BY <1>5, ReplaceIdEffect
  <2>2. /\ Len(outbox') = Len(outbox)
        /\ \A j \in 1..Len(outbox) :
             /\ outbox'[j].op = outbox[j].op /\ outbox'[j].base = outbox[j].base
             /\ outbox'[j].id = IF outbox[j].id = old THEN new ELSE outbox[j].id
    BY <2>1, ReplaceIdEntries DEF CacheOK
  <2> HIDE DEF old, new
  <2>3. /\ \A q \in Ids \ {old, new} : rows'[q] = rows[q]
        /\ \/ rows' = rows /\ (~rows[old].here \/ old = new)
           \/ rows'[new] = rows[old] /\ rows'[old] = NoRow
    BY <2>1, ReplacedIdRows DEF CacheOK
  <2>4. ~NoRow.here
    BY DEF NoRow
  <2>7. 1 \in 1..Len(outbox) /\ outbox[1].op = "create" /\ outbox[1].id = old
    BY <1>5, HeadTyped DEF ReplaceId, Upload, old
  <2>5. ASSUME NEW id \in Ids, rows'[id].here, rows'[id].tag = NoTag, Told(id)
        PROVE  \E j \in 1..Len(outbox') : outbox'[j].op = "create" /\ outbox'[j].id = id
    <3>1. PICK q \in Ids : /\ rows[q].here /\ rows[q].tag = NoTag
                           /\ id = IF q = old THEN new ELSE q
      BY <2>1, <2>3, <2>4, <2>5
    <3>2. PICK j \in 1..Len(outbox) : outbox[j].op = "create" /\ outbox[j].id = q
      <4>1. CASE q = old
        BY <2>7, <4>1
      <4>2. CASE q # old
        BY <1>00, <2>5, <3>1, <4>2 DEF Untagged, CreateOf
      <4> QED
        BY <4>1, <4>2
    <3> QED
      BY <2>2, <3>1, <3>2
  <2>6. ASSUME NEW i \in 1..Len(outbox'), outbox'[i].op # "create", outbox'[i].base = NoTag,
               Told(outbox'[i].id)
        PROVE  \E j \in 1..Len(outbox') : /\ j < i /\ outbox'[j].op = "create"
                                          /\ outbox'[j].id = outbox'[i].id
    <3>1. PICK j \in 1..Len(outbox) : j < i /\ outbox[j].op = "create"
                                            /\ outbox[j].id = outbox[i].id
      <4>1. CASE outbox[i].id = old
        BY <2>2, <2>6, <2>7, <4>1
      <4>2. CASE outbox[i].id # old
        BY <1>00, <2>2, <2>6, <4>2 DEF Untagged, CreateOf
      <4> QED
        BY <4>1, <4>2
    <3> QED
      BY <2>2, <3>1
  <2> QED
    BY <2>5, <2>6
<1>6. ASSUME Shifted(outbox, outbox'), outbox # <<>>, NEW h \in Ids,
             HeadItem.op # "create" \/ HeadItem.id = h,
             \/ HeadItem.op # "create" \/ ~Told(h)
             \/ \A i \in 1..Len(outbox') : outbox'[i].id = h => outbox'[i].base # NoTag,
             \A i \in 1..Len(outbox') :
               outbox'[i].base = outbox[i + 1].base \/ outbox'[i].base # NoTag,
             \A id \in Ids : rows'[id].here /\ rows'[id].tag = NoTag /\ Told(id)
                => /\ rows[id].here /\ rows[id].tag = NoTag
                   /\ HeadItem.op # "create" \/ id # h
      PROVE  Fine
  <2>0. HeadItem = outbox[1] /\ 1 \in 1..Len(outbox) /\ Len(outbox') = Len(outbox) - 1
    BY <1>6, HeadTyped DEF Shifted
  <2>1. ASSUME NEW j \in 1..Len(outbox), outbox[j].op = "create",
               HeadItem.op # "create" \/ outbox[j].id # h
        PROVE  /\ j # 1 /\ j - 1 \in 1..Len(outbox')
               /\ outbox'[j - 1].op = "create" /\ outbox'[j - 1].id = outbox[j].id
    <3>1. j # 1
      BY <1>6, <2>0, <2>1
    <3>2. j - 1 \in 1..Len(outbox') /\ (j - 1) + 1 = j
      BY <1>0, <2>0, <3>1
    <3> QED
      BY <1>6, <2>1, <3>1, <3>2 DEF Shifted
  <2>2. ASSUME NEW id \in Ids, rows'[id].here, rows'[id].tag = NoTag, Told(id)
        PROVE  \E j \in 1..Len(outbox') : outbox'[j].op = "create" /\ outbox'[j].id = id
    <3>1. rows[id].here /\ rows[id].tag = NoTag /\ (HeadItem.op # "create" \/ id # h)
      BY <1>6, <2>2
    <3>2. PICK j \in 1..Len(outbox) : outbox[j].op = "create" /\ outbox[j].id = id
      BY <1>00, <2>2, <3>1 DEF Untagged, CreateOf
    <3> QED
      BY <2>1, <3>1, <3>2
  <2>3. ASSUME NEW i \in 1..Len(outbox'), outbox'[i].op # "create", outbox'[i].base = NoTag,
               Told(outbox'[i].id)
        PROVE  \E j \in 1..Len(outbox') : /\ j < i /\ outbox'[j].op = "create"
                                          /\ outbox'[j].id = outbox'[i].id
    <3>1. /\ i + 1 \in 1..Len(outbox) /\ outbox[i + 1].op # "create"
          /\ outbox[i + 1].base = NoTag /\ outbox[i + 1].id = outbox'[i].id
      BY <1>0, <1>6, <2>0, <2>3 DEF Shifted
    <3>2. PICK j \in 1..Len(outbox) : j < i + 1 /\ outbox[j].op = "create"
                                            /\ outbox[j].id = outbox[i + 1].id
      BY <1>00, <2>3, <3>1 DEF Untagged, CreateOf
    <3>3. HeadItem.op # "create" \/ outbox[j].id # h
      BY <1>6, <2>3, <3>1, <3>2
    <3>4. j - 1 < i
      BY <3>2
    <3> QED
      BY <2>1, <3>1, <3>2, <3>3, <3>4
  <2> QED
    BY <2>2, <2>3
<1>7. ASSUME Ack PROVE Fine
  <2>0. reply.tag # NoTag
    BY <1>7, IdsAssumption DEF Tagged, Ack, Upload, Ids
  <2>1. /\ outbox # <<>> /\ HeadItem.id = reply.id /\ reply.id \in Ids
        /\ rows' = AcknowledgeRows(rows, outbox, reply.id, reply.tag)
        /\ outbox' = Rebase(Tail(outbox), reply.id, reply.tag)
        /\ Tail(outbox) \in Seq(Item(Ids)) /\ reply.tag \in Nat
    BY <1>7, AckEffect
  <2>2. Shifted(outbox, outbox')
    BY <2>1, AcknowledgeShifts DEF CacheOK
  <2> DEFINE t == Tail(outbox)
  <2>3. \A i \in 1..Len(t) : t[i] = outbox[i + 1]
    BY <2>1, HeadTailType DEF CacheOK
  <2>4. t \in Seq(Item(Ids)) /\ outbox' = Rebase(t, reply.id, reply.tag)
    BY <2>1
  <2> HIDE DEF t
  <2>5. \A i \in 1..Len(outbox') :
          /\ outbox'[i].id = reply.id => outbox'[i].base # NoTag
          /\ outbox'[i].base = outbox[i + 1].base \/ outbox'[i].base # NoTag
    <3>1. /\ Len(outbox') = Len(t)
          /\ \A i \in 1..Len(t) :
               /\ outbox'[i].id = t[i].id
               /\ outbox'[i].base = IF t[i].id = reply.id THEN reply.tag ELSE t[i].base
      BY <2>1, <2>4, RebaseEntries
    <3> QED
      BY <2>0, <2>3, <3>1
  <2>6. \A id \in Ids : rows'[id].here /\ rows'[id].tag = NoTag
                          => rows[id].here /\ rows[id].tag = NoTag /\ id # reply.id
    BY <2>0, <2>1, AcknowledgedRows DEF CacheOK
  <2> HIDE DEF Fine
  <2> QED
    BY <1>6, <2>1, <2>2, <2>5, <2>6
<1>8. ASSUME Settle PROVE Fine
  <2>1. /\ outbox # <<>> /\ outbox' = Tail(outbox) /\ HeadItem.id \in Ids
        /\ \A q \in Ids \ {HeadItem.id} : rows'[q] = rows[q]
        /\ \/ rows' = rows
           \/ reply.id = HeadItem.id /\ reply.id \in Records /\ rows'[HeadItem.id].tag = reply.tag
    BY <1>8, SettleOutcome
  <2>2. Shifted(outbox, outbox') /\ \A i \in 1..Len(outbox') : outbox'[i] = outbox[i + 1]
    BY <2>1, TailShifts, HeadTailType DEF CacheOK
  <2>3. CASE reply.tag # NoTag
    <3>1. HeadItem.op # "create"
      BY <1>8, <2>3 DEF Settle, Upload, Tagged
    <3>2. \A id \in Ids : rows'[id].here /\ rows'[id].tag = NoTag
                            => rows[id].here /\ rows[id].tag = NoTag
      BY <2>1, <2>3
    <3> HIDE DEF Fine
    <3> QED
      BY <1>6, <2>1, <2>2, <3>1, <3>2
  <2>4. CASE reply.tag = NoTag
    <3>1. PICK h \in Ids : h = HeadItem.id
      BY <2>1
    <3>2. ~Told(h)
      <4>1. Untold(h)'
        BY <1>8, <2>4, <3>1, SettleUntold
      <4> QED
        BY <4>1 DEF Told, Untold
    <3>3. \A id \in Ids : rows'[id].here /\ rows'[id].tag = NoTag /\ Told(id)
                            => rows[id].here /\ rows[id].tag = NoTag /\ id # h
      BY <2>1, <3>1, <3>2
    <3> HIDE DEF Fine
    <3> QED
      BY <1>6, <2>1, <2>2, <3>1, <3>2, <3>3
  <2> QED
    BY <2>3, <2>4
<1>9. ASSUME UpsertReply PROVE Fine
  <2>1. /\ reply.id \in Ids /\ rows' = Upsert(rows, reply.id, reply) /\ outbox' = outbox
        /\ reply.tag # NoTag /\ reply.title \in Text /\ reply.deleted \in BOOLEAN
        /\ reply.tag \in Nat
    BY <1>9, IdsAssumption, ChangeTyped DEF UpsertReply, Upload, Ids, Tagged
  <2>2. /\ \A q \in Ids \ {reply.id} : rows'[q] = rows[q]
        /\ rows'[reply.id] = rows[reply.id] \/ rows'[reply.id].tag = reply.tag
    BY <2>1, UpsertSpares, UpsertShows DEF CacheOK
  <2> QED
    BY <1>1, <2>1, <2>2
<1>10. ASSUME NEW x \in inbox, ApplyLive(x) PROVE Fine
  <2>1. /\ x.id \in Ids /\ rows' = Upsert(rows, x.id, x) /\ outbox' = outbox
        /\ x.tag # NoTag
    BY <1>10, ChangeTyped DEF ApplyLive, Tagged
  <2>2. /\ \A q \in Ids \ {x.id} : rows'[q] = rows[q]
        /\ rows'[x.id] = rows[x.id] \/ rows'[x.id].tag = x.tag
    BY <2>1, UpsertSpares, UpsertShows DEF CacheOK
  <2> QED
    BY <1>1, <2>1, <2>2
<1>11. ASSUME MarkTombstone PROVE Fine
  <2>1. victim \in Ids /\ SetDeleted("set") \in Patch /\ outbox' = outbox
    BY <1>11, Constants DEF MarkTombstone, Upload, Ids, Marks
  <2>2. PICK d \in BOOLEAN : d = FALSE
    OBVIOUS
  <2>3. rows' = Edit(rows, victim, SetDeleted("set"), d)
    BY <1>11, <2>2, Zenon DEF MarkTombstone
  <2>4. /\ \A q \in Ids \ {victim} : rows'[q] = rows[q]
        /\ rows'[victim].here = rows[victim].here /\ rows'[victim].tag = rows[victim].tag
    BY <2>1, <2>3, EditRows DEF CacheOK
  <2> QED
    BY <1>1, <2>1, <2>4
<1>12. ASSUME UNCHANGED <<rows, outbox>> PROVE Fine
  BY <1>1, <1>12
<1>13. Fine
  <2> HIDE DEF Fine
  <2> QED
    BY <1>3, <1>4, <1>5, <1>7, <1>8, <1>9, <1>10, <1>11, <1>12, CacheSteps
<1> QED
  BY <1>13 DEF Untagged, CreateOf, Told, Untold

(* An upload replaces another device's version only if the user made the    *)
(* edit looking at that version, whatever the other device does between the *)
(* lookup and the write; or if the refusal of an earlier edit of the        *)
(* reminder did not tell which version it lost against.                     *)
THEOREM OverwritesKnowingly == Spec => NoBlindOverwrite
<1> DEFINE Step == \A r \in Records : Overwrites(r) =>
                     \/ HeadItem.base = cloud[r].tag
                     \/ HeadItem.base = NoTag /\ Untold(r)
<1>1. Init => Tagged /\ Untagged
  <2> SUFFICES ASSUME Init PROVE Tagged /\ Untagged
    OBVIOUS
  <2>0. First \in Ids /\ First \in Records /\ [id \in Ids |-> NoRow] \in [Ids -> Row]
    BY IdsAssumption, Constants DEF Ids
  <2>1. /\ cloud[First].tag = 1 /\ 1 # NoTag
        /\ \A r \in Records \ {First} : cloud[r].state = "none"
    BY <2>0 DEF Init, Written, NoRecord, NoTag
  <2>2. /\ outbox = <<>> /\ pc = "idle" /\ inbox = {}
        /\ \/ rows = [id \in Ids |-> NoRow]
           \/ rows = Upsert([id \in Ids |-> NoRow], First, cloud[First])
    BY Zenon DEF Init
  <2>3. ~NoRow.here /\ ~NoRow.dirty
    BY DEF NoRow
  <2>4. \A id \in Ids : rows[id].here => rows[id].tag # NoTag
    BY <2>0, <2>1, <2>2, <2>3, UpsertSpares, UpsertShows
  <2> QED
    BY <2>1, <2>2, <2>4 DEF Tagged, Untagged
<1>2. Typed /\ Kin /\ (Tagged /\ Untagged) /\ [Next]_vars => (Tagged /\ Untagged)'
  BY StepTagged, StepUntagged DEF Kin
<1>3. Typed /\ Untagged /\ [Next]_vars => Step
  <2> SUFFICES ASSUME Typed, Untagged, [Next]_vars, NEW r \in Records,
                      cloud[r].by = "other", cloud[r].state # "none", cloud'[r].by = "pc",
                      HeadItem.base # cloud[r].tag
               PROVE  HeadItem.base = NoTag /\ Untold(r)
    BY DEF Overwrites
  <2> USE DEF Typed, TypeOK, CloudOK
  <2>1. PICK lost \in BOOLEAN : PushModify(lost)
    <3>1. ~(cloud' = cloud)
      OBVIOUS
    <3>2. ASSUME NEW q \in Records, NEW t \in Text, NEW d \in BOOLEAN,
                 NEW s \in {"live", "erased"}, OtherWrites(q, t, d, s)
          PROVE  FALSE
      BY <3>2 DEF OtherWrites, Written
    <3>3. ASSUME NEW q \in Records, NEW lost \in BOOLEAN, PushCreate(q, lost)
          PROVE  FALSE
      BY <3>3 DEF PushCreate
    <3> QED
      BY <3>1, <3>2, <3>3, CloudSteps
  <2>2. r = reply.id /\ reply.tag = cloud[r].tag /\ outbox # <<>> /\ HeadItem.id = r
        /\ HeadItem.base \in {NoTag, reply.tag} /\ HeadItem.op # "create"
    BY <2>1 DEF PushModify, Upload
  <2>3. HeadItem = outbox[1] /\ 1 \in 1..Len(outbox)
    BY <2>2, HeadTyped
  <2>4. HeadItem.base = NoTag
    BY <2>2
  <2>5. Len(outbox) \in Nat
    BY DEF CacheOK
  <2> QED
    BY <2>2, <2>3, <2>4, <2>5 DEF Untagged
<1> QED
  BY <1>1, <1>2, <1>3, TypedAlways, KinAlways, PTL DEF Spec, NoBlindOverwrite

-----------------------------------------------------------------------------
(* Who is alone with the account has no conflicts.                          *)

(* While nobody else has written and nothing has got lost, each tag the PC  *)
(* holds for a record that still exists is the record's own.                *)
Alone == others + faults = 0
Upto(r) ==
  /\ pc \in {"modify", "replace", "ack", "upsert"} /\ reply.id = r => reply.tag = cloud[r].tag
  /\ \A x \in inbox : x.id = r => x.tag = cloud[r].tag
  /\ ~(pc \in {"replace", "ack"} /\ reply.id = r) =>
       /\ rows[r].here => rows[r].tag \in {NoTag, cloud[r].tag}
       /\ \A i \in 1..Len(outbox) : outbox[i].id = r => outbox[i].base \in {NoTag, cloud[r].tag}

(* The inductive form of ConflictIsGenuine.                                 *)
Quiet ==
  Alone => /\ conflicts = <<>> /\ pc \notin {"clash", "settle"}
           /\ \A r \in Records : cloud[r].state = "live" => Upto(r)

(* The other device and the faults are counted. *)
LEMMA AloneSteps ==
  ASSUME Typed, [Next]_vars, others' + faults' = 0
  PROVE  /\ Alone /\ others' = others /\ faults' = faults
         /\ \A r \in Records : cloud'[r].state = "live" =>
              \/ cloud'[r] = cloud[r]
              \/ PushCreate(r, FALSE) \/ (PushModify(FALSE) /\ r = reply.id)
         /\ ~Crash /\ ~Throw /\ ~CreateRefused /\ ~PushModify(TRUE)
         /\ \A r \in Records : ~PushCreate(r, TRUE)
<1> USE DEF Typed, TypeOK, EnvOK, Alone
<1>1. others \in Nat /\ faults \in Nat /\ others' \in Nat /\ faults' \in Nat
  <2>1. Typed'
    BY StepTyped
  <2> QED
    BY <2>1
<1>2. others <= others' /\ faults <= faults'
  <2>1. UserNext \/ (UNCHANGED vars) => others' = others /\ faults' = faults
    BY DEF UserNext, CreateReminder, UpdateReminder, DeleteReminder, RestoreReminder,
       KeepLocal, KeepRemote, vars, envVars
  <2>2. OtherNext => others' \in {others, others + 1} /\ faults' = faults
    BY DEF OtherNext, OtherEdit, OtherDelete, OtherErase, OtherWrites, OtherList
  <2>3. EngineStep => others' = others /\ faults' = faults
    BY DEF EngineStep, StartPass, PushCreate, PushLookup, PushModify, PushRefused,
       ReplaceId, Ack, UpsertReply, ReadLocal, Settle, PushDone, Delta, FullCursor,
       FullLists, FullQuery, ApplyLive, ReadTombstone, MarkTombstone, RefreshLists, Save,
       Received, envVars
  <2>4. FaultNext => others' = others /\ faults' = faults + 1
    BY DEF FaultNext, PushCreate, PushModify, Throw, Crash, CreateRefused, Received
  <2>5. others <= others + 1 /\ faults <= faults + 1 /\ others <= others /\ faults <= faults
    BY <1>1
  <2> QED
    BY <2>1, <2>2, <2>3, <2>4, <2>5 DEF Next
<1>3. Alone /\ others' = others /\ faults' = faults
  <2>1. others' = 0 /\ faults' = 0
    <3>1. \A a, b \in Nat : a + b = 0 => a = 0 /\ b = 0
      OBVIOUS
    <3> QED
      BY <1>1, <3>1
  <2>2. others = 0 /\ faults = 0
    BY <1>1, <1>2, <2>1
  <2> QED
    BY <2>1, <2>2
<1>4. /\ ~Crash /\ ~Throw /\ ~CreateRefused /\ ~PushModify(TRUE)
      /\ \A r \in Records : ~PushCreate(r, TRUE)
  <2>1. faults' # faults + 1
    BY <1>1, <1>3
  <2> QED
    BY <2>1 DEF Crash, Throw, CreateRefused, PushModify, PushCreate, Received
<1>5. ASSUME NEW r \in Records, cloud'[r].state = "live", cloud'[r] # cloud[r]
      PROVE  PushCreate(r, FALSE) \/ (PushModify(FALSE) /\ r = reply.id)
  <2>1. cloud \in [Records -> Record]
    BY DEF CloudOK
  <2>2. ASSUME NEW q \in Records, NEW lost \in BOOLEAN, PushCreate(q, lost)
        PROVE  PushCreate(r, FALSE)
    <3>1. lost \in {TRUE, FALSE} /\ q = r
      BY <1>5, <2>1, <2>2 DEF PushCreate
    <3>2. CASE lost = TRUE
      BY <1>4, <2>2, <3>2
    <3>3. CASE lost = FALSE
      BY <2>2, <3>1, <3>3
    <3> QED
      BY <3>1, <3>2, <3>3
  <2>3. ASSUME NEW lost \in BOOLEAN, PushModify(lost)
        PROVE  PushModify(FALSE) /\ r = reply.id
    <3>1. lost \in {TRUE, FALSE} /\ r = reply.id
      BY <1>5, <2>1, <2>3 DEF PushModify
    <3>2. CASE lost = TRUE
      BY <1>4, <2>3, <3>2
    <3>3. CASE lost = FALSE
      BY <2>3, <3>1, <3>3
    <3> QED
      BY <3>1, <3>2, <3>3
  <2>4. ASSUME OtherNext PROVE FALSE
    <3>1. ASSUME NEW q \in Records, OtherErase(q) PROVE FALSE
      <4>1. cloud' = [cloud EXCEPT ![q] = Written("erased", cloud[q].title, TRUE, clock + 1,
                                                  "other", cloud[q].born)]
        BY <3>1 DEF OtherErase, OtherWrites
      <4>2. q = r
        BY <1>5, <2>1, <4>1
      <4> QED
        BY <1>5, <2>1, <4>1, <4>2 DEF Written
    <3>2. ASSUME NEW q \in Records, OtherEdit(q) \/ OtherDelete(q) PROVE FALSE
      <4>1. others' = others + 1
        BY <3>2 DEF OtherEdit, OtherDelete
      <4> QED
        BY <1>1, <1>3, <4>1
    <3>3. OtherList => cloud' = cloud
      BY DEF OtherList
    <3> QED
      BY <1>5, <2>4, <3>1, <3>2, <3>3 DEF OtherNext
  <2>5. UserNext \/ (UNCHANGED vars) => cloud' = cloud
    BY DEF UserNext, CreateReminder, UpdateReminder, DeleteReminder, RestoreReminder,
       KeepLocal, KeepRemote, vars, cloudVars
  <2>6. EngineStep \/ FaultNext =>
          \/ cloud' = cloud
          \/ \E q \in Records, lost \in BOOLEAN : PushCreate(q, lost)
          \/ \E lost \in BOOLEAN : PushModify(lost)
    <3>1. ASSUME EngineStep
          PROVE  cloud' = cloud \/ (\E q \in Records : PushCreate(q, FALSE)) \/ PushModify(FALSE)
      BY <3>1 DEF EngineStep, StartPass, PushLookup, PushRefused, ReplaceId, Ack,
         UpsertReply, ReadLocal, Settle, PushDone, Delta, FullCursor, FullLists, FullQuery,
         ApplyLive, ReadTombstone, MarkTombstone, RefreshLists, Save, cloudVars
    <3>2. ASSUME FaultNext
          PROVE  cloud' = cloud \/ (\E q \in Records : PushCreate(q, TRUE)) \/ PushModify(TRUE)
      BY <3>2 DEF FaultNext, Throw, Crash, CreateRefused, cloudVars
    <3> QED
      BY <3>1, <3>2
  <2> QED
    BY <1>5, <2>2, <2>3, <2>4, <2>5, <2>6 DEF Next
<1> QED
  BY <1>3, <1>4, <1>5

(* Acknowledging an upload hands the new tag on to all that refer to the    *)
(* record.                                                                  *)
LEMMA StepQuiet ==
  ASSUME Typed, Downloaded, Answered, Quiet, [Next]_vars
  PROVE  Quiet'
<1> USE DEF Typed, TypeOK
<1> SUFFICES ASSUME others' + faults' = 0
             PROVE  /\ conflicts' = <<>> /\ pc' \notin {"clash", "settle"}
                    /\ \A r \in Records : cloud'[r].state = "live" => Upto(r)'
  BY DEF Quiet, Alone
<1>1. /\ ~Crash /\ ~Throw /\ ~CreateRefused /\ ~PushModify(TRUE) /\ \A r \in Records : ~PushCreate(r, TRUE)
      /\ \A r \in Records : cloud'[r].state = "live" =>
              \/ cloud'[r] = cloud[r]
              \/ PushCreate(r, FALSE) \/ (PushModify(FALSE) /\ r = reply.id)
  BY AloneSteps
<1>2. /\ conflicts = <<>> /\ pc \notin {"clash", "settle"}
      /\ \A r \in Records : cloud[r].state = "live" => Upto(r)
  BY AloneSteps DEF Quiet
<1>3. ~Settle /\ ~ReadLocal
  BY <1>2 DEF Settle, ReadLocal
<1>4. conflicts' = <<>>
  <2>1. Len(conflicts) = 0
    BY <1>2
  <2>2. \A i \in 1..Len(conflicts) : FALSE
    BY <2>1
  <2>3. UserNext \/ OtherNext \/ (UNCHANGED vars) => conflicts' = conflicts
    BY <2>2 DEF UserNext, CreateReminder, UpdateReminder, DeleteReminder, RestoreReminder,
       OtherNext, OtherEdit, OtherDelete, OtherErase, OtherWrites, OtherList, vars, cacheVars
  <2>4. EngineStep \/ FaultNext => conflicts' = conflicts
    BY <1>3 DEF EngineStep, FaultNext, StartPass, PushCreate, PushLookup, PushModify,
       PushRefused, ReplaceId, Ack, UpsertReply, PushDone, Delta, FullCursor, FullLists,
       FullQuery, ApplyLive, ReadTombstone, MarkTombstone, RefreshLists, Save, Throw,
       Crash, CreateRefused, cacheVars
  <2> QED
    BY <1>2, <2>3, <2>4 DEF Next
<1>5. ASSUME PushLookup PROVE pc' \in {"idle", "modify"}
  <2>1. /\ pc = "head" /\ outbox # <<>>
        /\ \/ pc' = "idle"
           \/ /\ HeadItem.id \in Records /\ cloud[HeadItem.id].state = "live"
              /\ pc' = IF HeadItem.base \in {NoTag, cloud[HeadItem.id].tag} THEN "modify" ELSE "clash"
    BY <1>5 DEF PushLookup, Abort
  <2>2. HeadItem = outbox[1] /\ 1 \in 1..Len(outbox)
    BY <2>1, HeadTyped
  <2>3. \/ pc' = "idle"
        \/ HeadItem.base \in {NoTag, cloud[HeadItem.id].tag}
    BY <1>2, <2>1, <2>2 DEF Upto
  <2> QED
    BY <2>1, <2>3
<1>6. ASSUME NEW kind \in RaceReplies, PushRefused(kind) PROVE pc' = "idle"
  <2>1. /\ pc = "modify" /\ reply.id \in Records /\ cloud[reply.id].tag # reply.tag
    BY <1>6 DEF PushRefused, Upload
  <2>2. cloud[reply.id].state # "live"
    BY <1>2, <2>1 DEF Upto
  <2> QED
    BY <1>6, <2>2 DEF PushRefused, Abort
<1>7. EngineStep \/ FaultNext =>
        \/ pc' \notin {"replace", "ack", "upsert", "modify", "clash", "settle"}
        \/ \E q \in Records : PushCreate(q, FALSE)
        \/ PushModify(FALSE) \/ PushLookup
        \/ \E kind \in RaceReplies : PushRefused(kind)
        \/ ReplaceId \/ Ack
  BY <1>1, <1>3 DEF EngineStep, FaultNext, StartPass, UpsertReply, PushDone, Delta,
     FullCursor, FullLists, FullQuery, ApplyLive, ReadTombstone, MarkTombstone,
     RefreshLists, Save, Abort
<1>8. pc' \notin {"clash", "settle"}
  <2>1. UserNext \/ OtherNext \/ (UNCHANGED vars) => pc' = pc
    BY SamePass DEF passVars
  <2>2. (\E q \in Records : PushCreate(q, FALSE)) => pc' = "replace"
    BY DEF PushCreate, Received
  <2>3. PushModify(FALSE) => pc' = "ack"
    BY DEF PushModify, Received
  <2>4. ReplaceId \/ Ack => pc' \in {"ack", "upsert"}
    BY DEF ReplaceId, Ack
  <2> QED
    BY <1>2, <1>5, <1>6, <1>7, <2>1, <2>2, <2>3, <2>4 DEF Next
<1>9. ASSUME NEW r \in Records, cloud'[r].state = "live" PROVE Upto(r)'
  <2>0. r \in Ids /\ r \notin LocalIds /\ Len(outbox) \in Nat
    BY IdsAssumption DEF Ids, CacheOK
  <2>1. ASSUME NEW q \in Records, PushCreate(q, FALSE)
        PROVE  /\ pc' = "replace" /\ reply'.id = q /\ reply'.tag = cloud'[q].tag
               /\ inbox' = {}
    <3>1. pc' = "replace" /\ reply' = Answer(q, cloud'[q]) /\ inbox' = inbox /\ pc = "head"
      BY <2>1 DEF PushCreate, Received
    <3> QED
      BY <3>1 DEF Answer, Downloaded
  <2>2. ASSUME PushModify(FALSE)
        PROVE  /\ pc' = "ack" /\ reply'.id = reply.id /\ reply'.tag = cloud'[reply.id].tag
               /\ inbox' = {}
    <3> DEFINE w == Written("live", PatchedTitle(cloud[reply.id], HeadPatch),
                            PatchedDeleted(cloud[reply.id], HeadPatch), clock + 1, "pc",
                            cloud[reply.id].born)
    <3>1. /\ pc' = "ack" /\ reply' = Answer(reply.id, w) /\ inbox' = inbox /\ pc = "modify"
          /\ cloud' = [cloud EXCEPT ![reply.id] = w] /\ reply.id \in Records
      BY <2>2 DEF PushModify, Received, Upload
    <3> HIDE DEF w
    <3>2. cloud'[reply.id] = w
      BY <3>1 DEF CloudOK
    <3> QED
      BY <3>1, <3>2 DEF Answer, Downloaded
  <2>3. CASE PushCreate(r, FALSE) \/ (PushModify(FALSE) /\ r = reply.id)
    BY <2>1, <2>2, <2>3 DEF Upto
  <2>4. ASSUME cloud'[r] = cloud[r] PROVE Upto(r)'
    <3>1. Upto(r)
      BY <1>2, <1>9, <2>4
    <3>2. pc' \in {"modify", "replace", "ack", "upsert"} /\ reply'.id = r => reply'.tag = cloud[r].tag
      <4>1. CASE UserNext \/ OtherNext \/ UNCHANGED vars
        BY <3>1, <4>1, SamePass DEF passVars, Upto
      <4>2. PushLookup => \/ pc' = "idle"
                          \/ reply'.tag = cloud[HeadItem.id].tag /\ reply'.id = HeadItem.id
        BY DEF PushLookup, Answer, Abort
      <4>3. ReplaceId \/ Ack => pc \in {"replace", "ack"} /\ reply' = reply
        BY DEF ReplaceId, Ack
      <4>4. CASE EngineStep \/ FaultNext
        BY <1>6, <1>7, <2>1, <2>2, <2>4, <3>1, <4>2, <4>3, <4>4 DEF Upto
      <4> QED
        BY <4>1, <4>4 DEF Next
    <3>3. \A x \in inbox' : x.id = r => x.tag = cloud[r].tag
      <4>1. CASE pc' \in {"apply", "tombstone"}
        <5>1. Delta \/ FullQuery => \A x \in inbox' : x.tag = cloud[x.id].tag
          BY DEF Delta, FullQuery, Download
        <5> QED
          BY <3>1, <4>1, <5>1, ApplySteps DEF Upto
      <4>2. CASE pc' \notin {"apply", "tombstone"}
        BY <4>2, StepDownloaded DEF Downloaded
      <4> QED
        BY <4>1, <4>2
    <3>4. ASSUME ~(pc' \in {"replace", "ack"} /\ reply'.id = r)
          PROVE  /\ rows'[r].here => rows'[r].tag \in {NoTag, cloud[r].tag}
                 /\ \A i \in 1..Len(outbox') :
                      outbox'[i].id = r => outbox'[i].base \in {NoTag, cloud[r].tag}
      <4>1. CASE pc \in {"replace", "ack"} /\ reply.id = r
        <5>1. reply.tag = cloud[r].tag
          BY <3>1, <4>1 DEF Upto
        <5>2. Ack
          <6>1. ~(UserNext \/ OtherNext \/ UNCHANGED vars)
            BY <3>4, <4>1, SamePass DEF passVars
          <6>2. EngineStep \/ FaultNext
            BY <6>1 DEF Next
          <6>3. ReplaceId \/ Ack
            BY <1>1, <4>1, <6>2 DEF EngineStep, FaultNext, StartPass, PushCreate, PushLookup,
               PushModify, PushRefused, UpsertReply, ReadLocal, Settle, PushDone, Delta,
               FullCursor, FullLists, FullQuery, ApplyLive, ReadTombstone, MarkTombstone,
               RefreshLists, Save
          <6> QED
            BY <3>4, <4>1, <6>3 DEF ReplaceId
        <5>3. /\ rows' = AcknowledgeRows(rows, outbox, r, reply.tag)
              /\ Tail(outbox) \in Seq(Item(Ids)) /\ reply.tag \in Nat
              /\ outbox' = Rebase(Tail(outbox), r, reply.tag)
          BY <4>1, <5>2, AckEffect
        <5>4. rows'[r].here => rows'[r].tag = reply.tag
          <6>1. rows \in [Ids -> Row] /\ r \in Ids
            BY <2>0 DEF CacheOK
          <6> HIDE DEF Typed, TypeOK
          <6> QED
            BY <5>3, <6>1, AcknowledgedRows
        <5> DEFINE t == Tail(outbox)
        <5>5. t \in Seq(Item(Ids)) /\ outbox' = Rebase(t, r, reply.tag)
          BY <5>3
        <5> HIDE DEF t
        <5>6. \A i \in 1..Len(outbox') : outbox'[i].id = r => outbox'[i].base = reply.tag
          <6>1. reply.tag \in Nat
            BY <5>3
          <6>2. \A i \in 1..Len(outbox') :
                  outbox'[i].id = t[i].id /\ Len(outbox') = Len(t)
                  /\ outbox'[i].base = IF t[i].id = r THEN reply.tag ELSE t[i].base
            <7> HIDE DEF Typed, TypeOK
            <7> QED
              BY <2>0, <5>5, <6>1, RebaseEntries
          <6> QED
            BY <6>2
        <5> QED
          BY <5>1, <5>4, <5>6
      <4>2. CASE ~(pc \in {"replace", "ack"} /\ reply.id = r)
        <5>0. /\ rows[r].here => rows[r].tag \in {NoTag, cloud[r].tag}
              /\ \A i \in 1..Len(outbox) : outbox[i].id = r => outbox[i].base \in {NoTag, cloud[r].tag}
          BY <3>1, <4>2 DEF Upto
        <5>1. rows'[r].here => rows'[r].tag \in {NoTag, cloud[r].tag}
          <6>1. ASSUME ReplaceId, r \in {HeadItem.id, reply.id}
                PROVE  ~rows'[r].here \/ rows'[r] = rows[r]
            <7>1. /\ rows' = ReplaceIdRows(rows, HeadItem.id, reply.id)
                  /\ HeadItem.id \in Ids /\ reply.id \in Ids /\ r = HeadItem.id /\ r # reply.id
              BY <4>2, <6>1, ReplaceIdEffect DEF ReplaceId
            <7>2. rows'[r] = NoRow \/ rows'[r] = rows[r]
              <8>1. CASE rows[r].here
                BY <7>1, <8>1, ReplacedIdRows DEF CacheOK
              <8>2. CASE ~rows[r].here
                BY <7>1, <8>2, ReplacedIdRows DEF CacheOK
              <8> QED
                BY <8>1, <8>2
            <7> QED
              BY <7>2 DEF NoRow
          <6>2. UpsertReply /\ r = reply.id => reply.tag = cloud[r].tag
            BY <3>1 DEF UpsertReply, Upto
          <6>3. ~(Ack /\ r = reply.id)
            BY <4>2 DEF Ack
          <6>4. \A x \in inbox : x.id = r => x.tag = cloud[r].tag
            BY <3>1 DEF Upto
          <6> QED
            BY <1>3, <5>0, <6>1, <6>2, <6>3, <6>4, RowSteps
        <5>2. ASSUME NEW i \in 1..Len(outbox'), outbox'[i].id = r
              PROVE  outbox'[i].base \in {NoTag, cloud[r].tag}
          <6>1. ASSUME NEW q \in LocalIds, CreateReminder(q)
                PROVE  outbox'[i].base \in {NoTag, cloud[r].tag}
            <7>1. /\ Len(outbox') = Len(outbox) + 1
                  /\ \A j \in 1..Len(outbox) : outbox'[j] = outbox[j]
                  /\ outbox'[Len(outbox) + 1].id = q
              BY <6>1, CreateEffect
            <7>2. i \in 1..Len(outbox)
              BY <2>0, <5>2, <7>1
            <7> QED
              BY <5>0, <5>2, <7>1, <7>2
          <6>2. ASSUME NEW q \in Ids, NEW o \in {"update", "delete"}, NEW p \in Patch \ {NoPatch},
                       LocalChange(q, o, p)
                PROVE  outbox'[i].base \in {NoTag, cloud[r].tag}
            <7>1. /\ Len(outbox') = Len(outbox) + 1
                  /\ \A j \in 1..Len(outbox) : outbox'[j] = outbox[j]
                  /\ outbox'[Len(outbox) + 1].id = q
                  /\ outbox'[Len(outbox) + 1].base = rows[q].tag /\ rows[q].here
              BY <6>2, LocalChangeEffect
            <7>2. CASE i \in 1..Len(outbox)
              BY <5>0, <5>2, <7>1, <7>2
            <7>3. CASE i = Len(outbox) + 1
              BY <5>0, <5>2, <7>1, <7>3
            <7> QED
              BY <2>0, <7>1, <7>2, <7>3
          <6>3. ASSUME ReplaceId
                PROVE  outbox'[i].base \in {NoTag, cloud[r].tag}
            <7>1. /\ outbox' = ReplaceIdOutbox(outbox, HeadItem.id, reply.id)
                  /\ reply.id \in Ids /\ r # reply.id
              BY <4>2, <6>3, ReplaceIdEffect DEF ReplaceId
            <7>2. /\ i \in 1..Len(outbox) /\ outbox'[i].base = outbox[i].base
                  /\ outbox'[i].id = IF outbox[i].id = HeadItem.id THEN reply.id ELSE outbox[i].id
              BY <7>1, ReplaceIdEntries DEF CacheOK
            <7> QED
              BY <5>0, <5>2, <7>1, <7>2
          <6>4. ASSUME Ack
                PROVE  outbox'[i].base \in {NoTag, cloud[r].tag}
            <7>1. /\ outbox # <<>> /\ Tail(outbox) \in Seq(Item(Ids)) /\ reply.tag \in Nat
                  /\ outbox' = Rebase(Tail(outbox), reply.id, reply.tag) /\ reply.id # r
              BY <4>2, <6>4, AckEffect DEF Ack
            <7> DEFINE t == Tail(outbox)
            <7>2. /\ t \in Seq(Item(Ids)) /\ outbox' = Rebase(t, reply.id, reply.tag)
                  /\ \A j \in 1..Len(t) : j + 1 \in 1..Len(outbox) /\ t[j] = outbox[j + 1]
              BY <7>1, HeadTailType DEF CacheOK
            <7> HIDE DEF t
            <7>3. /\ i \in 1..Len(t) /\ outbox'[i].id = t[i].id
                  /\ outbox'[i].base = IF t[i].id = reply.id THEN reply.tag ELSE t[i].base
              BY <7>1, <7>2, RebaseEntries
            <7> QED
              BY <5>0, <5>2, <7>1, <7>2, <7>3
          <6> QED
            BY <1>3, <5>0, <5>2, <6>1, <6>2, <6>3, <6>4, OutboxSteps
        <5> QED
          BY <5>1, <5>2
      <4> QED
        BY <4>1, <4>2
    <3> QED
      BY <2>4, <3>2, <3>3, <3>4 DEF Upto
  <2> QED
    BY <1>1, <1>9, <2>3, <2>4
<1> QED
  BY <1>4, <1>8, <1>9

(* A conflict means that another device has written or an answer has been   *)
(* lost: queued edits of this PC never conflict with each other, because    *)
(* each acknowledgement gives the entries behind it the new tag.            *)
THEOREM ConflictsAreGenuine == Spec => []ConflictIsGenuine
<1>1. Init => Quiet
  <2> SUFFICES ASSUME Init, NEW r \in Records, cloud[r].state = "live"
               PROVE  Upto(r)
    BY DEF Init, Quiet
  <2>0. First \in Ids /\ First \in Records /\ [id \in Ids |-> NoRow] \in [Ids -> Row]
    BY IdsAssumption, Constants DEF Ids
  <2>1. r = First
    BY <2>0 DEF Init, Written, NoRecord
  <2>2. /\ outbox = <<>> /\ pc = "idle" /\ inbox = {}
        /\ \/ rows = [id \in Ids |-> NoRow]
           \/ rows = Upsert([id \in Ids |-> NoRow], First, cloud[First])
    BY Zenon DEF Init
  <2>3. ~NoRow.here /\ ~NoRow.dirty
    BY DEF NoRow
  <2>4. rows[r].here => rows[r].tag = cloud[r].tag
    BY <2>0, <2>1, <2>2, <2>3, UpsertShows
  <2> QED
    BY <2>2, <2>4 DEF Upto
<1>2. Typed /\ Kin /\ Quiet /\ [Next]_vars => Quiet'
  BY StepQuiet DEF Kin
<1>3. Typed /\ Quiet => ConflictIsGenuine
  <2> SUFFICES ASSUME Typed, Quiet, conflicts # <<>> PROVE others + faults > 0
    BY DEF ConflictIsGenuine
  <2>1. \A a, b \in Nat : a + b = 0 \/ a + b > 0
    OBVIOUS
  <2>2. others + faults # 0
    BY DEF Quiet, Alone
  <2> QED
    BY <2>1, <2>2 DEF Typed, TypeOK, EnvOK
<1> QED
  BY <1>1, <1>2, <1>3, TypedAlways, KinAlways, PTL DEF Spec

-----------------------------------------------------------------------------
(* One reminder, one record.                                                *)

(* The records made for the reminder that was created with text t. *)
Born(t) == {q \in Records : cloud[q].born = t}

(* The records made so far are no more than the faults allow; a reminder    *)
(* whose creation still waits has one less, unless it is just being         *)
(* acknowledged.  No two creations share a text.                            *)
Creation(i) == outbox[i].op = "create"
Paired == pc \in {"replace", "ack"}
Births ==
  /\ \A r \in Records : cloud[r].born < Fresh
  /\ \A r \in Records : cloud[r].state = "none" => cloud[r].born = NoText
  /\ \A t \in Text : IsFiniteSet(Born(t)) /\ Cardinality(Born(t)) <= 1 + faults
Waiting ==
  /\ \A i \in 1..Len(outbox) : Creation(i) =>
       /\ outbox[i].patch.title \in Text /\ outbox[i].patch.title < Fresh
       /\ Cardinality(Born(outbox[i].patch.title)) <= faults \/ (i = 1 /\ Paired)
  /\ \A i, j \in 1..Len(outbox) :
       Creation(i) /\ Creation(j) /\ outbox[i].patch.title = outbox[j].patch.title => i = j

(* The counters never go back. *)
LEMMA CountersGrow ==
  ASSUME Typed, [Next]_vars
  PROVE  /\ Fresh \in Nat /\ Fresh' \in Nat /\ Fresh <= Fresh'
         /\ faults \in Nat /\ faults' \in Nat /\ faults <= faults'
<1>1. /\ edits \in Nat /\ others \in Nat /\ faults \in Nat
      /\ edits' \in Nat /\ others' \in Nat /\ faults' \in Nat
  <2>1. Typed'
    BY StepTyped
  <2> QED
    BY <2>1 DEF Typed, TypeOK, EnvOK
<1>2. /\ edits' \in {edits, edits + 1} /\ others' \in {others, others + 1}
      /\ faults' \in {faults, faults + 1}
  <2>1. UserNext \/ (UNCHANGED vars) =>
          edits' \in {edits, edits + 1} /\ others' = others /\ faults' = faults
    BY DEF UserNext, CreateReminder, UpdateReminder, DeleteReminder, RestoreReminder,
       KeepLocal, KeepRemote, UserCall, vars, envVars
  <2>2. OtherNext => edits' = edits /\ others' \in {others, others + 1} /\ faults' = faults
    BY DEF OtherNext, OtherEdit, OtherDelete, OtherErase, OtherWrites, OtherList
  <2>3. EngineStep => edits' = edits /\ others' = others /\ faults' = faults
    BY DEF EngineStep, StartPass, PushCreate, PushLookup, PushModify, PushRefused,
       ReplaceId, Ack, UpsertReply, ReadLocal, Settle, PushDone, Delta, FullCursor,
       FullLists, FullQuery, ApplyLive, ReadTombstone, MarkTombstone, RefreshLists, Save,
       Received, envVars
  <2>4. FaultNext => edits' = edits /\ others' = others /\ faults' = faults + 1
    BY DEF FaultNext, PushCreate, PushModify, Throw, Crash, CreateRefused, Received
  <2> QED
    BY <2>1, <2>2, <2>3, <2>4 DEF Next
<1>3. edits <= edits' /\ others <= others' /\ faults <= faults'
  <2>1. \A a, b \in Nat : b \in {a, a + 1} => a <= b
    OBVIOUS
  <2> QED
    BY <1>1, <1>2, <2>1
<1>4. Fresh \in Nat /\ Fresh' \in Nat /\ Fresh <= Fresh'
  <2>1. Fresh = edits + others + 3 /\ Fresh' = edits' + others' + 3
    BY DEF Fresh
  <2>2. \A a, b, c, d \in Nat : a <= b /\ c <= d =>
          a + c + 3 \in Nat /\ b + d + 3 \in Nat /\ a + c + 3 <= b + d + 3
    OBVIOUS
  <2> QED
    BY <1>1, <1>3, <2>1, <2>2
<1> QED
  BY <1>1, <1>3, <1>4

(* Only a create begets a record, and from an unwritten one; every other    *)
(* write keeps what the record was born from.                               *)
LEMMA BornSteps ==
  ASSUME Typed, [Next]_vars
  PROVE  \/ \A r \in Records : /\ cloud'[r].born = cloud[r].born
                               /\ cloud'[r].state = "none" => cloud[r].state = "none"
         \/ \E r \in Records, lost \in BOOLEAN : PushCreate(r, lost)
<1> DEFINE Same == \A r \in Records : /\ cloud'[r].born = cloud[r].born
                                      /\ cloud'[r].state = "none" => cloud[r].state = "none"
<1> USE DEF Typed, TypeOK, CloudOK
<1>1. ASSUME NEW q \in Records, NEW s, NEW t, NEW d, NEW g, NEW by, s # "none",
             cloud' = [cloud EXCEPT ![q] = Written(s, t, d, g, by, cloud[q].born)]
      PROVE  Same
  <2>1. /\ Written(s, t, d, g, by, cloud[q].born).state = s
        /\ Written(s, t, d, g, by, cloud[q].born).born = cloud[q].born
    BY DEF Written
  <2> QED
    BY <1>1, <2>1
<1>2. cloud' = cloud => Same
  OBVIOUS
<1>3. ASSUME NEW q \in Records, NEW t, NEW d, NEW s \in {"live", "erased"},
             OtherWrites(q, t, d, s)
      PROVE  Same
  <2>1. s # "none"
    OBVIOUS
  <2>2. cloud' = [cloud EXCEPT ![q] = Written(s, t, d, clock + 1, "other", cloud[q].born)]
    BY <1>3 DEF OtherWrites
  <2> HIDE DEF Same
  <2> QED
    BY <1>1, <2>1, <2>2
<1>4. ASSUME NEW lost \in BOOLEAN, PushModify(lost) PROVE Same
  <2>1. reply.id \in Records
    BY <1>4 DEF PushModify, Upload
  <2>2. cloud' = [cloud EXCEPT ![reply.id] =
                    Written("live", PatchedTitle(cloud[reply.id], HeadPatch),
                            PatchedDeleted(cloud[reply.id], HeadPatch), clock + 1, "pc",
                            cloud[reply.id].born)]
    BY <1>4 DEF PushModify
  <2> HIDE DEF Same
  <2> QED
    BY <1>1, <2>1, <2>2
<1> HIDE DEF Same
<1>5. Same \/ \E r \in Records, lost \in BOOLEAN : PushCreate(r, lost)
  BY <1>2, <1>3, <1>4, CloudSteps
<1> QED
  BY <1>5 DEF Same

(* The entry of a create keeps its text until it leaves, which it does from *)
(* the front; a new one has the fresh text.                                 *)
LEMMA CreationSteps ==
  ASSUME Typed, [Next]_vars
  PROVE  \E k \in {0, 1} :
           /\ (k = 1) <=> (Ack \/ Settle)
           /\ \A i \in 1..Len(outbox') : outbox'[i].op = "create" =>
                \/ /\ i + k \in 1..Len(outbox) /\ Creation(i + k)
                   /\ outbox'[i].patch.title = outbox[i + k].patch.title
                \/ /\ i = Len(outbox) + 1 /\ k = 0
                   /\ outbox'[i].patch.title = Fresh /\ Fresh < Fresh' /\ cloud' = cloud
<1> USE DEF Typed, TypeOK, CacheOK
<1> DEFINE Old(k, i) == /\ i + k \in 1..Len(outbox) /\ Creation(i + k)
                        /\ outbox'[i].patch.title = outbox[i + k].patch.title
           New(i) == /\ i = Len(outbox) + 1
                     /\ outbox'[i].patch.title = Fresh /\ Fresh < Fresh' /\ cloud' = cloud
           Goal(k) == \A i \in 1..Len(outbox') : outbox'[i].op = "create" =>
                        Old(k, i) \/ (New(i) /\ k = 0)
<1> SUFFICES \E k \in {0, 1} : ((k = 1) <=> (Ack \/ Settle)) /\ Goal(k)
  OBVIOUS
<1>0. Len(outbox) \in Nat
  OBVIOUS
<1>1. ASSUME outbox' = outbox PROVE Goal(0)
  BY <1>0, <1>1 DEF Creation
<1>2. ASSUME NEW q \in LocalIds, CreateReminder(q) PROVE Goal(0)
  <2>1. /\ Len(outbox') = Len(outbox) + 1
        /\ \A i \in 1..Len(outbox) : outbox'[i] = outbox[i]
        /\ outbox'[Len(outbox) + 1].patch = SetTitle(Fresh)
    BY <1>2, CreateEffect
  <2>2. Fresh \in Nat /\ SetTitle(Fresh).title = Fresh
    BY FreshType, Constants
  <2>3. Fresh < Fresh' /\ cloud' = cloud
    <3>1. edits' = edits + 1 /\ others' = others /\ cloud' = cloud
      BY <1>2 DEF CreateReminder, UserCall, cloudVars
    <3>2. \A a, b \in Nat : a + b + 3 < a + 1 + b + 3
      OBVIOUS
    <3> QED
      BY <3>1, <3>2 DEF Fresh, EnvOK
  <2>4. New(Len(outbox) + 1)
    BY <2>1, <2>2, <2>3
  <2>5. \A i \in 1..Len(outbox) : outbox'[i].op = "create" => Old(0, i)
    BY <1>0, <2>1 DEF Creation
  <2> HIDE DEF Old, New
  <2> QED
    BY <1>0, <2>1, <2>4, <2>5
<1>3. ASSUME NEW q \in Ids, NEW o \in {"update", "delete"}, NEW p \in Patch \ {NoPatch},
             LocalChange(q, o, p)
      PROVE  Goal(0)
  <2>1. /\ Len(outbox') = Len(outbox) + 1
        /\ \A i \in 1..Len(outbox) : outbox'[i] = outbox[i]
        /\ outbox'[Len(outbox) + 1].op = o
    BY <1>3, LocalChangeEffect
  <2>2. \A i \in 1..Len(outbox) : outbox'[i].op = "create" => Old(0, i)
    BY <1>0, <2>1 DEF Creation
  <2>3. outbox'[Len(outbox) + 1].op # "create"
    BY <2>1
  <2> HIDE DEF Old, New
  <2> QED
    BY <1>0, <2>1, <2>2, <2>3
<1>4. ASSUME ReplaceId PROVE Goal(0)
  <2>1. outbox' = ReplaceIdOutbox(outbox, HeadItem.id, reply.id) /\ reply.id \in Ids
    BY <1>4, ReplaceIdEffect
  <2>2. /\ Len(outbox') = Len(outbox)
        /\ \A i \in 1..Len(outbox) : /\ outbox'[i].op = outbox[i].op
                                     /\ outbox'[i].patch = outbox[i].patch
    BY <2>1, ReplaceIdEntries
  <2> QED
    BY <1>0, <2>2 DEF Creation
<1>5. ASSUME Ack \/ Settle PROVE Goal(1)
  <2>1. outbox # <<>> /\ Tail(outbox) \in Seq(Item(Ids))
    BY <1>5, AckEffect, SettleEffect, HeadTailType
  <2> DEFINE t == Tail(outbox)
  <2>2. /\ t \in Seq(Item(Ids))
        /\ \A i \in 1..Len(t) : i + 1 \in 1..Len(outbox) /\ t[i] = outbox[i + 1]
    BY <2>1, HeadTailType
  <2>3. outbox' = t \/ \E tag \in Nat : outbox' = Rebase(t, reply.id, tag)
    BY <1>5, AckEffect, SettleEffect
  <2> HIDE DEF t
  <2>4. /\ Len(outbox') = Len(t)
        /\ \A i \in 1..Len(t) : outbox'[i].op = t[i].op /\ outbox'[i].patch = t[i].patch
    <3>1. ASSUME NEW tag \in Nat, outbox' = Rebase(t, reply.id, tag)
          PROVE  /\ Len(outbox') = Len(t)
                 /\ \A i \in 1..Len(t) : /\ outbox'[i].op = t[i].op
                                         /\ outbox'[i].patch = t[i].patch
      BY <2>2, <3>1, RebaseEntries
    <3> QED
      BY <2>2, <2>3, <3>1
  <2> QED
    BY <2>2, <2>4 DEF Creation
<1> HIDE DEF Goal
<1>6. outbox' = outbox => Goal(0)
  BY <1>1
<1>7. CASE Ack \/ Settle
  BY <1>5, <1>7
<1>8. CASE ~(Ack \/ Settle)
  <2>1. Goal(0)
    BY <1>2, <1>3, <1>4, <1>6, <1>8, OutboxSteps
  <2> QED
    BY <1>8, <2>1
<1> QED
  BY <1>7, <1>8

(* What is known of the text that a create uploads. *)
LEMMA CreateBears ==
  ASSUME Typed, Births, Waiting, NEW r \in Records, NEW lost \in BOOLEAN, PushCreate(r, lost)
  PROVE  LET t == outbox[1].patch.title IN
         /\ 1 \in 1..Len(outbox) /\ Creation(1) /\ outbox' = outbox
         /\ t \in Text /\ t < Fresh /\ Fresh' = Fresh
         /\ Cardinality(Born(t)) <= faults /\ IsFiniteSet(Born(t))
         /\ cloud'[r].born = t /\ cloud'[r].state = "live"
         /\ \A q \in Records \ {r} : cloud'[q] = cloud[q]
         /\ Born(t)' = Born(t) \cup {r}
         /\ \A u \in Text \ {t} : Born(u)' = Born(u)
         /\ IF lost THEN pc' = "idle" /\ faults' = faults + 1
                    ELSE pc' = "replace" /\ faults' = faults
<1> USE DEF Typed, TypeOK, CloudOK
<1> DEFINE t == outbox[1].patch.title
<1>1. outbox # <<>> /\ HeadItem.op = "create" /\ pc = "head" /\ cloud[r].state = "none"
  BY DEF PushCreate
<1>2. HeadItem = outbox[1] /\ 1 \in 1..Len(outbox)
  BY <1>1, HeadTyped
<1>3. HeadPatch = outbox[1].patch
  BY <1>1, <1>2 DEF HeadPatch
<1>4. Creation(1) /\ t \in Text /\ t < Fresh /\ Cardinality(Born(t)) <= faults
  BY <1>1, <1>2 DEF Creation, Waiting, Paired
<1>5. /\ cloud'[r].born = t /\ cloud'[r].state = "live"
      /\ \A q \in Records \ {r} : cloud'[q] = cloud[q]
  <2> DEFINE w == Written("live", PatchedTitle(NoRecord, HeadPatch), FALSE, clock + 1, "pc",
                          HeadPatch.title)
  <2>1. w.born = t /\ w.state = "live"
    BY <1>3 DEF Written
  <2>2. cloud' = [cloud EXCEPT ![r] = w]
    BY DEF PushCreate
  <2> HIDE DEF w
  <2> QED
    BY <2>1, <2>2
<1>6. outbox' = outbox /\ edits' = edits /\ others' = others
  BY DEF PushCreate, cacheVars
<1>7. Fresh' = Fresh
  BY <1>6 DEF Fresh
<1>8. IF lost THEN pc' = "idle" /\ faults' = faults + 1
              ELSE pc' = "replace" /\ faults' = faults
  BY DEF PushCreate, Received, Abort
<1>9. cloud[r].born = NoText
  BY <1>1 DEF Births
<1>10. NoText \notin Text
  BY DEF Text
<1> HIDE DEF t
<1>11. Born(t)' = {q \in Records : cloud'[q].born = t'} /\ t' = t
  BY <1>6 DEF Born, t
<1>12. {q \in Records : cloud'[q].born = t} = Born(t) \cup {r}
  BY <1>5 DEF Born
<1>13. \A u \in Text \ {t} : {q \in Records : cloud'[q].born = u} = Born(u)
  BY <1>5, <1>9, <1>10 DEF Born
<1>14. IsFiniteSet(Born(t))
  BY <1>4 DEF Births
<1>15. \A u \in Text \ {t} : Born(u)' = Born(u)
  BY <1>13 DEF Born
<1> QED
  BY <1>2, <1>4, <1>5, <1>6, <1>7, <1>8, <1>11, <1>12, <1>14, <1>15 DEF t

(* Unless a create is uploaded no record is born. *)
LEMMA BornStays ==
  ASSUME Typed, [Next]_vars, ~(\E r \in Records, lost \in BOOLEAN : PushCreate(r, lost))
  PROVE  /\ \A u \in Text : Born(u)' = Born(u)
         /\ \A r \in Records : /\ cloud'[r].born = cloud[r].born
                               /\ cloud'[r].state = "none" => cloud[r].state = "none"
<1>1. \A r \in Records : /\ cloud'[r].born = cloud[r].born
                         /\ cloud'[r].state = "none" => cloud[r].state = "none"
  BY BornSteps
<1>2. \A u \in Text : {q \in Records : cloud'[q].born = u} = {q \in Records : cloud[q].born = u}
  BY <1>1
<1> QED
  BY <1>1, <1>2 DEF Born

(* A create adds one record for its text.                                   *)
LEMMA StepBirths ==
  ASSUME Typed, Births, Waiting, [Next]_vars
  PROVE  Births'
<1>0. /\ Fresh \in Nat /\ Fresh' \in Nat /\ Fresh <= Fresh'
      /\ faults \in Nat /\ faults' \in Nat /\ faults <= faults'
  BY CountersGrow
<1>1. \A r \in Records : cloud[r].born \in Nat
  BY DEF Typed, TypeOK, CloudOK, Record
<1>2. ASSUME NEW r \in Records, NEW lost \in BOOLEAN, PushCreate(r, lost) PROVE Births'
  <2> DEFINE t == outbox[1].patch.title
  <2>1. /\ t \in Text /\ t < Fresh /\ Fresh' = Fresh
        /\ Cardinality(Born(t)) <= faults /\ IsFiniteSet(Born(t))
        /\ cloud'[r].born = t /\ cloud'[r].state = "live"
        /\ \A q \in Records \ {r} : cloud'[q] = cloud[q]
        /\ Born(t)' = Born(t) \cup {r}
        /\ \A u \in Text \ {t} : Born(u)' = Born(u)
        /\ outbox' = outbox
    BY <1>2, CreateBears
  <2> HIDE DEF t
  <2>2. \A q \in Records : cloud'[q].born < Fresh'
    BY <2>1 DEF Births
  <2>3. \A q \in Records : cloud'[q].state = "none" => cloud'[q].born = NoText
    BY <2>1 DEF Births
  <2>4. ASSUME NEW u \in Text PROVE IsFiniteSet(Born(u)') /\ Cardinality(Born(u)') <= 1 + faults'
    <3>1. CASE u # t
      <4>1. Born(u)' = Born(u) /\ IsFiniteSet(Born(u)) /\ Cardinality(Born(u)) <= 1 + faults
        BY <2>1, <3>1 DEF Births
      <4>2. Cardinality(Born(u)) \in Nat
        BY <4>1, FS_CardinalityType
      <4>3. \A c, f, g \in Nat : c <= 1 + f /\ f <= g => c <= 1 + g
        OBVIOUS
      <4> QED
        BY <1>0, <4>1, <4>2, <4>3
    <3>2. CASE u = t
      <4>1. Cardinality(Born(t)) \in Nat
        BY <2>1, FS_CardinalityType
      <4>2. /\ IsFiniteSet(Born(t) \cup {r})
            /\ \/ Cardinality(Born(t) \cup {r}) = Cardinality(Born(t))
               \/ Cardinality(Born(t) \cup {r}) = Cardinality(Born(t)) + 1
        BY <2>1, FS_AddElement
      <4>3. \A c, f, g \in Nat : c <= f /\ f <= g => c <= 1 + g /\ c + 1 <= 1 + g
        OBVIOUS
      <4>4. Born(u)' = Born(t) \cup {r}
        <5>1. Born(u)' = {q \in Records : cloud'[q].born = u}
          BY DEF Born
        <5>2. {q \in Records : cloud'[q].born = t} = Born(t) \cup {r}
          BY <2>1 DEF Born, t
        <5> QED
          BY <3>2, <5>1, <5>2
      <4> QED
        BY <1>0, <2>1, <4>1, <4>2, <4>3, <4>4
    <3> QED
      BY <3>1, <3>2
  <2> QED
    BY <2>2, <2>3, <2>4 DEF Births
<1>3. CASE ~(\E r \in Records, lost \in BOOLEAN : PushCreate(r, lost))
  <2>1. /\ \A u \in Text : Born(u)' = Born(u)
        /\ \A r \in Records : /\ cloud'[r].born = cloud[r].born
                              /\ cloud'[r].state = "none" => cloud[r].state = "none"
    BY <1>3, BornStays
  <2>2. ASSUME NEW u \in Text PROVE IsFiniteSet(Born(u)') /\ Cardinality(Born(u)') <= 1 + faults'
    <3>1. IsFiniteSet(Born(u)) /\ Cardinality(Born(u)) <= 1 + faults
      BY DEF Births
    <3>2. Cardinality(Born(u)) \in Nat
      BY <3>1, FS_CardinalityType
    <3>3. \A c, f, g \in Nat : c <= 1 + f /\ f <= g => c <= 1 + g
      OBVIOUS
    <3> QED
      BY <1>0, <2>1, <3>1, <3>2, <3>3
  <2>3. \A r \in Records : cloud'[r].born < Fresh'
    <3>1. \A a, b, c \in Nat : a < b /\ b <= c => a < c
      OBVIOUS
    <3> QED
      BY <1>0, <1>1, <2>1, <3>1 DEF Births
  <2> QED
    BY <2>1, <2>2, <2>3 DEF Births
<1> QED
  BY <1>2, <1>3

(* Between iCloud's answer and the acknowledgement of an upload, a pass can *)
(* only take its next step or end in a fault.                               *)
LEMMA PairedSteps ==
  ASSUME [Next]_vars, Paired
  PROVE  ~Settle /\ ((Paired' /\ ~Ack) \/ Ack \/ faults' = faults + 1)
<1>1. CASE UserNext \/ OtherNext \/ UNCHANGED vars
  <2>1. pc' = pc
    BY <1>1, SamePass DEF passVars
  <2> QED
    BY <2>1 DEF Paired, Settle, Ack
<1>2. CASE EngineStep
  <2>1. ReplaceId \/ Ack
    BY <1>2 DEF Paired, EngineStep, StartPass, PushCreate, PushLookup, PushModify,
       PushRefused, UpsertReply, ReadLocal, Settle, PushDone, Delta, FullCursor, FullLists,
       FullQuery, ApplyLive, ReadTombstone, MarkTombstone, RefreshLists, Save
  <2>2. ReplaceId => pc' = "ack" /\ pc = "replace"
    BY DEF ReplaceId
  <2> QED
    BY <2>1, <2>2 DEF Paired, Settle, Ack
<1>3. CASE FaultNext
  BY <1>3 DEF Paired, FaultNext, PushCreate, PushModify, Throw, Crash, CreateRefused, Settle
<1> QED
  BY <1>1, <1>2, <1>3 DEF Next

(* The entry of a create leaves with the record it has made, unless a fault *)
(* comes between.                                                           *)
LEMMA StepWaiting ==
  ASSUME Typed, Births, Waiting, [Next]_vars
  PROVE  Waiting'
<1> USE DEF Typed, TypeOK
<1>0. /\ Fresh \in Nat /\ Fresh' \in Nat /\ Fresh <= Fresh'
      /\ faults \in Nat /\ faults' \in Nat /\ faults <= faults'
  BY CountersGrow
<1>1. Len(outbox) \in Nat /\ Len(outbox') \in Nat
  <2>1. Typed'
    BY StepTyped
  <2> QED
    BY <2>1 DEF CacheOK
<1>2. ASSUME NEW t \in Text
      PROVE  IsFiniteSet(Born(t)) /\ Cardinality(Born(t)) \in Nat
             /\ Cardinality(Born(t)) <= 1 + faults
  <2>1. IsFiniteSet(Born(t)) /\ Cardinality(Born(t)) <= 1 + faults
    BY DEF Births
  <2> QED
    BY <2>1, FS_CardinalityType
<1>3. ASSUME NEW r \in Records, NEW lost \in BOOLEAN, PushCreate(r, lost) PROVE Waiting'
  <2> DEFINE t == outbox[1].patch.title
  <2>1. /\ 1 \in 1..Len(outbox) /\ Creation(1) /\ outbox' = outbox
        /\ t \in Text /\ t < Fresh /\ Fresh' = Fresh
        /\ Cardinality(Born(t)) <= faults /\ IsFiniteSet(Born(t))
        /\ Born(t)' = Born(t) \cup {r}
        /\ \A u \in Text \ {t} : Born(u)' = Born(u)
        /\ IF lost THEN pc' = "idle" /\ faults' = faults + 1
                   ELSE pc' = "replace" /\ faults' = faults
    BY <1>3, CreateBears
  <2>2. {q \in Records : cloud'[q].born = t} = Born(t) \cup {r}
    BY <2>1 DEF Born
  <2>4. pc = "head" /\ ~Paired
    BY <1>3 DEF PushCreate, Paired
  <2> HIDE DEF t
  <2>5. ASSUME NEW i \in 1..Len(outbox), Creation(i)
        PROVE  /\ outbox[i].patch.title \in Text /\ outbox[i].patch.title < Fresh
               /\ Cardinality(Born(outbox[i].patch.title)') <= faults' \/ (i = 1 /\ Paired')
    <3>1. outbox[i].patch.title \in Text /\ outbox[i].patch.title < Fresh
          /\ Cardinality(Born(outbox[i].patch.title)) <= faults
      BY <2>4, <2>5 DEF Waiting
    <3>2. CASE i # 1
      <4>1. outbox[i].patch.title # t
        BY <2>1, <2>5, <3>2 DEF Waiting, t
      <4>2. \A c, f, g \in Nat : c <= f /\ f <= g => c <= g
        OBVIOUS
      <4>3. Born(outbox[i].patch.title)' = Born(outbox[i].patch.title)
        <5> DEFINE u == outbox[i].patch.title
        <5>1. Born(u)' = {q \in Records : cloud'[q].born = u'} /\ u' = u
          BY <2>1 DEF Born
        <5>2. {q \in Records : cloud'[q].born = u} = Born(u)
          <6>1. u \in Text \ {t}
            BY <3>1, <4>1
          <6> HIDE DEF u
          <6> QED
            BY <2>1, <6>1 DEF Born
        <5> QED
          BY <5>1, <5>2
      <4> QED
        BY <1>0, <1>2, <3>1, <4>2, <4>3
    <3>3. CASE i = 1 /\ lost
      <4>1. Cardinality(Born(t)) \in Nat
        BY <1>2, <2>1
      <4>2. /\ \/ Cardinality(Born(t) \cup {r}) = Cardinality(Born(t))
               \/ Cardinality(Born(t) \cup {r}) = Cardinality(Born(t)) + 1
        BY <2>1, FS_AddElement
      <4>3. \A c, f \in Nat : c <= f => c <= f + 1 /\ c + 1 <= f + 1
        OBVIOUS
      <4>4. Born(outbox[i].patch.title)' = Born(t) \cup {r}
        <5>1. Born(outbox[i].patch.title)' = {q \in Records : cloud'[q].born = outbox'[i].patch.title}
          BY DEF Born
        <5>2. outbox'[i].patch.title = t
          BY <2>1, <3>3 DEF t
        <5> QED
          BY <2>2, <5>1, <5>2
      <4> QED
        BY <1>0, <2>1, <3>1, <3>3, <4>1, <4>2, <4>3, <4>4
    <3>4. CASE i = 1 /\ ~lost
      BY <2>1, <3>1, <3>4 DEF Paired
    <3> QED
      BY <3>2, <3>3, <3>4
  <2>6. \A i, j \in 1..Len(outbox') :
          outbox'[i].op = "create" /\ outbox'[j].op = "create"
            /\ outbox'[i].patch.title = outbox'[j].patch.title => i = j
    BY <2>1 DEF Waiting, Creation
  <2>7. \A i \in 1..Len(outbox') : outbox'[i].op = "create" =>
          /\ outbox'[i].patch.title \in Text /\ outbox'[i].patch.title < Fresh'
          /\ Cardinality(Born(outbox[i].patch.title)') <= faults' \/ (i = 1 /\ Paired')
    BY <2>1, <2>5 DEF Creation
  <2> QED
    BY <2>6, <2>7 DEF Waiting, Creation
<1>4. CASE ~(\E r \in Records, lost \in BOOLEAN : PushCreate(r, lost))
  <2>1. \A u \in Text : {q \in Records : cloud'[q].born = u} = Born(u)
    BY <1>4, BornStays DEF Born
  <2>2. PICK k \in {0, 1} :
           /\ (k = 1) <=> (Ack \/ Settle)
           /\ \A i \in 1..Len(outbox') : outbox'[i].op = "create" =>
                \/ /\ i + k \in 1..Len(outbox) /\ Creation(i + k)
                   /\ outbox'[i].patch.title = outbox[i + k].patch.title
                \/ /\ i = Len(outbox) + 1 /\ k = 0
                   /\ outbox'[i].patch.title = Fresh /\ Fresh < Fresh' /\ cloud' = cloud
    BY CreationSteps
  <2>3. Fresh \in Text
    BY FreshType
  <2>4. ASSUME NEW i \in 1..Len(outbox'), outbox'[i].op = "create"
        PROVE  /\ outbox'[i].patch.title \in Text /\ outbox'[i].patch.title < Fresh'
               /\ \/ Cardinality(Born(outbox'[i].patch.title)) <= faults'
                  \/ i = 1 /\ Paired'
    <3>1. CASE /\ i + k \in 1..Len(outbox) /\ Creation(i + k)
               /\ outbox'[i].patch.title = outbox[i + k].patch.title
      <4> DEFINE u == outbox'[i].patch.title
      <4>1. /\ u \in Text /\ u < Fresh
            /\ Cardinality(Born(u)) <= faults \/ (i + k = 1 /\ Paired)
        BY <3>1 DEF Waiting
      <4>2. Cardinality(Born(u)) \in Nat /\ Cardinality(Born(u)) <= 1 + faults
        BY <1>2, <4>1
      <4> HIDE DEF u
      <4>3. u < Fresh'
        <5>1. \A a, b, c \in Nat : a < b /\ b <= c => a < c
          OBVIOUS
        <5> QED
          BY <1>0, <4>1, <5>1 DEF Text
      <4>4. CASE Cardinality(Born(u)) <= faults
        <5>1. \A a, b, c \in Nat : a <= b /\ b <= c => a <= c
          OBVIOUS
        <5> QED
          BY <1>0, <4>1, <4>2, <4>3, <4>4, <5>1 DEF u
      <4>5. CASE i + k = 1 /\ Paired
        <5>1. i = 1 /\ k = 0
          BY <4>5, <1>1
        <5>2. ~Settle /\ ((Paired' /\ ~Ack) \/ Ack \/ faults' = faults + 1)
          BY <4>5, PairedSteps
        <5>3. CASE Paired'
          BY <4>1, <4>3, <5>1, <5>3 DEF u
        <5>4. CASE faults' = faults + 1
          <6>1. \A c, f \in Nat : c <= 1 + f => c <= f + 1
            OBVIOUS
          <6> QED
            BY <1>0, <4>1, <4>2, <4>3, <5>4, <6>1 DEF u
        <5>5. ~Ack
          BY <2>2, <5>1
        <5> QED
          BY <5>2, <5>3, <5>4, <5>5
      <4> QED
        BY <4>1, <4>4, <4>5
    <3>2. CASE /\ i = Len(outbox) + 1 /\ k = 0
               /\ outbox'[i].patch.title = Fresh /\ Fresh < Fresh' /\ cloud' = cloud
      <4>1. Born(Fresh) = {}
        <5>1. \A a \in Nat : ~(a < a)
          OBVIOUS
        <5> QED
          BY <1>0, <5>1 DEF Born, Births
      <4>2. Cardinality(Born(Fresh)) = 0
        BY <4>1, FS_EmptySet
      <4>3. \A f \in Nat : 0 <= f
        OBVIOUS
      <4> QED
        BY <1>0, <2>3, <3>2, <4>2, <4>3
    <3> QED
      BY <2>2, <2>4, <3>1, <3>2
  <2>5. ASSUME NEW i \in 1..Len(outbox'), NEW j \in 1..Len(outbox'),
               outbox'[i].op = "create", outbox'[j].op = "create",
               outbox'[i].patch.title = outbox'[j].patch.title
        PROVE  i = j
    <3> DEFINE Old(n) == /\ n + k \in 1..Len(outbox) /\ Creation(n + k)
                         /\ outbox'[n].patch.title = outbox[n + k].patch.title
               New(n) == /\ n = Len(outbox) + 1 /\ outbox'[n].patch.title = Fresh
    <3>1. (Old(i) \/ New(i)) /\ (Old(j) \/ New(j))
      BY <2>2, <2>5
    <3>2. CASE Old(i) /\ Old(j)
      <4>1. i + k = j + k
        BY <2>5, <3>2 DEF Waiting
      <4> QED
        BY <1>1, <4>1
    <3>3. \A n \in 1..Len(outbox') : Old(n) => outbox'[n].patch.title # Fresh
      <4>1. ASSUME NEW n \in 1..Len(outbox'), Old(n) PROVE outbox'[n].patch.title < Fresh
        BY <4>1 DEF Waiting
      <4>2. \A a \in Nat : ~(a < a)
        OBVIOUS
      <4> QED
        BY <1>0, <4>1, <4>2
    <3> QED
      BY <2>5, <3>1, <3>2, <3>3
  <2>6. \A i \in 1..Len(outbox') : outbox'[i].op = "create" =>
          Born(outbox'[i].patch.title) = {q \in Records : cloud'[q].born = outbox'[i].patch.title}
    BY <2>1, <2>4
  <2> QED
    BY <2>4, <2>5, <2>6 DEF Waiting, Creation, Born
<1> QED
  BY <1>3, <1>4

(* One reminder created here becomes one record in iCloud, and one more for *)
(* each fault at most: the text of a create is used once, and an entry that *)
(* has begotten a record is acknowledged unless a fault comes between.      *)
THEOREM CreatedOnce == Spec => []OneRecordPerCreate
<1>1. Init => Births /\ Waiting
  <2> SUFFICES ASSUME Init PROVE Births /\ Waiting
    OBVIOUS
  <2>1. \A r \in Records : cloud[r].born = NoText
    BY DEF Init, Written, NoRecord
  <2>2. edits = 0 /\ others = 0 /\ faults = 0 /\ outbox = <<>>
    BY DEF Init
  <2>3. Fresh = 3 /\ NoText = 0 /\ NoText \notin Text
    BY <2>2 DEF Fresh, NoText, Text
  <2>4. \A t \in Text : Born(t) = {}
    BY <2>1, <2>3 DEF Born
  <2>5. Births
    BY <2>1, <2>2, <2>3, <2>4, FS_EmptySet DEF Births
  <2>6. Len(outbox) = 0
    BY <2>2
  <2> QED
    BY <2>5, <2>6 DEF Waiting
<1>2. Typed /\ Births /\ Waiting /\ [Next]_vars => Births' /\ Waiting'
  BY StepBirths, StepWaiting
<1>3. Typed /\ Births => OneRecordPerCreate
  <2> SUFFICES ASSUME Typed, Births, NEW r \in Records, cloud[r].born # NoText
               PROVE  Cardinality({q \in Records : cloud[q].born = cloud[r].born}) <= 1 + faults
    BY DEF OneRecordPerCreate
  <2>1. cloud[r].born \in Text
    BY DEF Typed, TypeOK, CloudOK, Record, Text
  <2> QED
    BY <2>1 DEF Births, Born
<1> QED
  BY <1>1, <1>2, <1>3, TypedAlways, PTL DEF Spec
=============================================================================
