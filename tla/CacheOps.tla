------------------------------ MODULE CacheOps ------------------------------
(***************************************************************************)
(* The SQLite cache: what each method of Cache.cs does to the tables       *)
(* reminders and outbox.                                                   *)
(*                                                                         *)
(* A row keeps the fields that the properties tell apart: one text (title  *)
(* stands for every synced field but the deletion mark), deleted, the      *)
(* change tag iCloud gave the version it came from, and dirty.  Texts are  *)
(* positive; 0 in a patch says that the patch has no text.  Tags are       *)
(* naturals; 0 is the null tag.  Sequence numbers of the outbox are        *)
(* positions: entries are appended at the end and only the first one is    *)
(* ever removed.                                                           *)
(***************************************************************************)
EXTENDS Naturals, Sequences

NoText == 0
Blank  == 1
NoTag  == 0
Text   == Nat \ {NoText}

(* A patch names the fields it changes: a text, a deletion mark, or both. *)
Marks == {"keep", "set", "clear"}
Patch == [title : Nat, deleted : Marks]
NoPatch == [title |-> NoText, deleted |-> "keep"]
SetTitle(t) == [NoPatch EXCEPT !.title = t]
SetDeleted(mark) == [NoPatch EXCEPT !.deleted = mark]

Row == [here : BOOLEAN, title : Text, deleted : BOOLEAN, tag : Nat, dirty : BOOLEAN]
NoRow == [here |-> FALSE, title |-> Blank, deleted |-> FALSE, tag |-> NoTag,
          dirty |-> FALSE]

(* What iCloud says of a record, as ToReminder hands it to the cache. *)
Version == [title : Text, deleted : BOOLEAN, tag : Nat]

(* The text and mark of a version or row r after the fields of a patch p. *)
PatchedTitle(r, p)   == IF p.title = NoText THEN r.title ELSE p.title
PatchedDeleted(r, p) == IF p.deleted = "keep" THEN r.deleted ELSE p.deleted = "set"

-----------------------------------------------------------------------------
(* Table reminders. *)

(* UPDATE ... WHERE id: no row, no change; no field, no change. *)
Edit(rows, id, p, isDirty) ==
  IF rows[id].here /\ p # NoPatch
  THEN [rows EXCEPT ![id].title = PatchedTitle(rows[id], p),
                    ![id].deleted = PatchedDeleted(rows[id], p),
                    ![id].dirty = isDirty]
  ELSE rows

(* A row the user created here: dirty, with no tag yet. *)
UpsertLocal(rows, id, t) ==
  [rows EXCEPT ![id] = [here |-> TRUE, title |-> t, deleted |-> FALSE,
                        tag |-> NoTag, dirty |-> TRUE]]

(* Mutant of Upsert: the guard on local edits is missing. *)
UpsertAlways(rows, id, v) ==
  [rows EXCEPT ![id] = [here |-> TRUE, title |-> v.title, deleted |-> v.deleted,
                        tag |-> v.tag, dirty |-> FALSE]]

(* A version from iCloud replaces the row unless the row holds a local edit. *)
Upsert(rows, id, v) ==
  IF rows[id].dirty
  THEN rows
  ELSE [rows EXCEPT ![id] = [here |-> TRUE, title |-> v.title,
                             deleted |-> v.deleted, tag |-> v.tag,
                             dirty |-> FALSE]]

-----------------------------------------------------------------------------
(* Table outbox. *)

Item(Ids) == [op : {"create", "update", "delete"}, id : Ids, patch : Patch, base : Nat]

Enqueue(outbox, id, o, p, tag) ==
  Append(outbox, [op |-> o, id |-> id, patch |-> p, base |-> tag])

Pending(outbox, id) == \E i \in 1..Len(outbox) : outbox[i].id = id

(* Mutant of Rebase: the entries keep the tag they were made with. *)
RebaseNothing(outbox, id, tag) == outbox

(* Every entry of one reminder is given a new base tag. *)
Rebase(outbox, id, tag) ==
  [i \in 1..Len(outbox) |->
     IF outbox[i].id = id THEN [outbox[i] EXCEPT !.base = tag] ELSE outbox[i]]

(* Mutants of AcknowledgeOutbox: one drops every entry of the reminder, the *)
(* other looks for the entry under its old id and removes none.             *)
AcknowledgeAll(outbox, id, tag) ==
  SelectSeq(outbox, LAMBDA item : item.id # id)
AcknowledgeNone(outbox, id, tag) == Rebase(outbox, id, tag)

(* Mutant of AcknowledgeRows: the row is clean whatever is still queued. *)
AcknowledgeClean(rows, outbox, id, tag) ==
  IF rows[id].here
  THEN [rows EXCEPT ![id].tag = tag, ![id].dirty = FALSE]
  ELSE rows

(* Acknowledge: the first entry leaves, later entries of the reminder are   *)
(* rebased, and the row is dirty only while entries remain.                 *)
AcknowledgeOutbox(outbox, id, tag) == Rebase(Tail(outbox), id, tag)
AcknowledgeRows(rows, outbox, id, tag) ==
  IF rows[id].here
  THEN [rows EXCEPT ![id].tag = tag, ![id].dirty = Pending(Tail(outbox), id)]
  ELSE rows

(* ReplaceId: the id iCloud chose takes the place of the local one. *)
ReplaceIdRows(rows, old, new) ==
  IF old = new \/ ~rows[old].here
  THEN rows
  ELSE [rows EXCEPT ![new] = rows[old], ![old] = NoRow]
ReplaceIdOutbox(outbox, old, new) ==
  [i \in 1..Len(outbox) |->
     IF outbox[i].id = old THEN [outbox[i] EXCEPT !.id = new] ELSE outbox[i]]
=============================================================================
