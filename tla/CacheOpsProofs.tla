--------------------------- MODULE CacheOpsProofs ---------------------------
(***************************************************************************)
(* What the operators of CacheOps return, for tables of any ids and        *)
(* outboxes of any length.                                                 *)
(***************************************************************************)
EXTENDS CacheOps, TLAPS

(* An entry at position i of an outbox is an Item. *)
LEMMA EntryType ==
  ASSUME NEW S, NEW o \in Seq(Item(S)), NEW i \in 1..Len(o)
  PROVE  o[i] \in Item(S)
OBVIOUS

(* The first entry, and the rest. *)
LEMMA HeadTailType ==
  ASSUME NEW S, NEW o \in Seq(Item(S)), o # <<>>
  PROVE  /\ Head(o) \in Item(S) /\ Head(o) = o[1] /\ 1 \in 1..Len(o)
         /\ Tail(o) \in Seq(Item(S))
         /\ Len(Tail(o)) = Len(o) - 1
         /\ \A i \in 1..Len(Tail(o)) : i + 1 \in 1..Len(o) /\ Tail(o)[i] = o[i + 1]
<1>1. Len(o) \in Nat /\ Len(o) # 0
  OBVIOUS
<1>2. Head(o) = o[1] /\ 1 \in 1..Len(o)
  BY <1>1
<1>3. Head(o) \in Item(S)
  BY <1>2, EntryType
<1>4. Tail(o) \in Seq(Item(S)) /\ Len(Tail(o)) = Len(o) - 1
  BY <1>1
<1>5. \A i \in 1..Len(Tail(o)) : i + 1 \in 1..Len(o) /\ Tail(o)[i] = o[i + 1]
  BY <1>1, <1>4
<1> QED
  BY <1>2, <1>3, <1>4, <1>5

(* Enqueue adds one entry at the end. *)
LEMMA EnqueueEntries ==
  ASSUME NEW S, NEW o \in Seq(Item(S)), NEW id \in S,
         NEW op \in {"create", "update", "delete"}, NEW p \in Patch, NEW tag \in Nat
  PROVE  /\ Enqueue(o, id, op, p, tag) \in Seq(Item(S))
         /\ Enqueue(o, id, op, p, tag) # <<>>
         /\ Len(Enqueue(o, id, op, p, tag)) = Len(o) + 1
         /\ Enqueue(o, id, op, p, tag)[Len(o) + 1]
              = [op |-> op, id |-> id, patch |-> p, base |-> tag]
         /\ \A i \in 1..Len(o) : Enqueue(o, id, op, p, tag)[i] = o[i]
         /\ o # <<>> => Head(Enqueue(o, id, op, p, tag)) = Head(o)
<1> DEFINE x == [op |-> op, id |-> id, patch |-> p, base |-> tag]
           e == Enqueue(o, id, op, p, tag)
<1>1. x \in Item(S)
  BY DEF Item
<1>2. e = Append(o, x)
  BY DEF Enqueue
<1> HIDE DEF x, e
<1>3. e \in Seq(Item(S)) /\ Len(e) = Len(o) + 1 /\ e[Len(o) + 1] = x
  BY <1>1, <1>2
<1>4. \A i \in 1..Len(o) : e[i] = o[i]
  BY <1>2
<1>5. e # <<>>
  BY <1>3
<1>6. o # <<>> => Head(e) = Head(o)
  BY <1>3, <1>4, <1>5, HeadTailType
<1> QED
  BY <1>3, <1>4, <1>5, <1>6 DEF x, e

(* Rebase changes base tags and nothing else. *)
LEMMA RebaseEntries ==
  ASSUME NEW S, NEW o \in Seq(Item(S)), NEW id, NEW tag \in Nat
  PROVE  /\ Rebase(o, id, tag) \in Seq(Item(S))
         /\ Len(Rebase(o, id, tag)) = Len(o)
         /\ \A i \in 1..Len(o) :
              /\ Rebase(o, id, tag)[i].id = o[i].id
              /\ Rebase(o, id, tag)[i].op = o[i].op
              /\ Rebase(o, id, tag)[i].patch = o[i].patch
              /\ Rebase(o, id, tag)[i].base = IF o[i].id = id THEN tag ELSE o[i].base
<1> DEFINE f == Rebase(o, id, tag)
<1>1. \A i \in 1..Len(o) : o[i] \in Item(S)
  BY EntryType
<1>2. \A i \in 1..Len(o) :
        f[i] = IF o[i].id = id THEN [o[i] EXCEPT !.base = tag] ELSE o[i]
  BY DEF Rebase
<1>3. \A i \in 1..Len(o) : f[i] \in Item(S)
  BY <1>1, <1>2 DEF Item
<1>4. f \in Seq(Item(S)) /\ Len(f) = Len(o)
  BY <1>3 DEF Rebase
<1>5. \A i \in 1..Len(o) :
        /\ f[i].id = o[i].id /\ f[i].op = o[i].op /\ f[i].patch = o[i].patch
        /\ f[i].base = IF o[i].id = id THEN tag ELSE o[i].base
  BY <1>1, <1>2 DEF Item
<1> QED
  BY <1>4, <1>5

(* ReplaceId changes ids and nothing else. *)
LEMMA ReplaceIdEntries ==
  ASSUME NEW S, NEW o \in Seq(Item(S)), NEW old, NEW new \in S
  PROVE  /\ ReplaceIdOutbox(o, old, new) \in Seq(Item(S))
         /\ Len(ReplaceIdOutbox(o, old, new)) = Len(o)
         /\ \A i \in 1..Len(o) :
              /\ ReplaceIdOutbox(o, old, new)[i].id = IF o[i].id = old THEN new ELSE o[i].id
              /\ ReplaceIdOutbox(o, old, new)[i].op = o[i].op
              /\ ReplaceIdOutbox(o, old, new)[i].patch = o[i].patch
              /\ ReplaceIdOutbox(o, old, new)[i].base = o[i].base
<1> DEFINE f == ReplaceIdOutbox(o, old, new)
<1>1. \A i \in 1..Len(o) : o[i] \in Item(S)
  BY EntryType
<1>2. \A i \in 1..Len(o) :
        f[i] = IF o[i].id = old THEN [o[i] EXCEPT !.id = new] ELSE o[i]
  BY DEF ReplaceIdOutbox
<1>3. \A i \in 1..Len(o) : f[i] \in Item(S)
  BY <1>1, <1>2 DEF Item
<1>4. f \in Seq(Item(S)) /\ Len(f) = Len(o)
  BY <1>3 DEF ReplaceIdOutbox
<1>5. \A i \in 1..Len(o) :
        /\ f[i].id = IF o[i].id = old THEN new ELSE o[i].id
        /\ f[i].op = o[i].op /\ f[i].patch = o[i].patch /\ f[i].base = o[i].base
  BY <1>1, <1>2 DEF Item
<1> QED
  BY <1>4, <1>5

-----------------------------------------------------------------------------
(* Which reminders have an entry. *)

(* Enqueue adds the reminder of its entry. *)
LEMMA PendingEnqueue ==
  ASSUME NEW S, NEW o \in Seq(Item(S)), NEW id \in S,
         NEW op \in {"create", "update", "delete"}, NEW p \in Patch, NEW tag \in Nat,
         NEW q
  PROVE  Pending(Enqueue(o, id, op, p, tag), q) <=> (Pending(o, q) \/ q = id)
<1> DEFINE e == Enqueue(o, id, op, p, tag)
<1>1. /\ Len(e) = Len(o) + 1
      /\ e[Len(o) + 1] = [op |-> op, id |-> id, patch |-> p, base |-> tag]
      /\ \A i \in 1..Len(o) : e[i] = o[i]
  BY EnqueueEntries
<1>2. Len(o) \in Nat
  OBVIOUS
<1> HIDE DEF e
<1>3. Pending(e, q) <=> (Pending(o, q) \/ q = id)
  BY <1>1, <1>2 DEF Pending
<1> QED
  BY <1>3 DEF e

(* Without the first entry, every other reminder keeps its entries. *)
LEMMA PendingTail ==
  ASSUME NEW S, NEW o \in Seq(Item(S)), o # <<>>, NEW id
  PROVE  /\ Pending(Tail(o), id) => Pending(o, id)
         /\ Pending(o, id) /\ Head(o).id # id => Pending(Tail(o), id)
         /\ Pending(o, Head(o).id)
<1>1. /\ Head(o) = o[1] /\ 1 \in 1..Len(o) /\ Len(Tail(o)) = Len(o) - 1
      /\ \A i \in 1..Len(Tail(o)) : i + 1 \in 1..Len(o) /\ Tail(o)[i] = o[i + 1]
  BY HeadTailType
<1>2. Len(o) \in Nat
  OBVIOUS
<1>3. Pending(Tail(o), id) => Pending(o, id)
  BY <1>1, <1>2 DEF Pending
<1>4. ASSUME NEW i \in 1..Len(o), o[i].id = id, Head(o).id # id
      PROVE  Pending(Tail(o), id)
  <2>1. i - 1 \in 1..Len(Tail(o)) /\ Tail(o)[i - 1] = o[(i - 1) + 1]
    BY <1>1, <1>2, <1>4
  <2>2. (i - 1) + 1 = i
    BY <1>4
  <2> QED
    BY <1>4, <2>1, <2>2 DEF Pending
<1>5. Pending(o, Head(o).id)
  BY <1>1 DEF Pending
<1> QED
  BY <1>3, <1>4, <1>5 DEF Pending

(* Rebase adds and removes none. *)
LEMMA PendingRebase ==
  ASSUME NEW S, NEW o \in Seq(Item(S)), NEW id, NEW tag \in Nat, NEW q
  PROVE  Pending(Rebase(o, id, tag), q) <=> Pending(o, q)
BY RebaseEntries DEF Pending

(* ReplaceId hands the entries of the old id to the new one. *)
LEMMA PendingReplaceId ==
  ASSUME NEW S, NEW o \in Seq(Item(S)), NEW old \in S, NEW new \in S, NEW q
  PROVE  Pending(ReplaceIdOutbox(o, old, new), q)
           <=> \/ q = new /\ (Pending(o, old) \/ Pending(o, new))
               \/ q # old /\ q # new /\ Pending(o, q)
BY ReplaceIdEntries DEF Pending

-----------------------------------------------------------------------------
(* What the row operators do to each row. *)

(* Edit writes to the one row and marks it as it is told. *)
LEMMA EditRows ==
  ASSUME NEW S, NEW table \in [S -> Row], NEW id \in S, NEW p \in Patch,
         NEW d \in BOOLEAN
  PROVE  /\ Edit(table, id, p, d) \in [S -> Row]
         /\ \A q \in S \ {id} : Edit(table, id, p, d)[q] = table[q]
         /\ Edit(table, id, p, d)[id].here = table[id].here
         /\ Edit(table, id, p, d)[id].tag = table[id].tag
         /\ table[id].here /\ p # NoPatch => Edit(table, id, p, d)[id].dirty = d
<1> DEFINE new == Edit(table, id, p, d)
<1>1. PatchedTitle(table[id], p) \in Text
  BY DEF PatchedTitle, Row, Patch, Text
<1>2. PatchedDeleted(table[id], p) \in BOOLEAN
  BY DEF PatchedDeleted, Row, Patch, Marks
<1>3. CASE table[id].here /\ p # NoPatch
  <2> DEFINE r == [table[id] EXCEPT !.title = PatchedTitle(table[id], p),
                                   !.deleted = PatchedDeleted(table[id], p),
                                   !.dirty = d]
  <2>1. new = [table EXCEPT ![id] = r]
    BY <1>3 DEF Edit
  <2>2. table[id] \in Row
    OBVIOUS
  <2>3. r \in Row /\ r.here = table[id].here /\ r.tag = table[id].tag /\ r.dirty = d
    BY <1>1, <1>2, <2>2 DEF Row
  <2> HIDE DEF r
  <2> QED
    BY <2>1, <2>3
<1>4. CASE ~(table[id].here /\ p # NoPatch)
  BY <1>4 DEF Edit
<1> QED
  BY <1>3, <1>4

(* Upsert leaves a dirty row alone and a clean one clean. *)
LEMMA UpsertRows ==
  ASSUME NEW S, NEW table \in [S -> Row], NEW id \in S,
         NEW v, v.title \in Text, v.deleted \in BOOLEAN, v.tag \in Nat
  PROVE  /\ Upsert(table, id, v) \in [S -> Row]
         /\ \A q \in S \ {id} : Upsert(table, id, v)[q] = table[q]
         /\ Upsert(table, id, v)[id].dirty = table[id].dirty
         /\ table[id].dirty => Upsert(table, id, v)[id] = table[id]
         /\ ~table[id].dirty => Upsert(table, id, v)[id].here /\ Upsert(table, id, v)[id].tag = v.tag
<1> DEFINE new == Upsert(table, id, v)
<1> DEFINE r == [here |-> TRUE, title |-> v.title, deleted |-> v.deleted,
                 tag |-> v.tag, dirty |-> FALSE]
<1>1. r \in Row /\ r.here /\ r.tag = v.tag /\ r.dirty = FALSE
  BY DEF Row
<1>2. new = IF table[id].dirty THEN table ELSE [table EXCEPT ![id] = r]
  BY DEF Upsert
<1>3. table[id].dirty \in BOOLEAN
  BY DEF Row
<1> HIDE DEF r
<1>4. CASE table[id].dirty
  BY <1>2, <1>4
<1>5. CASE ~table[id].dirty
  <2>1. table[id].dirty = FALSE /\ new = [table EXCEPT ![id] = r]
    BY <1>2, <1>3, <1>5
  <2> QED
    BY <1>1, <2>1
<1> QED
  BY <1>4, <1>5

(* Acknowledge gives the one row the new tag. *)
LEMMA AcknowledgedRows ==
  ASSUME NEW S, NEW table \in [S -> Row], NEW o, NEW id \in S, NEW tag \in Nat
  PROVE  /\ AcknowledgeRows(table, o, id, tag) \in [S -> Row]
         /\ \A q \in S \ {id} : AcknowledgeRows(table, o, id, tag)[q] = table[q]
         /\ AcknowledgeRows(table, o, id, tag)[id].here = table[id].here
         /\ table[id].here => AcknowledgeRows(table, o, id, tag)[id].tag = tag
         /\ ~table[id].here => AcknowledgeRows(table, o, id, tag)[id] = table[id]
<1> DEFINE new == AcknowledgeRows(table, o, id, tag)
<1>1. CASE table[id].here
  <2> DEFINE r == [table[id] EXCEPT !.tag = tag, !.dirty = Pending(Tail(o), id)]
  <2>1. new = [table EXCEPT ![id] = r]
    BY <1>1 DEF AcknowledgeRows
  <2>2. Pending(Tail(o), id) \in BOOLEAN
    BY DEF Pending
  <2>3. /\ r \in Row /\ r.here = table[id].here /\ r.tag = tag
        /\ r.dirty = Pending(Tail(o), id)
    <3>1. table[id] \in Row
      OBVIOUS
    <3> QED
      BY <2>2, <3>1 DEF Row
  <2> HIDE DEF r
  <2> QED
    BY <1>1, <2>1, <2>3
<1>2. CASE ~table[id].here
  BY <1>2 DEF AcknowledgeRows
<1> QED
  BY <1>1, <1>2

(* An acknowledgement is of one row. *)
LEMMA AcknowledgedOthers ==
  ASSUME NEW S, NEW table \in [S -> Row], NEW o, NEW id \in S, NEW tag \in Nat,
         NEW q \in S, q # id
  PROVE  AcknowledgeRows(table, o, id, tag)[q] = table[q]
<1>1. CASE table[id].here
  <2> DEFINE r == [table[id] EXCEPT !.tag = tag, !.dirty = Pending(Tail(o), id)]
  <2>1. AcknowledgeRows(table, o, id, tag) = [table EXCEPT ![id] = r]
    BY <1>1 DEF AcknowledgeRows
  <2> HIDE DEF r
  <2> QED
    BY <2>1
<1>2. CASE ~table[id].here
  BY <1>2 DEF AcknowledgeRows
<1> QED
  BY <1>1, <1>2

(* Acknowledge leaves every row where it is, and its text and mark. *)
LEMMA AcknowledgedKept ==
  ASSUME NEW S, NEW table \in [S -> Row], NEW o, NEW id \in S, NEW tag \in Nat,
         NEW q \in S
  PROVE  /\ AcknowledgeRows(table, o, id, tag)[q].here <=> table[q].here
         /\ AcknowledgeRows(table, o, id, tag)[q].title = table[q].title
         /\ AcknowledgeRows(table, o, id, tag)[q].deleted = table[q].deleted
<1> DEFINE r == [table[id] EXCEPT !.tag = tag, !.dirty = Pending(Tail(o), id)]
<1>1. CASE table[id].here
  <2>1. AcknowledgeRows(table, o, id, tag) = [table EXCEPT ![id] = r]
    BY <1>1 DEF AcknowledgeRows
  <2>2. Pending(Tail(o), id) \in BOOLEAN
    BY DEF Pending
  <2>3. /\ r.here = table[id].here /\ r.title = table[id].title
        /\ r.deleted = table[id].deleted
    <3>1. table[id] \in Row
      OBVIOUS
    <3> QED
      BY <2>2, <3>1 DEF Row
  <2> HIDE DEF r
  <2>4. CASE q = id
    BY <2>1, <2>3, <2>4
  <2>5. CASE q # id
    BY <2>1, <2>5
  <2> QED
    BY <2>4, <2>5
<1>2. CASE ~table[id].here
  BY <1>2 DEF AcknowledgeRows
<1> QED
  BY <1>1, <1>2

(* Acknowledge leaves the row dirty exactly while entries remain. *)
LEMMA AcknowledgedDirty ==
  ASSUME NEW S, NEW table \in [S -> Row], NEW o, NEW id \in S, NEW tag \in Nat,
         table[id].here
  PROVE  AcknowledgeRows(table, o, id, tag)[id].dirty <=> Pending(Tail(o), id)
<1> DEFINE r == [table[id] EXCEPT !.tag = tag, !.dirty = Pending(Tail(o), id)]
<1>1. AcknowledgeRows(table, o, id, tag) = [table EXCEPT ![id] = r]
  BY DEF AcknowledgeRows
<1>2. Pending(Tail(o), id) \in BOOLEAN
  BY DEF Pending
<1>3. r.dirty = Pending(Tail(o), id)
  <2>1. table[id] \in Row
    OBVIOUS
  <2> QED
    BY <1>2, <2>1 DEF Row
<1> HIDE DEF r
<1> QED
  BY <1>1, <1>3

(* ReplaceId moves the one row. *)
LEMMA ReplacedIdRows ==
  ASSUME NEW S, NEW table \in [S -> Row], NEW old \in S, NEW id \in S
  PROVE  /\ ReplaceIdRows(table, old, id) \in [S -> Row]
         /\ \A q \in S \ {old, id} : ReplaceIdRows(table, old, id)[q] = table[q]
         /\ table[old].here /\ old # id
              => /\ ReplaceIdRows(table, old, id)[id] = table[old]
                 /\ ReplaceIdRows(table, old, id)[old] = NoRow
         /\ ~table[old].here \/ old = id => ReplaceIdRows(table, old, id) = table
<1> DEFINE new == ReplaceIdRows(table, old, id)
<1>1. NoRow \in Row
  BY DEF NoRow, Row, Text, Blank, NoText, NoTag
<1>2. CASE table[old].here /\ old # id
  BY <1>1, <1>2 DEF ReplaceIdRows
<1>3. CASE ~table[old].here \/ old = id
  BY <1>3 DEF ReplaceIdRows
<1> QED
  BY <1>2, <1>3

(* Edit gives the row the text of the patch, if it has one. *)
LEMMA EditTitle ==
  ASSUME NEW S, NEW table \in [S -> Row], NEW id \in S, NEW p \in Patch,
         NEW d, table[id].here
  PROVE  Edit(table, id, p, d)[id].title = PatchedTitle(table[id], p)
<1>1. CASE p # NoPatch
  <2> DEFINE r == [table[id] EXCEPT !.title = PatchedTitle(table[id], p),
                                   !.deleted = PatchedDeleted(table[id], p),
                                   !.dirty = d]
  <2>1. Edit(table, id, p, d) = [table EXCEPT ![id] = r]
    BY <1>1 DEF Edit
  <2>2. r.title = PatchedTitle(table[id], p)
    <3>1. table[id] \in Row
      OBVIOUS
    <3> QED
      BY <3>1 DEF Row
  <2> HIDE DEF r
  <2> QED
    BY <2>1, <2>2
<1>2. CASE p = NoPatch
  BY <1>2 DEF Edit, PatchedTitle, NoPatch
<1> QED
  BY <1>1, <1>2

(* Upsert writes to no other row, and to no dirty one. *)
LEMMA UpsertSpares ==
  ASSUME NEW S, NEW table \in [S -> Row], NEW id \in S, NEW v, NEW q \in S,
         q # id \/ table[id].dirty
  PROVE  Upsert(table, id, v)[q] = table[q]
BY DEF Upsert

(* Upsert makes a clean row show the version. *)
LEMMA UpsertShows ==
  ASSUME NEW S, NEW table \in [S -> Row], NEW id \in S, NEW v, ~table[id].dirty
  PROVE  /\ Upsert(table, id, v)[id].here /\ ~Upsert(table, id, v)[id].dirty
         /\ Upsert(table, id, v)[id].title = v.title
         /\ Upsert(table, id, v)[id].deleted = v.deleted
         /\ Upsert(table, id, v)[id].tag = v.tag
BY DEF Upsert

-----------------------------------------------------------------------------
(* The entries that carry a text, and the last of them.                     *)

TextsIn(o, id) == {i \in 1..Len(o) : o[i].id = id /\ o[i].patch.title # NoText}
LastIn(o, id, i) == i \in TextsIn(o, id) /\ \A j \in TextsIn(o, id) : j <= i

(* n holds the entries of o but the first, whatever their base tags. *)
Shifted(o, n) ==
  /\ Len(n) = Len(o) - 1
  /\ \A i \in 1..Len(n) : /\ n[i].id = o[i + 1].id /\ n[i].op = o[i + 1].op
                          /\ n[i].patch = o[i + 1].patch

(* The tail keeps every entry but the first.                                *)
LEMMA TailShifts ==
  ASSUME NEW S, NEW o \in Seq(Item(S)), o # <<>>
  PROVE  Shifted(o, Tail(o))
BY HeadTailType DEF Shifted

(* An acknowledged outbox keeps every entry but the first, with its op, id  *)
(* and patch.                                                               *)
LEMMA AcknowledgeShifts ==
  ASSUME NEW S, NEW o \in Seq(Item(S)), o # <<>>, NEW id, NEW tag \in Nat
  PROVE  Shifted(o, Rebase(Tail(o), id, tag))
<1>1. Tail(o) \in Seq(Item(S)) /\ Shifted(o, Tail(o))
  BY TailShifts, HeadTailType
<1> DEFINE t == Tail(o)
<1> HIDE DEF t
<1>2. /\ Len(Rebase(t, id, tag)) = Len(t)
      /\ \A i \in 1..Len(t) : /\ Rebase(t, id, tag)[i].id = t[i].id
                               /\ Rebase(t, id, tag)[i].op = t[i].op
                               /\ Rebase(t, id, tag)[i].patch = t[i].patch
  <2>1. t \in Seq(Item(S))
    BY <1>1 DEF t
  <2> QED
    BY <2>1, RebaseEntries
<1>3. Shifted(o, Rebase(t, id, tag))
  <2>1. Shifted(o, t)
    BY <1>1 DEF t
  <2> HIDE DEF t
  <2> QED
    BY <1>2, <2>1 DEF Shifted
<1> QED
  BY <1>3 DEF t

(* Without the first entry, the last text of a reminder stays the last. *)
LEMMA LastShifted ==
  ASSUME NEW S, NEW o \in Seq(Item(S)), o # <<>>, NEW n \in Seq(Item(S)), Shifted(o, n),
         NEW id
  PROVE  /\ \A i \in 1..Len(n) : LastIn(n, id, i) =>
              i + 1 \in 1..Len(o) /\ LastIn(o, id, i + 1)
         /\ \A i \in 1..Len(o) : LastIn(o, id, i) /\ i # 1 =>
              i - 1 \in 1..Len(n) /\ LastIn(n, id, i - 1)
<1>1. Len(o) \in Nat /\ Len(n) \in Nat /\ Len(n) = Len(o) - 1
  BY DEF Shifted
<1>2. \A i \in 1..Len(n) : i + 1 \in 1..Len(o) /\ (i \in TextsIn(n, id) <=> i + 1 \in TextsIn(o, id))
  BY <1>1 DEF Shifted, TextsIn
<1>3. \A i \in 1..Len(o) : i # 1 =>
        i - 1 \in 1..Len(n) /\ (i \in TextsIn(o, id) <=> i - 1 \in TextsIn(n, id))
  <2> TAKE i \in 1..Len(o)
  <2> HAVE i # 1
  <2>1. i - 1 \in 1..Len(n) /\ (i - 1) + 1 = i
    BY <1>1
  <2> QED
    BY <1>2, <2>1
<1>4. TextsIn(o, id) \subseteq 1..Len(o) /\ TextsIn(n, id) \subseteq 1..Len(n)
  BY DEF TextsIn
<1>5. ASSUME NEW i \in 1..Len(n), LastIn(n, id, i)
      PROVE  LastIn(o, id, i + 1)
  <2>1. i + 1 \in TextsIn(o, id)
    BY <1>2, <1>5 DEF LastIn
  <2>2. ASSUME NEW j \in TextsIn(o, id) PROVE j <= i + 1
    <3>1. CASE j = 1
      BY <1>1, <3>1
    <3>2. CASE j # 1
      BY <1>1, <1>3, <1>4, <1>5, <3>2 DEF LastIn
    <3> QED
      BY <3>1, <3>2
  <2> QED
    BY <2>1, <2>2 DEF LastIn
<1>6. ASSUME NEW i \in 1..Len(o), LastIn(o, id, i), i # 1
      PROVE  LastIn(n, id, i - 1)
  <2>1. i - 1 \in TextsIn(n, id)
    BY <1>3, <1>6 DEF LastIn
  <2>2. ASSUME NEW j \in TextsIn(n, id) PROVE j <= i - 1
    <3>1. j \in 1..Len(n) /\ j + 1 \in TextsIn(o, id)
      BY <1>2, <1>4
    <3> QED
      BY <1>1, <1>6, <3>1 DEF LastIn
  <2> QED
    BY <2>1, <2>2 DEF LastIn
<1> QED
  BY <1>2, <1>3, <1>5, <1>6

(* A new entry with a text is its reminder's last; it changes nothing for   *)
(* others, nor does one without.                                            *)
LEMMA LastAppended ==
  ASSUME NEW S, NEW o \in Seq(Item(S)), NEW n \in Seq(Item(S)),
         Len(n) = Len(o) + 1, \A i \in 1..Len(o) : n[i] = o[i],
         NEW id, NEW i \in 1..Len(n)
  PROVE  /\ n[Len(n)].id = id /\ n[Len(n)].patch.title # NoText
              => (LastIn(n, id, i) <=> i = Len(n))
         /\ ~(n[Len(n)].id = id /\ n[Len(n)].patch.title # NoText)
              => (LastIn(n, id, i) <=> LastIn(o, id, i) /\ i \in 1..Len(o))
<1>1. Len(o) \in Nat
  OBVIOUS
<1>2. \A j \in 1..Len(o) : j \in 1..Len(n) /\ (j \in TextsIn(n, id) <=> j \in TextsIn(o, id))
  BY <1>1 DEF TextsIn
<1>3. Len(n) \in TextsIn(n, id) <=> n[Len(n)].id = id /\ n[Len(n)].patch.title # NoText
  BY <1>1 DEF TextsIn
<1>4. TextsIn(o, id) \subseteq 1..Len(o) /\ TextsIn(n, id) \subseteq 1..Len(n)
  BY DEF TextsIn
<1>5. \A j \in 1..Len(n) : j = Len(n) \/ j \in 1..Len(o)
  BY <1>1
<1>6. ASSUME Len(n) \in TextsIn(n, id) PROVE LastIn(n, id, i) <=> i = Len(n)
  BY <1>1, <1>4, <1>6 DEF LastIn
<1>7. ASSUME Len(n) \notin TextsIn(n, id)
      PROVE  LastIn(n, id, i) <=> LastIn(o, id, i) /\ i \in 1..Len(o)
  <2>1. TextsIn(n, id) = TextsIn(o, id)
    BY <1>2, <1>4, <1>5, <1>7
  <2> QED
    BY <1>4, <2>1 DEF LastIn
<1> QED
  BY <1>3, <1>6, <1>7

(* The same, for a text that has just been appended. *)
LEMMA LastIsAppended ==
  ASSUME NEW S, NEW o \in Seq(Item(S)), NEW n \in Seq(Item(S)),
         Len(n) = Len(o) + 1, \A i \in 1..Len(o) : n[i] = o[i],
         NEW id, NEW i \in 1..Len(n), LastIn(n, id, i),
         n[Len(n)].id = id, n[Len(n)].patch.title # NoText
  PROVE  i = Len(n)
  BY LastAppended

(* The same, for an entry with no text, or one of another reminder. *)
LEMMA LastIsOlder ==
  ASSUME NEW S, NEW o \in Seq(Item(S)), NEW n \in Seq(Item(S)),
         Len(n) = Len(o) + 1, \A i \in 1..Len(o) : n[i] = o[i],
         NEW id, NEW i \in 1..Len(n), LastIn(n, id, i),
         ~(n[Len(n)].id = id /\ n[Len(n)].patch.title # NoText)
  PROVE  i \in 1..Len(o) /\ LastIn(o, id, i)
  BY LastAppended

(* A new id takes over the texts of the old one. *)
LEMMA LastReplaced ==
  ASSUME NEW S, NEW o \in Seq(Item(S)), NEW old \in S, NEW new \in S, old # new,
         ~Pending(o, new), NEW i \in 1..Len(o)
  PROVE  /\ LastIn(ReplaceIdOutbox(o, old, new), new, i) <=> LastIn(o, old, i)
         /\ ~LastIn(ReplaceIdOutbox(o, old, new), old, i)
         /\ \A q : q # old /\ q # new =>
              (LastIn(ReplaceIdOutbox(o, old, new), q, i) <=> LastIn(o, q, i))
<1> DEFINE n == ReplaceIdOutbox(o, old, new)
<1>1. /\ Len(n) = Len(o)
      /\ \A j \in 1..Len(o) : /\ n[j].id = IF o[j].id = old THEN new ELSE o[j].id
                              /\ n[j].patch = o[j].patch
  BY ReplaceIdEntries
<1>2. \A j \in 1..Len(o) : o[j].id # new
  BY DEF Pending
<1> HIDE DEF n
<1>3. TextsIn(n, new) = TextsIn(o, old)
  BY <1>1, <1>2 DEF TextsIn
<1>4. TextsIn(n, old) = {}
  BY <1>1 DEF TextsIn
<1>5. \A q : q # old /\ q # new => TextsIn(n, q) = TextsIn(o, q)
  BY <1>1 DEF TextsIn
<1>6. /\ LastIn(n, new, i) <=> LastIn(o, old, i)
      /\ ~LastIn(n, old, i)
      /\ \A q : q # old /\ q # new => (LastIn(n, q, i) <=> LastIn(o, q, i))
  BY <1>3, <1>4, <1>5 DEF LastIn
<1> QED
  BY <1>6 DEF n
=============================================================================
