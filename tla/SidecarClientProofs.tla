------------------------ MODULE SidecarClientProofs -------------------------
(***************************************************************************)
(* SecretStore implements SessionStore, for any sessions of any sizes: the *)
(* chunks a manifest names are whole, because a save only writes the slot  *)
(* the manifest does not name and a removal starts with the manifest.  And *)
(* a read of the zone misses nothing and comes to an end, for zones of any *)
(* size, pages of any size, and writes between any two of them.  And the   *)
(* two sides of an SRP exchange over the same password arrive at the same  *)
(* secret, for any safe group and generator and any numbers drawn: by the  *)
(* laws of powers modulo N, which are proved first.                        *)
(***************************************************************************)
EXTENDS MCSidecarClient, AuthSessionProofs, FiniteSetTheorems

(* Slot p holds all of session s, or its chunks below n. *)
Holds(p, s, n) == \A i \in 0..(n - 1) : chunk[p][i] = [of |-> s, index |-> i]

(* What the manifest names can be read. *)
Readable ==
  /\ manifest.kind = "direct" => manifest.of \in Sessions
  /\ manifest.kind = "chunks" =>
       \E s \in Sessions : Size[s] = manifest.count /\ Size[s] <= MaxChunks
                           /\ Holds(manifest.slot, s, Size[s])

(* Where each operation is. *)
Writing ==
  pc = "write" => /\ saving \in Sessions /\ Size[saving] <= MaxChunks
                  /\ index <= Size[saving]
                  /\ manifest.kind = "chunks" => slot # manifest.slot
                  /\ Holds(slot, saving, index)
Cleaning ==
  pc = "cleanup" /\ previous.kind = "chunks" =>
    manifest.kind = "chunks" /\ previous.slot # manifest.slot
Wiping == pc = "wipe" => manifest.kind = "none"
Found == pc = "write" => previous = manifest

IInv == Creds!TypeOK /\ Readable /\ Writing /\ Cleaning /\ Wiping /\ Found

(* The slot of a new session is the one not in use. *)
LEMMA OtherSlotFree ==
  ASSUME NEW m \in Creds!Manifest
  PROVE  /\ Creds!OtherSlot(m) \in Creds!Slots
         /\ m.kind = "chunks" => Creds!OtherSlot(m) # m.slot
BY DEF Creds!OtherSlot, Creds!Manifest, Creds!Slots

(* The vault starts with no session or with one saved directly. *)
LEMMA InitInv == Creds!Init => IInv
<1> SUFFICES ASSUME Creds!Init PROVE IInv
  OBVIOUS
<1>1. /\ Creds!NoManifest \in Creds!Manifest
      /\ \A s \in Sessions : Creds!Direct(s) \in Creds!Manifest
  BY PartsAssumption DEF Creds!Bounds, Creds!NoManifest, Creds!Direct, Creds!Manifest, Creds!Slots
<1>2. manifest \in Creds!Manifest /\ previous \in Creds!Manifest /\ manifest.kind # "chunks"
  BY <1>1 DEF Creds!Init, Creds!NoManifest, Creds!Direct
<1>3. manifest.kind = "direct" => manifest.of \in Sessions
  BY DEF Creds!Init, Creds!NoManifest, Creds!Direct
<1>4. chunk \in [Creds!Slots -> [Creds!Indexes -> Creds!Chunk]]
  BY DEF Creds!Init, Creds!Chunk
<1> QED
  BY <1>2, <1>3, <1>4
     DEF Creds!Init, IInv, Creds!TypeOK, Readable, Writing, Cleaning, Wiping, Found, Creds!Slots

(* Every step keeps what the manifest names whole. *)
LEMMA NextInv == IInv /\ [Creds!Next]_(Creds!vars) => IInv'
<1> USE PartsAssumption DEF Creds!Bounds
<1> SUFFICES ASSUME IInv, [Creds!Next]_(Creds!vars) PROVE IInv'
  OBVIOUS
<1> USE DEF IInv, Creds!TypeOK, Readable, Writing, Cleaning, Wiping, Found, Holds
<1>1. ASSUME NEW s \in Sessions, Creds!SetSession(s) PROVE IInv'
  <2>1. Creds!OtherSlot(manifest) \in Creds!Slots
        /\ (manifest.kind = "chunks" => Creds!OtherSlot(manifest) # manifest.slot)
    BY OtherSlotFree
  <2> QED BY <1>1, <2>1 DEF Creds!SetSession, Creds!vault
<1>2. ASSUME Creds!WriteChunk PROVE IInv'
  <2>1. index \in Creds!Indexes /\ [of |-> saving, index |-> index] \in Creds!Chunk
    BY <1>2 DEF Creds!WriteChunk, Creds!Indexes, Creds!Chunk
  <2>2. chunk' \in [Creds!Slots -> [Creds!Indexes -> Creds!Chunk]]
    BY <1>2, <2>1 DEF Creds!WriteChunk
  <2>3. \A i \in Creds!Indexes : i # index => chunk'[slot][i] = chunk[slot][i]
    BY <1>2, <2>1 DEF Creds!WriteChunk
  <2>4. chunk'[slot][index] = [of |-> saving, index |-> index]
    BY <1>2, <2>1 DEF Creds!WriteChunk
  <2>5. \A p \in Creds!Slots : p # slot => chunk'[p] = chunk[p]
    BY <1>2 DEF Creds!WriteChunk
  <2>6. Writing'
    BY <1>2, <2>1, <2>3, <2>4 DEF Creds!WriteChunk, Creds!Indexes
  <2>7. Readable'
    <3>1. manifest' = manifest
      BY <1>2 DEF Creds!WriteChunk
    <3>2. manifest.kind = "chunks" => chunk'[manifest.slot] = chunk[manifest.slot]
      BY <1>2, <2>5 DEF Creds!WriteChunk, Creds!Manifest
    <3> QED BY <3>1, <3>2
  <2> QED BY <1>2, <2>2, <2>6, <2>7 DEF Creds!WriteChunk
<1>3. ASSUME Creds!WriteManifest PROVE IInv'
  <2>1. manifest' = [kind |-> "chunks", of |-> None, slot |-> slot, count |-> Size[saving]]
        /\ manifest' \in Creds!Manifest
    BY <1>3 DEF Creds!WriteManifest, Creds!Named, Creds!NoManifest, Creds!Manifest
  <2>2. Readable'
    BY <1>3, <2>1 DEF Creds!WriteManifest
  <2>3. previous' = previous /\ previous = manifest /\ pc' = "cleanup" /\ chunk' = chunk
    BY <1>3 DEF Creds!WriteManifest
  <2> QED BY <1>3, <2>1, <2>2, <2>3 DEF Creds!WriteManifest
<1>4. ASSUME Creds!Idle, UNCHANGED Creds!vault, disturbed' \in BOOLEAN PROVE IInv'
  BY <1>4 DEF Creds!Idle, Creds!vault, Creds!Manifest, Creds!NoManifest, Creds!Slots
<1>5. ASSUME NEW done \in BOOLEAN, Creds!DeleteOld(done) PROVE IInv'
  <2>1. index \in Creds!Indexes /\ previous.slot \in Creds!Slots
    BY <1>5 DEF Creds!DeleteOld, Creds!Indexes, Creds!Manifest
  <2>2. chunk' \in [Creds!Slots -> [Creds!Indexes -> Creds!Chunk]]
    BY <1>5, <2>1 DEF Creds!DeleteOld, Creds!Chunk
  <2>3. chunk'[manifest.slot] = chunk[manifest.slot]
    BY <1>5, <2>1 DEF Creds!DeleteOld, Creds!Manifest
  <2> QED BY <1>5, <2>2, <2>3 DEF Creds!DeleteOld
<1>6. CASE Creds!DeleteSession
  <2>1. /\ manifest' = Creds!NoManifest /\ Creds!NoManifest \in Creds!Manifest
        /\ Creds!NoManifest.kind = "none"
    BY <1>6 DEF Creds!DeleteSession, Creds!NoManifest, Creds!Manifest, Creds!Slots
  <2> QED BY <1>6, <2>1 DEF Creds!DeleteSession, Creds!Slots
<1>7. CASE Creds!WipeChunk
  <2>1. chunk' \in [Creds!Slots -> [Creds!Indexes -> Creds!Chunk]]
    BY <1>7 DEF Creds!WipeChunk, Creds!Chunk, Creds!Indexes
  <2>2. manifest' = manifest /\ manifest.kind = "none" /\ pc' = "wipe" /\ index' \in Nat
    BY <1>7 DEF Creds!WipeChunk
  <2> QED BY <1>7, <2>1, <2>2 DEF Creds!WipeChunk
<1>8. CASE Creds!NextSlot
  BY <1>8 DEF Creds!NextSlot, Creds!SlotWiped, Creds!vault, Creds!Slots
<1>9. CASE UNCHANGED Creds!vars
  BY <1>9 DEF Creds!vars, Creds!vault
<1> QED
  BY <1>1, <1>2, <1>3, <1>4, <1>5, <1>6, <1>7, <1>8, <1>9
     DEF Creds!Next, Creds!WriteFails, Creds!SetDone, Creds!DeleteDone, Creds!WipeFails,
         Creds!Crash

(* What a reader finds of a readable vault. *)
LEMMA ReadWhole ==
  ASSUME IInv, manifest.kind = "chunks", NEW s \in Sessions,
         Size[s] = manifest.count, Holds(manifest.slot, s, Size[s])
  PROVE  Creds!session = s
<1>1. 0 \in 0..(Size[s] - 1)
  BY PartsAssumption DEF Creds!Bounds
<1>2. chunk[manifest.slot][0] = [of |-> s, index |-> 0]
  BY <1>1 DEF Holds
<1>3. chunk[manifest.slot][0].of = s
  BY <1>2
<1>4. Creds!Whole(manifest, s)
  BY DEF Creds!Whole, Holds
<1> QED BY <1>3, <1>4 DEF Creds!session

(* So what is read is always a session, or none. *)
LEMMA ReadSession == IInv => Creds!session \in Sessions \cup {None}
<1> SUFFICES ASSUME IInv PROVE Creds!session \in Sessions \cup {None}
  OBVIOUS
<1>1. CASE manifest.kind = "chunks"
  BY <1>1, ReadWhole DEF IInv, Readable
<1>2. CASE manifest.kind \in {"none", "direct"}
  BY <1>2 DEF IInv, Readable, Creds!session
<1> QED BY <1>1, <1>2 DEF IInv, Creds!TypeOK, Creds!Manifest

(* A step leaves what is read alone, or saves, or forgets. *)
LEMMA StepRefines ==
  IInv /\ IInv' /\ [Creds!Next]_(Creds!vars) => [Creds!Store!Next]_(Creds!session)
<1> SUFFICES ASSUME IInv, IInv', [Creds!Next]_(Creds!vars)
             PROVE  Creds!Store!Next \/ Creds!session' = Creds!session
  OBVIOUS
<1>1. CASE Creds!DeleteSession
  <2>1. manifest' = Creds!NoManifest
    BY <1>1 DEF Creds!DeleteSession
  <2>2. Creds!session' = None
    BY <2>1 DEF Creds!session, Creds!NoManifest
  <2> QED BY <2>2 DEF Creds!Store!Next, Creds!Store!Forget
<1>2. CASE Creds!WriteManifest
  <2>1. manifest'.kind = "chunks"
    BY <1>2 DEF Creds!WriteManifest, Creds!Named, Creds!NoManifest
  <2>2. Creds!session' \in Sessions
    <3>1. PICK s \in Sessions : Size[s] = manifest'.count
                                /\ \A i \in 0..(Size[s] - 1) :
                                     chunk'[manifest'.slot][i] = [of |-> s, index |-> i]
      BY <2>1 DEF IInv, Readable, Holds
    <3>2. 0 \in 0..(Size[s] - 1)
      BY PartsAssumption DEF Creds!Bounds
    <3>3. chunk'[manifest'.slot][0] = [of |-> s, index |-> 0]
      BY <3>1, <3>2
    <3>4. chunk'[manifest'.slot][0].of = s
      BY <3>3
    <3>5. Creds!session' = s
      BY <2>1, <3>1, <3>4 DEF Creds!session, Creds!Whole
    <3> QED BY <3>5
  <2> QED BY <2>2 DEF Creds!Store!Next, Creds!Store!Save
<1>3. ASSUME UNCHANGED Creds!vault PROVE Creds!session' = Creds!session
  BY <1>3 DEF Creds!vault, Creds!session, Creds!Whole
<1>4. ASSUME manifest' = manifest,
             manifest.kind = "chunks" => chunk'[manifest.slot] = chunk[manifest.slot]
      PROVE  Creds!session' = Creds!session
  <2>1. CASE manifest.kind = "chunks"
    <3>1. \A s : Creds!Whole(manifest, s)' <=> Creds!Whole(manifest, s)
      BY <1>4, <2>1 DEF Creds!Whole
    <3>2. chunk'[manifest'.slot][0] = chunk[manifest.slot][0]
      BY <1>4, <2>1
    <3> QED BY <1>4, <2>1, <3>1, <3>2 DEF Creds!session
  <2>2. CASE manifest.kind # "chunks"
    BY <1>4, <2>2 DEF Creds!session, IInv, Creds!TypeOK, Creds!Manifest
  <2> QED BY <2>1, <2>2
<1>5. CASE Creds!WriteChunk
  <2>1. manifest.kind = "chunks" => chunk'[manifest.slot] = chunk[manifest.slot]
    BY <1>5 DEF Creds!WriteChunk, IInv, Writing, Creds!TypeOK, Creds!Manifest
  <2> QED BY <1>4, <1>5, <2>1 DEF Creds!WriteChunk
<1>6. ASSUME NEW done \in BOOLEAN, Creds!DeleteOld(done) PROVE Creds!session' = Creds!session
  <2>1. chunk'[manifest.slot] = chunk[manifest.slot]
    BY <1>6 DEF Creds!DeleteOld, IInv, Cleaning, Creds!TypeOK, Creds!Manifest
  <2> QED BY <1>4, <1>6, <2>1 DEF Creds!DeleteOld
<1>7. CASE Creds!WipeChunk
  BY <1>4, <1>7 DEF Creds!WipeChunk, IInv, Wiping
<1> QED
  BY <1>1, <1>2, <1>3, <1>5, <1>6, <1>7
     DEF Creds!Next, Creds!SetSession, Creds!WriteFails, Creds!SetDone, Creds!NextSlot,
         Creds!DeleteDone, Creds!WipeFails, Creds!Crash, Creds!vars

(* Saving and removing a session are atomic to a reader, whatever fails and *)
(* wherever the process dies (secrets.rs: set_session, delete_session).     *)
THEOREM SavesAtomically == Creds!Spec => Implements
<1>1. IInv => Creds!session \in Sessions \cup {None}
  BY ReadSession
<1>2. Creds!Init /\ IInv => Creds!Store!Init
  BY <1>1 DEF Creds!Store!Init
<1> QED
  BY InitInv, NextInv, StepRefines, <1>2, PTL
     DEF Creds!Spec, Implements, Creds!Implements, Creds!Store!Spec

(* The entries of the vault keep their types. *)
THEOREM SecretsTyped == Creds!Spec => []Creds!TypeOK
<1>1. IInv => Creds!TypeOK
  BY DEF IInv
<1> QED
  BY InitInv, NextInv, <1>1, PTL DEF Creds!Spec

-----------------------------------------------------------------------------
(* The paging of the zone. *)

Looping == {"drain", "query", "delta"}

(* The guard of the loop in hand: it has accepted a token for every page    *)
(* asked for but the last.                                                  *)
Guarded ==
  /\ IsFiniteSet(seen) /\ Cardinality(seen) <= MaxPages
  /\ reading \in Looping \cup {"token"} => pages <= Cardinality(seen)
  /\ pages <= MaxPages + 1

(* Nothing in the zone is newer than its clock, nor is the token in hand.   *)
Past == marker <= clock /\ \A r \in Paging!Names : tag[r] <= clock

(* What has been received so far: of a delta read everything up to the      *)
(* token in hand, of a query every record up to the last one.               *)
HasUpTo(r) == tag[r] \in (cursor + 1)..marker => [id |-> r, tag |-> tag[r]] \in got
Gathered ==
  /\ reading \in {"token", "drain", "query"} => cursor = 0
  /\ reading \in {"delta", "done"} => \A r \in Paging!Names : HasUpTo(r)
  /\ reading = "query" => \A r \in Paging!Names : r <= cont => HasUpTo(r)
  /\ reading \in {"token", "drain"} => cont = 0

PagingInv == Paging!TypeOK /\ Guarded /\ Past /\ Gathered

-----------------------------------------------------------------------------

(* A read begins with nothing received. *)
LEMMA PagingInit == ASSUME Paging!Bounds, Paging!Init PROVE PagingInv
<1> USE DEF Paging!Bounds
<1>1. Paging!TypeOK
  <2>1. tag \in [Paging!Names -> Nat]
    BY DEF Paging!Init
  <2> QED
    BY <2>1 DEF Paging!Init, Paging!TypeOK
<1>2. Guarded
  <2>1. CASE seen = {}
    BY <2>1, FS_EmptySet DEF Paging!Init, Guarded
  <2>2. CASE seen = {cursor}
    <3>1. IsFiniteSet({cursor}) /\ Cardinality({cursor}) = 1
      BY FS_Singleton
    <3> QED
      BY <2>2, <3>1 DEF Paging!Init, Guarded
  <2> QED
    BY <2>1, <2>2 DEF Paging!Init
<1>3. Past
  BY DEF Paging!Init, Past
<1>4. Gathered
  BY DEF Paging!Init, Gathered, HasUpTo
<1> QED
  BY <1>1, <1>2, <1>3, <1>4 DEF PagingInv

(* The instance brings cardinalities of its own, which are the same.        *)
LEMMA SameCardinality == ASSUME NEW S PROVE Paging!Cardinality(S) = Cardinality(S)
BY DEF Paging!Cardinality, Cardinality, Paging!IsFiniteSet, IsFiniteSet

(* A page more: accepted, refused, or the last.                             *)
LEMMA GuardStep ==
  ASSUME Paging!Bounds, Paging!TypeOK, Guarded, NEW t \in Nat, NEW then \in BOOLEAN,
         reading \in Looping, Paging!GoOn(t, then), Paging!CountPage
  PROVE  Guarded' /\ seen' \subseteq Nat /\ pages' \in Nat
<1> USE DEF Paging!Bounds
<1>1. pages <= MaxPages /\ pages' = pages + 1
  BY FS_CardinalityType DEF Paging!TypeOK, Guarded, Paging!CountPage
<1>2. CASE Paging!advance(t)
  <2>1. seen' = seen \cup {t} /\ t \notin seen /\ Cardinality(seen) < MaxPages
    BY <1>2, SameCardinality DEF Paging!GoOn, Paging!advance
  <2>2. IsFiniteSet(seen') /\ Cardinality(seen') = Cardinality(seen) + 1
    BY <2>1, FS_AddElement DEF Guarded
  <2> QED
    BY <1>1, <2>1, <2>2, FS_CardinalityType DEF Paging!TypeOK, Guarded
<1>3. CASE ~Paging!advance(t)
  <2>1. seen' = seen /\ reading' = "failed"
    BY <1>3 DEF Paging!GoOn
  <2>2. pages' <= MaxPages + 1 /\ pages' \in Nat
    BY <1>1 DEF Paging!TypeOK
  <2>3. reading' \notin Looping \cup {"token"}
    BY <2>1 DEF Looping
  <2> QED
    BY <2>1, <2>2, <2>3 DEF Paging!TypeOK, Guarded
<1> QED
  BY <1>2, <1>3

(* The end of a loop leaves its guard as it began. *)
LEMMA GuardOver ==
  ASSUME Paging!Bounds, NEW place \in {"query", "done"}, Paging!Over(place)
  PROVE  Guarded' /\ seen' \subseteq Nat /\ pages' \in Nat
BY FS_EmptySet DEF Paging!Bounds, Paging!Over, Guarded

(* A write of another device is newer than any token. *)
LEMMA WriteStep ==
  ASSUME Paging!Bounds, PagingInv, NEW r \in Paging!Names, Paging!Write(r)
  PROVE  PagingInv'
<1> USE DEF Paging!Bounds, PagingInv, Paging!Write, Paging!Names
<1>1. Paging!TypeOK'
  BY DEF Paging!TypeOK
<1>2. Guarded'
  BY DEF Guarded
<1>3. Past'
  BY DEF Past, Paging!TypeOK
<1>4. Gathered'
  <2>1. \A q \in Paging!Names : HasUpTo(q) => HasUpTo(q)'
    BY DEF HasUpTo, Past, Paging!TypeOK
  <2> QED
    BY <2>1 DEF Gathered
<1> QED
  BY <1>1, <1>2, <1>3, <1>4

(* The token of a full read is taken before its first page. *)
LEMMA TokenStep == ASSUME Paging!Bounds, PagingInv, Paging!current_sync_token PROVE PagingInv'
<1> USE DEF Paging!Bounds, PagingInv, Paging!current_sync_token, Paging!zone
<1>1. Guarded' /\ seen' \subseteq Nat /\ pages' \in Nat
  <2>1. CASE Paging!Over("query")
    BY <2>1, GuardOver
  <2>2. CASE Paging!Over("drain")
    BY <2>2, FS_EmptySet DEF Paging!Over, Guarded
  <2> QED
    BY <2>1, <2>2
<1>2. Paging!TypeOK'
  BY <1>1 DEF Paging!TypeOK, Paging!Over
<1>3. Past'
  BY DEF Past, Paging!TypeOK
<1>4. Gathered'
  BY DEF Gathered, HasUpTo, Paging!TypeOK, Paging!Over, Paging!Names
<1> QED
  BY <1>1, <1>2, <1>3, <1>4

(* One round of changes, of either loop. *)
LEMMA RoundStep ==
  ASSUME Paging!Bounds, PagingInv, NEW end \in Nat, NEW more \in BOOLEAN, NEW t \in Nat,
         NEW then \in {"query", "done"}, reading \in Looping, Paging!Round(end, more, t, then)
  PROVE  /\ Guarded' /\ Past' /\ UNCHANGED <<tag, clock, cursor, cont>>
         /\ reading' \in {reading, then, "failed"} /\ marker' \in Nat
         /\ seen' \subseteq Nat /\ pages' \in Nat
         /\ marker' \in {marker, end} /\ marker <= end /\ end <= clock
<1> USE DEF Paging!Bounds, PagingInv, Paging!Round, Paging!zone
<1>1. Guarded' /\ seen' \subseteq Nat /\ pages' \in Nat
  <2>1. CASE more
    BY <2>1, GuardStep
  <2>2. CASE ~more
    BY <2>2, GuardOver
  <2> QED
    BY <2>1, <2>2
<1>2. UNCHANGED <<tag, clock, cursor, cont>>
  BY DEF Paging!GoOn
<1>3. reading' \in {reading, then, "failed"}
  BY DEF Paging!GoOn, Paging!Over
<1>4. marker <= end /\ end <= clock /\ t \in {end, 0}
  BY DEF Paging!TypeOK
<1>5. marker' \in {marker, end}
  BY <1>4 DEF Paging!GoOn, Paging!advance
<1>6. Past' /\ marker' \in Nat
  BY <1>2, <1>4, <1>5 DEF Past, Paging!TypeOK
<1> QED
  BY <1>1, <1>2, <1>3, <1>4, <1>5, <1>6

(* Draining the changes keeps what was received. *)
LEMMA DrainStep ==
  ASSUME Paging!Bounds, PagingInv, NEW end \in Nat, NEW more \in BOOLEAN, NEW t \in Nat,
         Paging!sync_cursor(end, more, t)
  PROVE  PagingInv'
<1> USE DEF Paging!sync_cursor
<1>1. /\ Guarded' /\ Past' /\ UNCHANGED <<tag, clock, cursor, cont, got>>
      /\ reading' \in {"drain", "query", "failed"} /\ marker' \in Nat
      /\ seen' \subseteq Nat /\ pages' \in Nat
  BY RoundStep DEF Looping
<1>2. Paging!TypeOK'
  BY <1>1 DEF PagingInv, Paging!TypeOK
<1>3. Gathered'
  BY <1>1 DEF PagingInv, Gathered, HasUpTo, Paging!Names
<1> QED
  BY <1>1, <1>2, <1>3 DEF PagingInv

(* A delta brings what lies between two tokens. *)
LEMMA DeltaStep ==
  ASSUME Paging!Bounds, PagingInv, NEW end \in Nat, NEW more \in BOOLEAN, NEW t \in Nat,
         Paging!changes(end, more, t)
  PROVE  PagingInv'
<1> USE DEF Paging!changes
<1>1. /\ Guarded' /\ Past' /\ UNCHANGED <<tag, clock, cursor, cont>>
      /\ reading' \in {"delta", "done", "failed"} /\ marker' \in Nat
      /\ seen' \subseteq Nat /\ pages' \in Nat
      /\ marker' \in {marker, end} /\ marker <= end /\ end <= clock
  BY RoundStep DEF Looping
<1>2. got' = got \cup {[id |-> r, tag |-> tag[r]] :
                         r \in {q \in Paging!Names : tag[q] \in (marker + 1)..end}}
  BY DEF Paging!Received
<1>3. Paging!TypeOK'
  BY <1>1, <1>2 DEF PagingInv, Paging!TypeOK
<1>4. ASSUME NEW r \in Paging!Names PROVE HasUpTo(r)'
  <2>1. HasUpTo(r) /\ tag[r] \in Nat /\ marker \in Nat /\ cursor \in Nat
    BY DEF PagingInv, Gathered, Paging!TypeOK
  <2>2. CASE tag[r] \in (marker + 1)..end
    BY <1>1, <1>2, <2>2 DEF HasUpTo
  <2>3. CASE tag[r] \notin (marker + 1)..end
    BY <1>1, <1>2, <2>1, <2>3 DEF HasUpTo
  <2> QED
    BY <2>2, <2>3
<1>5. Gathered'
  BY <1>1, <1>4 DEF Gathered
<1> QED
  BY <1>1, <1>3, <1>5 DEF PagingInv

(* A page of the query brings the records up to its last. *)
LEMMA QueryStep ==
  ASSUME Paging!Bounds, PagingInv, NEW last \in Nat, NEW more \in BOOLEAN,
         Paging!query(last, more)
  PROVE  PagingInv'
<1> USE DEF Paging!Bounds, Paging!query, Paging!zone
<1>1. Guarded' /\ seen' \subseteq Nat /\ pages' \in Nat
  <2>1. CASE more
    BY <2>1, GuardStep DEF PagingInv, Looping
  <2>2. CASE ~more
    BY <2>2, GuardOver
  <2> QED
    BY <2>1, <2>2
<1>2. /\ UNCHANGED <<tag, clock, cursor, marker>> /\ reading' \in {"query", "done", "failed"}
      /\ cont' \in {cont, last} /\ last \in cont..MaxName
  BY DEF Paging!GoOn, Paging!Over
<1>3. got' = got \cup {[id |-> r, tag |-> tag[r]] : r \in {q \in (cont + 1)..last : tag[q] # 0}}
  BY DEF Paging!Received
<1>4. cont \in 0..MaxName /\ marker \in Nat /\ cursor = 0
  BY DEF PagingInv, Paging!TypeOK, Gathered
<1>5. Paging!TypeOK'
  BY <1>1, <1>2, <1>3, <1>4 DEF PagingInv, Paging!TypeOK, Paging!Names
<1>6. Past'
  BY <1>2 DEF PagingInv, Past
<1>7. ASSUME NEW r \in Paging!Names, r <= last PROVE HasUpTo(r)'
  <2>1. tag[r] \in Nat /\ r \in Nat
    BY DEF PagingInv, Paging!TypeOK, Paging!Names
  <2>2. CASE r <= cont
    BY <1>2, <1>3, <2>2 DEF PagingInv, Gathered, HasUpTo
  <2>3. CASE r > cont
    <3>1. r \in (cont + 1)..last
      BY <1>2, <1>4, <1>7, <2>1, <2>3
    <3>2. tag[r] # 0 => [id |-> r, tag |-> tag[r]] \in got'
      BY <1>3, <3>1
    <3> QED
      BY <1>2, <1>4, <2>1, <3>2 DEF HasUpTo
  <2> QED
    BY <1>4, <2>1, <2>2, <2>3
<1>8. reading' = "done" => \A r \in Paging!Names : HasUpTo(r)'
  <2> SUFFICES ASSUME reading' = "done", NEW r \in Paging!Names PROVE HasUpTo(r)'
    OBVIOUS
  <2>1. tag[r] \in Nat /\ r \in Nat
    BY DEF PagingInv, Paging!TypeOK, Paging!Names
  <2>2. ~more
    BY DEF Paging!GoOn
  <2>3. CASE r <= last
    BY <1>7, <2>3
  <2>4. CASE r > last
    <3>1. r \in (last + 1)..MaxName
      BY <1>2, <1>4, <2>1, <2>4 DEF Paging!Names
    <3>2. tag[r] = 0
      BY <2>2, <3>1
    <3> QED
      BY <1>2, <1>4, <3>2 DEF HasUpTo
  <2> QED
    BY <1>2, <1>4, <2>1, <2>3, <2>4
<1>9. Gathered'
  <2>1. reading' = "query" => \A r \in Paging!Names : r <= cont' => HasUpTo(r)'
    <3> SUFFICES ASSUME NEW r \in Paging!Names, r <= cont' PROVE HasUpTo(r)'
      OBVIOUS
    <3>1. r \in Nat /\ r <= last
      BY <1>2, <1>4 DEF Paging!Names
    <3> QED
      BY <1>7, <3>1
  <2> QED
    BY <1>2, <1>4, <1>8, <2>1 DEF Gathered
<1> QED
  BY <1>1, <1>5, <1>6, <1>9 DEF PagingInv

(* Every step of a read keeps it complete. *)
LEMMA PagingStep == ASSUME Paging!Bounds, PagingInv, [Paging!Next]_Paging!vars PROVE PagingInv'
<1>1. CASE Paging!ReadStep
  <2>1. CASE Paging!current_sync_token
    BY <2>1, TokenStep
  <2>2. ASSUME NEW end \in 0..clock, NEW more \in BOOLEAN, NEW t \in 0..clock,
               Paging!sync_cursor(end, more, t)
        PROVE  PagingInv'
    <3>1. end \in Nat /\ t \in Nat
      BY DEF PagingInv, Paging!TypeOK
    <3> QED
      BY <2>2, <3>1, DrainStep
  <2>3. ASSUME NEW end \in 0..clock, NEW more \in BOOLEAN, NEW t \in 0..clock,
               Paging!changes(end, more, t)
        PROVE  PagingInv'
    <3>1. end \in Nat /\ t \in Nat
      BY DEF PagingInv, Paging!TypeOK
    <3> QED
      BY <2>3, <3>1, DeltaStep
  <2>4. ASSUME NEW last \in 0..MaxName, NEW more \in BOOLEAN, Paging!query(last, more)
        PROVE  PagingInv'
    <3>1. last \in Nat
      BY DEF Paging!Bounds
    <3> QED
      BY <2>4, <3>1, QueryStep
  <2>5. CASE Paging!reject_embedded_errors
    BY <2>5 DEF Paging!reject_embedded_errors, Paging!zone, PagingInv, Paging!TypeOK,
       Guarded, Past, Gathered, HasUpTo, Looping
  <2> QED
    BY <1>1, <2>1, <2>2, <2>3, <2>4, <2>5 DEF Paging!ReadStep
<1>2. ASSUME NEW r \in Paging!Names, Paging!Write(r) PROVE PagingInv'
  BY <1>2, WriteStep
<1>3. CASE UNCHANGED Paging!vars
  BY <1>3 DEF Paging!vars, Paging!zone, PagingInv, Paging!TypeOK, Guarded, Past, Gathered,
     HasUpTo
<1> QED
  BY <1>1, <1>2, <1>3 DEF Paging!Next, Paging!Finished

(* What is received is complete up to the token in hand, always. *)
LEMMA PagingAlways == Paging!Spec => []PagingInv
<1>1. Paging!Init => PagingInv
  BY PagingInit, PartsAssumption
<1>2. PagingInv /\ [Paging!Next]_Paging!vars => PagingInv'
  BY PagingStep, PartsAssumption
<1> QED
  BY <1>1, <1>2, PTL DEF Paging!Spec

-----------------------------------------------------------------------------

(* With the token a read returns a cache has missed nothing, for a zone of  *)
(* any size, any division into pages and any writes between them.           *)
THEOREM ReadsMissNothing == Paging!Spec => []NothingMissed
<1>1. PagingInv => NothingMissed
  BY DEF PagingInv, Gathered, HasUpTo, NothingMissed, Paging!NothingMissed
<1> QED
  BY <1>1, PagingAlways, PTL

(* PageGuard ends every loop, for any limit and any answers of CloudKit.    *)
THEOREM LoopsAreBounded == Paging!Spec => []PagesBounded
<1>1. PagingInv => PagesBounded
  BY DEF PagingInv, Guarded, PagesBounded, Paging!PagesBounded
<1> QED
  BY <1>1, PagingAlways, PTL

(* The types of ZonePaging. *)
THEOREM PagingTyped == Paging!Spec => []Paging!TypeOK
<1>1. PagingInv => Paging!TypeOK
  BY DEF PagingInv
<1> QED
  BY <1>1, PagingAlways, PTL

-----------------------------------------------------------------------------

(* A set of numbers that holds 0 and with each number the next holds all. *)
LEMMA Induction ==
  ASSUME NEW S, 0 \in S, \A n \in Nat : n \in S => n + 1 \in S
  PROVE  Nat \subseteq S
<1> SUFFICES ASSUME NEW n \in Nat, n \notin S PROVE FALSE
  OBVIOUS
<1> DEFINE T == {i \in 0..n : i \in S}
           f == [i \in T |-> i + 1]
<1>1. IsFiniteSet(0..n)
  BY FS_Interval
<1>2. IsFiniteSet(T) /\ 0 \in T
  BY <1>1, FS_Subset
<1>3. IsFiniteSet(T \ {0}) /\ Cardinality(T \ {0}) = Cardinality(T) - 1
  BY <1>2, FS_RemoveElement
<1>4. Cardinality(T) \in Nat
  BY <1>2, FS_CardinalityType
<1>5. \A i \in T : i + 1 \in T \ {0}
  OBVIOUS
<1>6. f \in [T -> T \ {0}]
  BY <1>5
<1>7. Cardinality(T \ {0}) < Cardinality(T)
  BY <1>3, <1>4
<1>8. \E i, j \in T : i # j /\ f[i] = f[j]
  <2> HIDE DEF T, f
  <2> QED
    BY <1>2, <1>3, <1>6, <1>7, FS_PigeonHole
<1> QED
  BY <1>8

(* A number is its quotient times the modulus and its rest. *)
LEMMA ModBasics ==
  ASSUME NEW M \in Nat \ {0}, NEW a \in Nat
  PROVE  /\ a % M \in Nat /\ a % M \in 0..M - 1 /\ a \div M \in Nat
         /\ a = M * (a \div M) + (a % M)
OBVIOUS

(* There is only one such rest. *)
LEMMA ModUnique ==
  ASSUME NEW M \in Nat \ {0}, NEW q \in Nat, NEW r \in 0..M - 1
  PROVE  (M * q + r) % M = r
OBVIOUS

(* A factor may be replaced by its rest. *)
LEMMA ModTimes ==
  ASSUME NEW M \in Nat \ {0}, NEW a \in Nat, NEW d \in Nat
  PROVE  ((a % M) * d) % M = (a * d) % M
<1> DEFINE q == a \div M  r == a % M  c == r * d  p == c \div M  s == c % M
<1>1. q \in Nat /\ r \in Nat /\ a = M * q + r
  BY ModBasics
<1> HIDE DEF q, r
<1>0. c \in Nat
  BY <1>1
<1> HIDE DEF c
<1>2. p \in Nat /\ s \in 0..M - 1 /\ s \in Nat /\ c = M * p + s
  BY <1>0, ModBasics
<1> HIDE DEF p, s
<1>3. a * d = M * (q * d + p) + s
  <2>1. a * d = (M * q) * d + c
    BY <1>1 DEF c
  <2>2. (M * q) * d = M * (q * d)
    BY <1>1
  <2>3. M * (q * d + p) = M * (q * d) + M * p
    BY <1>1, <1>2
  <2> QED
    BY <1>0, <1>1, <1>2, <2>1, <2>2, <2>3
<1>4. q * d + p \in Nat
  BY <1>1, <1>2
<1>5. (a * d) % M = s
  BY <1>2, <1>3, <1>4, ModUnique
<1> QED
  BY <1>5 DEF s, c, r

(* A multiple of the modulus does not change the rest. *)
LEMMA ModPlus ==
  ASSUME NEW M \in Nat \ {0}, NEW a \in Nat, NEW q \in Nat
  PROVE  (a + M * q) % M = a % M
<1>1. PICK r \in 0..M - 1, p \in Nat : a = M * p + r /\ r = a % M
  BY ModBasics
<1>2. a + M * q = M * (p + q) + r /\ p + q \in Nat
  BY <1>1
<1>3. (M * (p + q) + r) % M = r
  BY <1>1, <1>2, ModUnique
<1> QED
  BY <1>1, <1>2, <1>3

(* What the LET of modpow defines. *)
IsPower(f, m, n) ==
  f = [i \in 0..n |-> IF i = 0 THEN 1 % N ELSE (f[i - 1] * m) % N]

(* There is such a function, whatever the exponent. *)
LEMMA PowerExists ==
  ASSUME Exchange!Numbers, NEW m \in Nat
  PROVE  \A n \in Nat : \E f \in [0..n -> 0..N - 1] : IsPower(f, m, n)
<1> USE DEF Exchange!Numbers
<1> DEFINE S == {n \in Nat : \E f \in [0..n -> 0..N - 1] : IsPower(f, m, n)}
<1>1. 0 \in S
  <2> DEFINE f == [i \in 0..0 |-> 1 % N]
  <2>1. f \in [0..0 -> 0..N - 1]
    OBVIOUS
  <2>2. IsPower(f, m, 0)
    BY DEF IsPower
  <2> QED
    BY <2>1, <2>2
<1>2. ASSUME NEW n \in Nat, n \in S PROVE n + 1 \in S
  <2>1. PICK f \in [0..n -> 0..N - 1] : IsPower(f, m, n)
    BY <1>2
  <2> DEFINE h == [i \in 0..n + 1 |-> IF i = n + 1 THEN (f[n] * m) % N ELSE f[i]]
  <2>2. f[n] \in Nat /\ f[n] * m \in Nat
    OBVIOUS
  <2>3. (f[n] * m) % N \in 0..N - 1
    BY <2>2, ModBasics
  <2>4. h \in [0..n + 1 -> 0..N - 1]
    BY <2>3
  <2>5. ASSUME NEW i \in 0..n + 1
        PROVE  h[i] = IF i = 0 THEN 1 % N ELSE (h[i - 1] * m) % N
    <3>1. CASE i = n + 1
      <4>1. h[i] = (f[n] * m) % N /\ h[i - 1] = f[n] /\ i # 0
        BY <3>1
      <4> HIDE DEF h
      <4> QED
        BY <4>1
    <3>2. CASE i # n + 1
      <4>1. i \in 0..n /\ h[i] = f[i] /\ (i # 0 => h[i - 1] = f[i - 1])
        BY <3>2
      <4>2. f[i] = IF i = 0 THEN 1 % N ELSE (f[i - 1] * m) % N
        BY <2>1, <4>1 DEF IsPower
      <4> HIDE DEF h
      <4> QED
        BY <4>1, <4>2
    <3> QED
      BY <3>1, <3>2
  <2>6. IsPower(h, m, n + 1)
    <3>1. h = [i \in 0..n + 1 |-> h[i]]
      OBVIOUS
    <3> HIDE DEF h
    <3> QED
      BY <2>5, <3>1 DEF IsPower
  <2> HIDE DEF h
  <2>7. \E w \in [0..n + 1 -> 0..N - 1] : IsPower(w, m, n + 1)
    BY <2>4, <2>6
  <2> QED
    BY <2>7
<1>3. Nat \subseteq S
  <2> HIDE DEF S
  <2> QED
    BY <1>1, <1>2, Induction
<1> QED
  BY <1>3

(* And two of them agree as far as both go. *)
LEMMA PowerUnique ==
  ASSUME NEW m, NEW n \in Nat, NEW p \in Nat, n <= p, NEW f, NEW h,
         IsPower(f, m, n), IsPower(h, m, p)
  PROVE  \A i \in 0..n : f[i] = h[i]
<1> DEFINE S == {i \in Nat : i \in 0..n => f[i] = h[i]}
<1>1. f[0] = 1 % N /\ h[0] = 1 % N
  BY DEF IsPower
<1>2. 0 \in S
  BY <1>1
<1>3. ASSUME NEW i \in Nat, i \in S PROVE i + 1 \in S
  <2> SUFFICES ASSUME i + 1 \in 0..n PROVE f[i + 1] = h[i + 1]
    OBVIOUS
  <2>1. i \in 0..n /\ f[i] = h[i] /\ i + 1 \in 0..p /\ i + 1 # 0 /\ (i + 1) - 1 = i
    BY <1>3
  <2>2. f[i + 1] = (f[i] * m) % N
    BY <2>1 DEF IsPower
  <2>3. h[i + 1] = (h[i] * m) % N
    BY <2>1 DEF IsPower
  <2> QED
    BY <2>1, <2>2, <2>3
<1>4. Nat \subseteq S
  <2> HIDE DEF S
  <2> QED
    BY <1>2, <1>3, Induction
<1> QED
  BY <1>4

(* modpow is the value of the function at the exponent. *)
LEMMA PowerValue ==
  ASSUME Exchange!Numbers, NEW m \in Nat, NEW n \in Nat, NEW f, IsPower(f, m, n)
  PROVE  Exchange!modpow(m, n) = f[n]
<1> DEFINE P == CHOOSE h : IsPower(h, m, n)
<1>1. IsPower(P, m, n)
  OBVIOUS
<1>2. Exchange!modpow(m, n) = P[n]
  BY DEF Exchange!modpow, IsPower
<1> HIDE DEF P
<1> QED
  BY <1>1, <1>2, PowerUnique

(* The three facts about modpow that the rest is proved from. *)
LEMMA PowerZero ==
  ASSUME Exchange!Numbers, NEW m \in Nat
  PROVE  Exchange!modpow(m, 0) = 1 % N
<1>1. PICK f : IsPower(f, m, 0)
  BY PowerExists
<1>2. f[0] = 1 % N
  BY <1>1 DEF IsPower
<1> QED
  BY <1>1, <1>2, PowerValue

LEMMA PowerNext ==
  ASSUME Exchange!Numbers, NEW m \in Nat, NEW n \in Nat
  PROVE  Exchange!modpow(m, n + 1) = (Exchange!modpow(m, n) * m) % N
<1>1. PICK f : IsPower(f, m, n)
  BY PowerExists
<1>2. PICK h : IsPower(h, m, n + 1)
  BY PowerExists
<1>3. f[n] = h[n]
  BY <1>1, <1>2, PowerUnique
<1>4. h[n + 1] = (h[n] * m) % N
  BY <1>2 DEF IsPower
<1> QED
  BY <1>1, <1>2, <1>3, <1>4, PowerValue

LEMMA PowerType ==
  ASSUME Exchange!Numbers, NEW m \in Nat, NEW n \in Nat
  PROVE  Exchange!modpow(m, n) \in 0..N - 1 /\ Exchange!modpow(m, n) \in Nat
<1>1. PICK f \in [0..n -> 0..N - 1] : IsPower(f, m, n)
  BY PowerExists
<1>2. f[n] \in 0..N - 1 /\ f[n] \in Nat
  BY <1>1 DEF Exchange!Numbers
<1> QED
  BY <1>1, <1>2, PowerValue

(* Powers of one base multiply: m^n * m^p = m^(n + p). *)
LEMMA PowerPlus ==
  ASSUME Exchange!Numbers, NEW m \in Nat, NEW n \in Nat
  PROVE  \A p \in Nat : Exchange!modpow(m, n + p)
                          = (Exchange!modpow(m, n) * Exchange!modpow(m, p)) % N
<1> DEFINE P(e) == Exchange!modpow(m, e)
           S == {p \in Nat : P(n + p) = (P(n) * P(p)) % N}
<1>0. N \in Nat \ {0}
  BY DEF Exchange!Numbers
<1>1. \A e \in Nat : P(e) \in 0..N - 1 /\ P(e) \in Nat
  BY <1>0, PowerType
<1>2. \A e \in Nat : P(e + 1) = (P(e) * m) % N
  BY PowerNext
<1>3. P(0) = 1 % N
  BY PowerZero
<1> HIDE DEF P
<1>4. 0 \in S
  <2>1. n + 0 = n /\ P(n) \in Nat /\ P(n) * 1 = P(n) /\ 1 * P(n) = P(n)
    BY <1>1
  <2>2. ((1 % N) * P(n)) % N = (1 * P(n)) % N
    BY <1>0, <1>1, ModTimes
  <2>3. P(n) % N = P(n)
    BY <1>0, <1>1
  <2>4. P(n) * P(0) = (1 % N) * P(n)
    <3>1. 1 % N \in Nat
      BY <1>0
    <3> QED
      BY <1>3, <2>1, <3>1
  <2> QED
    BY <2>1, <2>2, <2>3, <2>4
<1>5. ASSUME NEW p \in Nat, p \in S PROVE p + 1 \in S
  <2> DEFINE y == P(n)  z == P(p)
  <2>1. P(n + p) = (y * z) % N /\ y \in Nat /\ z \in Nat
    BY <1>5, <1>1
  <2>2. n + (p + 1) = (n + p) + 1 /\ n + p \in Nat
    OBVIOUS
  <2>3. P(n + (p + 1)) = (((y * z) % N) * m) % N
    BY <1>2, <2>1, <2>2
  <2>4. P(p + 1) = (z * m) % N
    BY <1>2
  <2> HIDE DEF y, z
  <2>5. y * z \in Nat /\ z * m \in Nat
    BY <2>1
  <2>6. (((y * z) % N) * m) % N = ((y * z) * m) % N
    BY <1>0, <2>5, ModTimes
  <2>7. (((z * m) % N) * y) % N = ((z * m) * y) % N
    BY <1>0, <2>1, <2>5, ModTimes
  <2>8. (y * z) * m = (z * m) * y
    BY <2>1
  <2>9. (z * m) % N \in Nat
    BY <1>0, <2>5, ModBasics
  <2>10. y * ((z * m) % N) = ((z * m) % N) * y
    BY <2>1, <2>9
  <2>11. P(n + (p + 1)) = (y * P(p + 1)) % N
    BY <2>3, <2>4, <2>6, <2>7, <2>8, <2>10
  <2> QED
    BY <2>11 DEF y
<1>6. Nat \subseteq S
  <2> HIDE DEF S
  <2> QED
    BY <1>4, <1>5, Induction
<1>7. \A p \in Nat : P(n + p) = (P(n) * P(p)) % N
  BY <1>6
<1> QED
  BY <1>7 DEF P

(* Only the rest of the base by N matters. *)
LEMMA PowerMod ==
  ASSUME Exchange!Numbers, NEW m \in Nat
  PROVE  \A n \in Nat : Exchange!modpow(m % N, n) = Exchange!modpow(m, n)
<1> DEFINE P(e) == Exchange!modpow(m, e)
           Q(e) == Exchange!modpow(m % N, e)
           S == {n \in Nat : Q(n) = P(n)}
<1>0. N \in Nat \ {0} /\ m % N \in Nat
  BY DEF Exchange!Numbers
<1>1. \A e \in Nat : P(e) \in Nat /\ P(e + 1) = (P(e) * m) % N
  <2>1. \A e \in Nat : P(e) \in 0..N - 1
    BY PowerType
  <2>2. \A e \in Nat : P(e + 1) = (P(e) * m) % N
    BY PowerNext
  <2> QED
    BY <1>0, <2>1, <2>2
<1>2. \A e \in Nat : Q(e) \in Nat /\ Q(e + 1) = (Q(e) * (m % N)) % N
  <2> DEFINE w == m % N
  <2>0. w \in Nat
    BY <1>0
  <2> HIDE DEF w
  <2>1. \A e \in Nat : Exchange!modpow(w, e) \in 0..N - 1
    BY <2>0, PowerType
  <2>2. \A e \in Nat : Exchange!modpow(w, e + 1) = (Exchange!modpow(w, e) * w) % N
    BY <2>0, PowerNext
  <2> QED
    BY <1>0, <2>1, <2>2 DEF w
<1>3. P(0) = Q(0)
  BY <1>0, PowerZero
<1> HIDE DEF P, Q
<1>4. ASSUME NEW n \in Nat, n \in S PROVE n + 1 \in S
  <2>1. P(n) \in Nat /\ Q(n) = P(n)
    BY <1>1, <1>4
  <2>2. ((m % N) * P(n)) % N = (m * P(n)) % N
    BY <1>0, <2>1, ModTimes
  <2>3. (m % N) * P(n) = Q(n) * (m % N)
    BY <1>0, <2>1
  <2>4. m * P(n) = P(n) * m
    BY <2>1
  <2> QED
    BY <1>1, <1>2, <2>2, <2>3, <2>4
<1>5. Nat \subseteq S
  <2> HIDE DEF S
  <2>1. 0 \in S
    BY <1>3 DEF S
  <2> QED
    BY <2>1, <1>4, Induction
<1>6. \A n \in Nat : Q(n) = P(n)
  BY <1>5
<1> QED
  BY <1>6 DEF P, Q

(* A power of a power: (m^n)^p = m^(n * p). *)
LEMMA PowerPower ==
  ASSUME Exchange!Numbers, NEW m \in Nat, NEW n \in Nat
  PROVE  \A p \in Nat : Exchange!modpow(Exchange!modpow(m, n), p)
                          = Exchange!modpow(m, n * p)
<1> DEFINE y == Exchange!modpow(m, n)
           P(e) == Exchange!modpow(m, e)
           Q(e) == Exchange!modpow(y, e)
           S == {p \in Nat : Q(p) = P(n * p)}
<1>0. N \in Nat \ {0} /\ y \in Nat /\ y = P(n)
  BY PowerType DEF Exchange!Numbers
<1> HIDE DEF y
<1>1. \A e \in Nat : Q(e + 1) = (Q(e) * y) % N
  BY <1>0, PowerNext
<1>2. P(0) = Q(0)
  BY <1>0, PowerZero
<1>3. \A e \in Nat : P(e + n) = (P(e) * P(n)) % N
  BY PowerPlus
<1> HIDE DEF P, Q
<1>4. ASSUME NEW p \in Nat, p \in S PROVE p + 1 \in S
  <2>1. n * (p + 1) = n * p + n /\ n * p \in Nat
    OBVIOUS
  <2>2. P(n * (p + 1)) = (P(n * p) * P(n)) % N
    BY <1>3, <2>1
  <2> QED
    BY <1>0, <1>1, <1>4, <2>2
<1>5. Nat \subseteq S
  <2>1. 0 \in S
    <3>1. n * 0 = 0
      OBVIOUS
    <3> QED
      BY <1>2, <3>1
  <2> HIDE DEF S
  <2> QED
    BY <1>4, <2>1, Induction
<1>6. \A p \in Nat : Q(p) = P(n * p)
  BY <1>5
<1> QED
  BY <1>6 DEF P, Q, y

(* What the values exchanged are: each as the code computes it, from the    *)
(* step on that does.                                                       *)
Exchanged ==
  /\ stage \in {"challenge", "proof", "done"} =>
       server_public = (k * verifier + Exchange!modpow(g, b)) % N
  /\ stage \in {"proof", "done"} =>
       shared = Exchange!modpow(Exchange!base, private + u * x)
  /\ stage = "done" =>
       server_shared = Exchange!modpow(Exchange!a_pub * Exchange!modpow(verifier, u), b)

SrpInv == Exchange!TypeOK /\ Exchanged

(* The values drawn are natural numbers. *)
LEMMA DrawnNat ==
  ASSUME Exchange!Numbers, Exchange!TypeOK
  PROVE  /\ N \in Nat \ {0} /\ g \in Nat
         /\ private \in Nat /\ b \in Nat /\ x \in Nat /\ k \in Nat /\ u \in Nat
         /\ verifier \in Nat /\ verifier \in 0..N - 1
         /\ server_public \in Nat /\ server_public \in 0..N - 1
<1> USE DEF Exchange!Numbers
<1>1. N \in Nat \ {0} /\ g \in Nat
  OBVIOUS
<1>2. private \in Nat /\ b \in Nat
  BY DEF Exchange!TypeOK
<1>3. x \in Nat /\ k \in Nat /\ u \in Nat
  BY DEF Exchange!TypeOK
<1>4. verifier \in 0..N - 1 /\ server_public \in 0..N - 1
  BY DEF Exchange!TypeOK
<1> QED
  BY <1>1, <1>2, <1>3, <1>4

(* The subtraction that computes the base never goes below zero. *)
LEMMA DifferenceNat ==
  ASSUME Exchange!Numbers, NEW y \in Nat, NEW z \in Nat, NEW w \in Nat
  PROVE  y + N - ((z * w) % N) \in Nat
<1>1. z * w \in Nat /\ N \in Nat \ {0}
  BY DEF Exchange!Numbers
<1>2. (z * w) % N \in 0..N - 1
  BY <1>1, ModBasics
<1> QED
  BY <1>1, <1>2

(* Nothing is computed yet. *)
LEMMA SrpInit == ASSUME Exchange!Numbers, Exchange!Init PROVE SrpInv
<1>1. N \in Nat \ {0} /\ g \in Nat /\ k \in Nat /\ x \in Nat
  BY DEF Exchange!Numbers, Exchange!Init
<1>2. verifier \in 0..N - 1
  <2>1. PICK set \in Hashes : verifier = Exchange!modpow(g, set)
    BY DEF Exchange!Init
  <2> QED
    BY <2>1, <1>1, PowerType DEF Exchange!Numbers
<1>3. Exchange!modpow(g, x) \in Nat
  BY <1>1, PowerType
<1>4. Exchange!difference \in Nat
  BY <1>1, <1>3, DifferenceNat DEF Exchange!Init, Exchange!difference
<1> QED
  BY <1>1, <1>2, <1>4 DEF Exchange!Init, SrpInv, Exchanged, Exchange!TypeOK

(* Each step computes one value, below N, and changes none it is made from. *)
LEMMA SrpStep ==
  ASSUME Exchange!Numbers, SrpInv, [Exchange!Next]_(Exchange!vars) PROVE SrpInv'
<1> USE DEF SrpInv
<1>1. /\ N \in Nat \ {0} /\ g \in Nat
      /\ private \in Nat /\ b \in Nat /\ x \in Nat /\ k \in Nat /\ u \in Nat
      /\ verifier \in Nat
  BY DrawnNat
<1>2. Exchange!modpow(g, x) \in Nat /\ Exchange!modpow(g, b) \in Nat
      /\ Exchange!modpow(g, private) \in Nat /\ Exchange!modpow(verifier, u) \in Nat
  BY <1>1, PowerType
<1>3. CASE Exchange!Challenge
  <2>1. k * verifier + Exchange!modpow(g, b) \in Nat
    BY <1>1, <1>2
  <2>2. server_public' \in 0..N - 1
    BY <1>1, <1>3, <2>1, ModBasics DEF Exchange!Challenge
  <2>3. Exchange!difference' \in Nat
    BY <1>1, <1>2, <1>3, <2>2, DifferenceNat DEF Exchange!Challenge, Exchange!difference
  <2>4. Exchange!TypeOK'
    BY <1>3, <2>2, <2>3 DEF Exchange!Challenge, Exchange!TypeOK
  <2> QED
    BY <1>3, <2>4 DEF Exchange!Challenge, Exchanged
<1>4. CASE Exchange!make_proof
  <2>1. UNCHANGED <<private, x, verifier, b, server_public, k, u, server_shared>>
    BY <1>4 DEF Exchange!make_proof
  <2>2. Exchange!difference' = Exchange!difference
    BY <2>1 DEF Exchange!difference
  <2>3. Exchange!base' = Exchange!base
    BY <2>2 DEF Exchange!base
  <2>4. Exchange!base \in Nat
    BY <1>1, ModBasics DEF Exchange!base, Exchange!TypeOK
  <2>5. private + u * x \in Nat
    BY <1>1
  <2>6. Exchange!modpow(Exchange!base, private + u * x) \in 0..N - 1
    BY <2>4, <2>5, PowerType
  <2>7. \/ stage' = "refused" /\ shared' = shared
        \/ /\ stage' = "proof"
           /\ shared' = Exchange!modpow(Exchange!base, private + u * x)
    BY <1>4 DEF Exchange!make_proof
  <2>8. shared' \in 0..N - 1 /\ stage' \in {"refused", "proof"} /\ stage = "challenge"
    BY <1>4, <2>6, <2>7 DEF Exchange!TypeOK, Exchange!make_proof
  <2>9. Exchange!TypeOK'
    BY <2>1, <2>2, <2>8 DEF Exchange!TypeOK
  <2> QED
    BY <2>1, <2>3, <2>7, <2>8, <2>9 DEF Exchanged
<1>5. CASE Exchange!Verify
  <2>1. UNCHANGED <<private, x, verifier, b, server_public, k, u, shared>>
    BY <1>5 DEF Exchange!Verify
  <2>2. Exchange!difference' = Exchange!difference
    BY <2>1 DEF Exchange!difference
  <2>3. Exchange!base' = Exchange!base /\ Exchange!a_pub' = Exchange!a_pub
    BY <2>1, <2>2 DEF Exchange!base, Exchange!a_pub
  <2>4. Exchange!a_pub * Exchange!modpow(verifier, u) \in Nat
    BY <1>2 DEF Exchange!a_pub
  <2>5. Exchange!modpow(Exchange!a_pub * Exchange!modpow(verifier, u), b) \in 0..N - 1
    BY <1>1, <2>4, PowerType
  <2>6. /\ stage = "proof" /\ stage' = "done"
        /\ server_shared' = Exchange!modpow(Exchange!a_pub * Exchange!modpow(verifier, u), b)
    BY <1>5 DEF Exchange!Verify
  <2>7. Exchange!TypeOK'
    BY <2>1, <2>2, <2>5, <2>6 DEF Exchange!TypeOK
  <2> QED
    BY <2>1, <2>3, <2>6, <2>7 DEF Exchanged
<1>6. CASE UNCHANGED Exchange!vars
  <2>1. Exchange!difference' = Exchange!difference
    BY <1>6 DEF Exchange!vars, Exchange!difference
  <2>2. Exchange!base' = Exchange!base /\ Exchange!a_pub' = Exchange!a_pub
    BY <1>6, <2>1 DEF Exchange!vars, Exchange!base, Exchange!a_pub
  <2> QED
    BY <1>6, <2>1, <2>2 DEF Exchange!vars, Exchange!TypeOK, Exchanged
<1> QED
  BY <1>3, <1>4, <1>5, <1>6 DEF Exchange!Next, Exchange!Finished

(* Taking k times the verifier away leaves g ^ b, if the server has put in  *)
(* what the client takes away.                                              *)
LEMMA BaseIsPower ==
  ASSUME NEW M \in Nat \ {0}, NEW c \in Nat, NEW G \in 0..M - 1
  PROVE  (((c + G) % M) + M - (c % M)) % M = G
<1> DEFINE q == c \div M  r == c % M
<1>1. q \in Nat /\ r \in 0..M - 1 /\ r \in Nat /\ c = M * q + r
  BY ModBasics
<1> HIDE DEF q
<1>2. c % M = r
  OBVIOUS
<1> HIDE DEF r
<1>3. c + G = (r + G) + M * q
  BY <1>1
<1>4. r + G \in Nat
  BY <1>1
<1>5. (c + G) % M = (r + G) % M
  <2>1. ((r + G) + M * q) % M = (r + G) % M
    BY <1>1, <1>4, ModPlus
  <2> QED
    BY <1>3, <2>1
<1>6. G % M = G /\ (G + M) % M = G
  <2>1. M * 0 + G = G /\ M * 1 + G = G + M
    OBVIOUS
  <2>2. (M * 0 + G) % M = G /\ (M * 1 + G) % M = G
    BY ModUnique
  <2> QED
    BY <2>1, <2>2
<1>7. CASE r + G < M
  <2>1. M * 0 + (r + G) = r + G /\ r + G \in 0..M - 1
    BY <1>1, <1>4, <1>7
  <2>2. (M * 0 + (r + G)) % M = r + G
    BY <2>1, ModUnique
  <2>3. (r + G) % M = r + G
    BY <2>1, <2>2
  <2>4. ((c + G) % M) + M - (c % M) = G + M
    BY <1>1, <1>2, <1>5, <2>3
  <2> QED
    BY <1>6, <2>4
<1>8. CASE r + G >= M
  <2>1. M * 1 + (r + G - M) = r + G /\ r + G - M \in 0..M - 1
    BY <1>1, <1>4, <1>8
  <2>2. (M * 1 + (r + G - M)) % M = r + G - M
    BY <2>1, ModUnique
  <2>3. (r + G) % M = r + G - M
    BY <2>1, <2>2
  <2>4. ((c + G) % M) + M - (c % M) = G
    BY <1>1, <1>2, <1>5, <2>3
  <2> QED
    BY <1>6, <2>4
<1> QED
  BY <1>4, <1>7, <1>8

(* Both sides come to g ^ (b * (a + u * x)). *)
LEMMA SecretsAgree ==
  ASSUME Exchange!Numbers, SrpInv, stage = "done", verifier = Exchange!modpow(g, x)
  PROVE  shared = server_shared
<1>1. /\ N \in Nat \ {0} /\ g \in Nat
      /\ private \in Nat /\ b \in Nat /\ x \in Nat /\ k \in Nat /\ u \in Nat
      /\ verifier \in Nat
  BY DrawnNat DEF SrpInv
<1> DEFINE P(e) == Exchange!modpow(g, e)
           e == private + u * x
<1>2. e \in Nat /\ u * x \in Nat /\ x * u \in Nat /\ x * u = u * x
  BY <1>1
<1>3. Exchange!base = P(b)
  <2>1. P(b) \in 0..N - 1 /\ k * verifier \in Nat
    <3>1. P(b) \in 0..N - 1
      BY <1>1, PowerType
    <3> HIDE DEF P
    <3> QED
      BY <1>1, <3>1
  <2>2. (((k * verifier + P(b)) % N) + N - ((k * verifier) % N)) % N = P(b)
    BY <1>1, <2>1, BaseIsPower
  <2>3. server_public = (k * verifier + P(b)) % N
    BY DEF SrpInv, Exchanged
  <2>4. Exchange!base = (server_public + N - ((k * verifier) % N)) % N
    BY DEF Exchange!base, Exchange!difference
  <2> QED
    BY <2>2, <2>3, <2>4
<1>4. shared = Exchange!modpow(P(b), e)
  BY <1>3 DEF SrpInv, Exchanged
<1>5. Exchange!modpow(P(b), e) = P(b * e)
  BY <1>1, <1>2, PowerPower
<1>6. Exchange!modpow(verifier, u) = P(u * x)
  BY <1>1, <1>2, PowerPower
<1>7. server_shared = Exchange!modpow(P(private) * P(u * x), b)
  BY <1>6 DEF SrpInv, Exchanged, Exchange!a_pub
<1>8. P(private) * P(u * x) \in Nat
  <2>1. P(private) \in Nat /\ P(u * x) \in Nat
    BY <1>1, <1>2, PowerType
  <2> HIDE DEF P
  <2> QED
    BY <2>1
<1>9. P(e) = (P(private) * P(u * x)) % N
  BY <1>1, <1>2, PowerPlus
<1>10. Exchange!modpow(P(private) * P(u * x), b) = Exchange!modpow(P(e), b)
  <2> DEFINE w == P(private) * P(u * x)
  <2>1. w \in Nat /\ P(e) = w % N
    BY <1>8, <1>9
  <2> HIDE DEF w
  <2>2. Exchange!modpow(w % N, b) = Exchange!modpow(w, b)
    BY <1>1, <2>1, PowerMod
  <2>3. Exchange!modpow(w, b) = Exchange!modpow(P(e), b)
    BY <2>1, <2>2
  <2> QED
    BY <2>3 DEF w
<1>11. Exchange!modpow(P(e), b) = P(e * b)
  BY <1>1, <1>2, PowerPower
<1>12. e * b = b * e
  BY <1>1, <1>2
<1> QED
  BY <1>4, <1>5, <1>7, <1>10, <1>11, <1>12

(* The exchange keeps its values, always. *)
LEMMA SrpAlways == Exchange!Spec => []SrpInv
<1>1. Exchange!Numbers
  BY PartsAssumption
<1>2. Exchange!Init => SrpInv
  BY <1>1, SrpInit
<1>3. SrpInv /\ [Exchange!Next]_(Exchange!vars) => SrpInv'
  BY <1>1, SrpStep
<1> QED
  BY <1>2, <1>3, PTL DEF Exchange!Spec

(* Who types the password that was set is let in, in a group of any size,   *)
(* whatever exponents and hashes the exchange draws: both sides come to one *)
(* secret.                                                                  *)
THEOREM RightPasswordIsLetIn == Exchange!Spec => []RightPasswordAgrees
<1>1. SrpInv => RightPasswordAgrees
  BY PartsAssumption, SecretsAgree DEF RightPasswordAgrees, Exchange!RightPasswordAgrees
<1> QED
  BY <1>1, SrpAlways, PTL

(* The types of Srp: no subtraction goes below zero, which would end the    *)
(* program.                                                                 *)
THEOREM ExchangeTyped == Exchange!Spec => []Exchange!TypeOK
<1>1. SrpInv => Exchange!TypeOK
  BY DEF SrpInv
<1> QED
  BY <1>1, SrpAlways, PTL

-----------------------------------------------------------------------------
(* All four together. *)

(* In the sum, each part runs as it would alone: what is proved of a part   *)
(* holds wherever TLC checks it.                                            *)
THEOREM ClientPartsRun == ClientSpec => Spec /\ Creds!Spec /\ Paging!Spec /\ Exchange!Spec
<1>1. ClientInit => Init /\ Creds!Init /\ Paging!Init /\ Exchange!Init
  BY DEF ClientInit
<1> USE DEF ClientNext, AuthPart, SecretsPart, PagingPart, SrpPart, allVars
<1>2. [ClientNext]_allVars => [Next]_vars
  BY DEF Next
<1>3. [ClientNext]_allVars => [Creds!Next]_(Creds!vars)
  BY DEF credsVars, Creds!vars, Creds!vault
<1>4. [ClientNext]_allVars => [Paging!Next]_(Paging!vars)
  BY DEF pagingVars, Paging!vars, Paging!zone
<1>5. [ClientNext]_allVars => [Exchange!Next]_(Exchange!vars)
  BY DEF exchangeVars, Exchange!vars
<1> QED
  BY <1>1, <1>2, <1>3, <1>4, <1>5, PTL
     DEF ClientSpec, Spec, Creds!Spec, Paging!Spec, Exchange!Spec

(* Whichever part is exercised, for as long as it may be, all four keep to  *)
(* their types.  So no manifest names more chunks than may be read          *)
(* (secrets.rs, MAX_SESSION_CHUNKS), and the restore at start-up has tries  *)
(* left to count (server.rs, start).                                        *)
THEOREM ClientTyped == ClientSpec => []TypesOK
<1>1. TypeOK /\ Creds!TypeOK /\ Paging!TypeOK /\ Exchange!TypeOK => TypesOK
  BY DEF TypesOK
<1> QED
  BY <1>1, ClientPartsRun, SessionIsTyped, SecretsTyped, PagingTyped, ExchangeTyped, PTL
=============================================================================
