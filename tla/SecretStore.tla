---------------------------- MODULE SecretStore ----------------------------
(***************************************************************************)
(* secrets.rs: one session kept in several entries of Windows Credential   *)
(* Manager.  An entry is too small for a session, so a session is cut into *)
(* chunks, which are kept in one of two slots; a manifest names the slot   *)
(* and how many chunks there are.                                          *)
(*                                                                         *)
(* Every access to an entry is a call of the system of its own: each is an *)
(* action, may fail, and the process may die before the next.  The client  *)
(* is locked for a whole operation, so there is one operation at a time.   *)
(***************************************************************************)
EXTENDS Naturals

CONSTANTS
  Sessions,   \* serialised sessions
  Size,       \* how many chunks session_chunks cuts each into
  MaxChunks,  \* MAX_SESSION_CHUNKS
  None,       \* no session
  Broken      \* what a reader would find of a session that is not whole

(* What is assumed of the constants. *)
Bounds ==
  /\ Size \in [Sessions -> Nat \ {0}] /\ MaxChunks \in Nat
  /\ None \notin Sessions /\ Broken \notin Sessions /\ None # Broken

Slots == {"a", "b"}
Indexes == 0..(MaxChunks - 1)

NoChunk == [of |-> None, index |-> 0]
Chunk == {NoChunk} \cup [of : Sessions, index : Nat]
(* A direct entry holds the session itself, as earlier versions saved it. *)
Manifest == [kind : {"none", "direct", "chunks"}, of : Sessions \cup {None},
             slot : Slots, count : 0..MaxChunks]
NoManifest == [kind |-> "none", of |-> None, slot |-> "a", count |-> 0]
Direct(s) == [kind |-> "direct", of |-> s, slot |-> "a", count |-> 0]
Named(p, n) == [kind |-> "chunks", of |-> None, slot |-> p, count |-> n]

VARIABLES
  manifest,   \* the entry SESSION_SERVICE
  chunk,      \* the entries SESSION_CHUNK_SERVICE.slot.index
  pc,         \* the operation under way, and where it is
  saving,     \* the session being saved
  slot,       \* the slot being written or wiped
  index,      \* the next chunk to write, to clean up or to wipe
  previous,   \* the manifest as it was found
  disturbed   \* history: a removal has failed or a removal was cut short

vault == <<manifest, chunk>>
vars  == <<vault, pc, saving, slot, index, previous, disturbed>>

TypeOK ==
  /\ manifest \in Manifest /\ chunk \in [Slots -> [Indexes -> Chunk]]
  /\ pc \in {"idle", "write", "cleanup", "wipe"}
  /\ saving \in Sessions \cup {None} /\ slot \in Slots /\ index \in Nat
  /\ previous \in Manifest /\ disturbed \in BOOLEAN

Idle == pc' = "idle" /\ saving' = None /\ slot' = "a" /\ index' = 0
        /\ previous' = NoManifest

Init ==
  /\ manifest \in {NoManifest} \cup {Direct(s) : s \in Sessions}
  /\ chunk = [p \in Slots |-> [i \in Indexes |-> NoChunk]]
  /\ pc = "idle" /\ saving = None /\ slot = "a" /\ index = 0
  /\ previous = NoManifest /\ disturbed = FALSE

-----------------------------------------------------------------------------
(* What session() answers. *)
Whole(m, s) ==
  /\ Size[s] = m.count
  /\ \A i \in 0..(m.count - 1) : chunk[m.slot][i] = [of |-> s, index |-> i]

session ==
  IF manifest.kind = "none" THEN None
  ELSE IF manifest.kind = "direct" THEN manifest.of
  ELSE LET s == chunk[manifest.slot][0].of IN
       IF s \in Sessions /\ Whole(manifest, s) THEN s ELSE Broken

(* Mutant of OtherSlot: always the first slot. *)
SameSlot(m) == "a"

(* The slot a new session is written to: not the one in use. *)
OtherSlot(m) == IF m.kind = "chunks" /\ m.slot = "a" THEN "b" ELSE "a"

-----------------------------------------------------------------------------
(* set_session *)

(* Mutant of SetSession: nothing is too large. *)
SetAnySession(s) ==
  /\ pc = "idle"
  /\ pc' = "write" /\ saving' = s /\ index' = 0
  /\ previous' = manifest /\ slot' = OtherSlot(manifest)
  /\ UNCHANGED <<vault, disturbed>>

SetSession(s) ==
  /\ pc = "idle" /\ Size[s] <= MaxChunks
  /\ pc' = "write" /\ saving' = s /\ index' = 0
  /\ previous' = manifest /\ slot' = OtherSlot(manifest)
  /\ UNCHANGED <<vault, disturbed>>

WriteChunk ==
  /\ pc = "write" /\ index < Size[saving]
  /\ chunk' = [chunk EXCEPT ![slot][index] = [of |-> saving, index |-> index]]
  /\ index' = index + 1
  /\ UNCHANGED <<manifest, pc, saving, slot, previous, disturbed>>

WriteManifest ==
  /\ pc = "write" /\ index = Size[saving]
  /\ manifest' = Named(slot, Size[saving])
  /\ pc' = "cleanup" /\ index' = 0
  /\ UNCHANGED <<chunk, saving, slot, previous, disturbed>>

(* A failed write is returned as an error at once. *)
WriteFails ==
  /\ pc = "write" /\ Idle
  /\ UNCHANGED <<vault, disturbed>>

(* The chunks of the previous session are removed; that one of them could   *)
(* not be is ignored.                                                       *)
DeleteOld(done) ==
  /\ pc = "cleanup" /\ previous.kind = "chunks" /\ index < previous.count
  /\ chunk' = IF done THEN [chunk EXCEPT ![previous.slot][index] = NoChunk] ELSE chunk
  /\ disturbed' = (disturbed \/ ~done)
  /\ index' = index + 1
  /\ UNCHANGED <<manifest, pc, saving, slot, previous>>

SetDone ==
  /\ pc = "cleanup"
  /\ previous.kind = "chunks" => index = previous.count
  /\ Idle
  /\ UNCHANGED <<vault, disturbed>>

-----------------------------------------------------------------------------
(* delete_session *)

DeleteSession ==
  /\ pc = "idle"
  /\ manifest' = NoManifest
  /\ pc' = "wipe" /\ slot' = "a" /\ index' = 0
  /\ UNCHANGED <<chunk, saving, previous, disturbed>>

WipeChunk ==
  /\ pc = "wipe" /\ index < MaxChunks /\ chunk[slot][index] # NoChunk
  /\ chunk' = [chunk EXCEPT ![slot][index] = NoChunk]
  /\ index' = index + 1
  /\ UNCHANGED <<manifest, pc, saving, slot, previous, disturbed>>

(* The first entry that is missing ends the slot. *)
SlotWiped == pc = "wipe" /\ (index < MaxChunks => chunk[slot][index] = NoChunk)

NextSlot ==
  /\ SlotWiped /\ slot = "a" /\ slot' = "b" /\ index' = 0
  /\ UNCHANGED <<vault, pc, saving, previous, disturbed>>

DeleteDone ==
  /\ SlotWiped /\ slot = "b" /\ Idle
  /\ UNCHANGED <<vault, disturbed>>

(* A failed removal is returned as an error at once. *)
WipeFails ==
  /\ pc = "wipe" /\ Idle /\ disturbed' = TRUE
  /\ UNCHANGED vault

Crash ==
  /\ pc # "idle" /\ Idle
  /\ disturbed' = (disturbed \/ pc \in {"cleanup", "wipe"})
  /\ UNCHANGED vault

Next ==
  \/ \E s \in Sessions : SetSession(s)
  \/ WriteChunk \/ WriteManifest \/ WriteFails
  \/ \E done \in BOOLEAN : DeleteOld(done)
  \/ SetDone
  \/ DeleteSession \/ WipeChunk \/ NextSlot \/ DeleteDone \/ WipeFails
  \/ Crash

Spec == Init /\ [][Next]_vars

-----------------------------------------------------------------------------
(* Properties. *)

(* Through failed writes and deaths of the process, a reader finds the last *)
(* session saved whole, or the one before it, or none after a removal.      *)
Store == INSTANCE SessionStore WITH stored <- session
Implements == Store!Spec
=============================================================================
