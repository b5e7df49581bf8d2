---------------------------- MODULE MCSyncLive ----------------------------
(***************************************************************************)
(* What must happen in the end, for the scheduling of passes, the passes   *)
(* of the C# engine and those of the Rust backend, in one run of TLC.      *)
(*                                                                         *)
(* A behaviour exercises one of the three, chosen at the start; the others *)
(* rest in an initial state of theirs.  The two kinds of passes share the  *)
(* variables of the same name, which then belong to the one exercised.     *)
(* What is explored is the sum of the three state spaces and never their   *)
(* product.                                                                *)
(***************************************************************************)
EXTENDS SyncTickets

CONSTANTS
  Records, LocalIds, First, NoId, MaxEdits,                \* both passes
  MaxOthers, MaxListEdits, MaxEvents,                      \* C#
  Calls, MaxErases, RustRecords                            \* Rust

VARIABLES
  part,                                                    \* the part exercised
  rows, queue, conflicts, cursor, cloud, clock, place, reply, local, victim, next,
  edits, others, erases, failures, minted, wish, uploaded, \* both passes
  lists, cloudLists, inbox, listsChanged, listEdits,       \* C#
  protocol, full, updated, deleted, call, crashes          \* Rust

(* A refused write carries the current record; nothing is removed for good. *)
CSharp == INSTANCE SyncCore WITH
  RaceReplies <- {"record"}, ListsInDelta <- TRUE,
  MaxErases <- 0, outbox <- queue, pc <- place, faults <- failures

(* Records are removed for good; nobody else writes and nothing fails. *)
Rust == INSTANCE SidecarSync WITH
  Records <- RustRecords, MaxOthers <- 0, MaxWrites <- MaxErases, MaxMishaps <- 0,
  outbox <- queue, pc <- place, faults <- failures

shared     == <<rows, queue, conflicts, cursor, cloud, clock, place, reply, local, victim,
                next, edits, others, erases, failures, minted, wish, uploaded>>
csharpOnly == <<lists, cloudLists, inbox, listsChanged, listEdits>>
rustOnly   == <<protocol, full, updated, deleted, call, crashes>>
csharpVars == <<shared, csharpOnly>>
rustVars   == <<shared, rustOnly>>
allVars    == <<part, vars, shared, csharpOnly, rustOnly>>

LiveInit ==
  /\ part \in {"tickets", "csharp", "rust"}
  /\ Init
  /\ \/ /\ part = "rust" /\ Rust!Init
        /\ lists = 0 /\ cloudLists = 0 /\ inbox = {} /\ listsChanged = FALSE
        /\ listEdits = 0
     \/ /\ part # "rust" /\ CSharp!Init
        /\ part = "tickets" => cursor = 0
        /\ protocol = FALSE /\ full = FALSE /\ updated = {} /\ deleted = {} /\ crashes = 0
        /\ call = [c \in Calls |-> Rust!NoCall]

TicketsPart == part = "tickets" /\ Next /\ UNCHANGED <<part, shared, csharpOnly, rustOnly>>
CSharpPart  == part = "csharp" /\ CSharp!Next /\ UNCHANGED <<part, vars, rustOnly>>
RustPart    == part = "rust" /\ Rust!Next /\ UNCHANGED <<part, vars, csharpOnly>>

LiveNext == TicketsPart \/ CSharpPart \/ RustPart

(* The fairness of each module, for its part. *)
LiveSpec ==
  /\ LiveInit /\ [][LiveNext]_allVars
  /\ \A c \in Callers : WF_vars(part = "tickets" /\ Step(c))
  /\ WF_csharpVars(part = "csharp" /\ CSharp!EngineStep)
  /\ WF_rustVars(part = "rust" /\ Rust!EngineStep)
  /\ WF_rustVars(part = "rust" /\ Rust!CallStep)

-----------------------------------------------------------------------------
(* Properties of the parts, stated there. *)

(* Every queued edit leaves the outbox, and cache and account come to       *)
(* agree: SyncEngine.Push and Pull.                                         *)
Converges == <>[](part = "csharp" => CSharp!Synced)

(* Every queued edit leaves the outbox, or an entry that iCloud can never   *)
(* take has got to its head: sync.rs, push_outbox.                          *)
DrainsOrStrands ==
  part = "rust" /\ queue # <<>> ~> (queue = <<>> \/ Rust!Stranded)
=============================================================================
