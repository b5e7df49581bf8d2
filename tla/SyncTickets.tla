---------------------------- MODULE SyncTickets ----------------------------
(***************************************************************************)
(* How SyncEngine.Sync coalesces concurrent requests into passes.          *)
(*                                                                         *)
(* Every local edit, the periodic timer, sign-in and the user's "Sync now" *)
(* call Sync.  A call draws a ticket, waits for the one semaphore and then *)
(* either finds that a pass begun after its ticket has already finished    *)
(* (coalesced) or runs passes itself until no request is newer than the    *)
(* pass and the outbox is empty.  A request for a full pass is one shared  *)
(* flag, taken by whichever pass comes next and put back when it fails.    *)
(*                                                                         *)
(* A pass is seen here from outside: it drains part of the outbox, pulls,  *)
(* and succeeds or throws.  Module SyncCore opens it up.                   *)
(***************************************************************************)
EXTENDS Integers

CONSTANTS
  Callers,      \* tasks that may be inside Sync at the same time
  Nobody,       \* the semaphore's value when it is free
  Batch,        \* outbox entries one pass uploads (100 in the code)
  MaxRequests,  \* bound: tickets after which no new call starts
  MaxFaults     \* bound: passes that throw and waits that are cancelled

ASSUME NobodyAssumption == Nobody \notin Callers
ASSUME BatchAssumption == Batch \in Nat \ {0}
ASSUME BoundsAssumption == MaxRequests \in Nat /\ MaxFaults \in Nat

VARIABLES
  requested,      \* the last ticket drawn
  completed,      \* every ticket up to this one has been served
  fullRequested,  \* some request asked for a full pass
  serial,         \* the caller holding the semaphore
  pc,             \* where each caller is in Sync
  ticket,         \* each caller's ticket
  generation,     \* the newest ticket the running pass serves
  force,          \* the running pass took the full flag
  outbox,         \* the number of queued edits
  faults,         \* faults so far
  (* History, read by no action. *)
  covered,        \* callers for whom a pass begun after their ticket succeeded
  aboard,         \* callers whose ticket was drawn when the running pass began
  owed,           \* callers whose full request no finished pass has met
  taken           \* those of them whose request the running pass has taken

engine  == <<requested, completed, fullRequested, serial, pc, ticket,
             generation, force, outbox, faults>>
history == <<covered, aboard, owed, taken>>
vars    == <<engine, history>>

(* Places in Sync at which the caller is inside the semaphore. *)
Passing == {"force", "push", "pull", "complete"}
Looping == {"begin"} \cup Passing \cup {"again", "drain"}
Holding == {"check"} \cup Looping \cup {"return", "throw"}
Drawn   == {"wait"} \cup Holding
Places  == {"idle", "ticket"} \cup Drawn

(* Nothing counts a ticket that has not been drawn. *)
TypeOK ==
  /\ requested \in Nat
  /\ completed \in 0..requested /\ generation \in 0..requested
  /\ fullRequested \in BOOLEAN /\ force \in BOOLEAN
  /\ serial \in Callers \cup {Nobody}
  /\ pc \in [Callers -> Places]
  /\ ticket \in [Callers -> 0..requested]
  /\ outbox \in Nat /\ faults \in Nat
  /\ covered \subseteq Callers /\ aboard \subseteq Callers
  /\ owed \subseteq Callers /\ taken \subseteq Callers

Init ==
  /\ requested = 0 /\ completed = 0 /\ generation = 0
  /\ fullRequested = FALSE /\ force = FALSE
  /\ serial = Nobody
  /\ pc = [c \in Callers |-> "idle"]
  /\ ticket = [c \in Callers |-> 0]
  /\ outbox = 0 /\ faults = 0
  /\ covered = {} /\ aboard = {} /\ owed = {} /\ taken = {}

Goto(c, from, to) == pc[c] = from /\ pc' = [pc EXCEPT ![c] = to]

-----------------------------------------------------------------------------
(* Entering Sync. *)

(* Sync(full) is called; a full request raises the shared flag first. *)
Request(c, full) ==
  /\ requested < MaxRequests
  /\ Goto(c, "idle", "ticket")
  /\ fullRequested' = (fullRequested \/ full)
  /\ covered' = covered \ {c}
  /\ aboard' = aboard \ {c}
  /\ owed' = IF full THEN owed \cup {c} ELSE owed
  /\ taken' = IF full THEN taken \ {c} ELSE taken
  /\ UNCHANGED <<requested, completed, serial, ticket, generation, force, faults>>

(* A call for its own sake: the timer, sign-in, "Sync now". *)
Ask(c, full) == Request(c, full) /\ UNCHANGED outbox

(* A local edit: its transaction puts an entry in the outbox, then queues a Sync. *)
Edit(c) == Request(c, FALSE) /\ outbox' = outbox + 1

Draw(c) ==
  /\ Goto(c, "ticket", "wait")
  /\ requested' = requested + 1
  /\ ticket' = [ticket EXCEPT ![c] = requested + 1]
  /\ UNCHANGED <<completed, fullRequested, serial, generation, force, outbox,
                 faults, history>>

Enter(c) ==
  /\ serial = Nobody
  /\ Goto(c, "wait", "check")
  /\ serial' = c
  /\ UNCHANGED <<requested, completed, fullRequested, ticket, generation,
                 force, outbox, faults, history>>

(* The token is cancelled while the caller waits for the semaphore. *)
CancelWait(c) ==
  /\ faults < MaxFaults
  /\ Goto(c, "wait", "idle")
  /\ faults' = faults + 1
  /\ UNCHANGED <<requested, completed, fullRequested, serial, ticket,
                 generation, force, outbox, history>>

(* completed >= ticket: a pass that began after the ticket has finished. *)
Check(c) ==
  /\ Goto(c, "check", IF completed >= ticket[c] THEN "return" ELSE "begin")
  /\ UNCHANGED <<requested, completed, fullRequested, serial, ticket,
                 generation, force, outbox, faults, history>>

-----------------------------------------------------------------------------
(* One pass. *)

ReadGeneration(c) ==
  /\ Goto(c, "begin", "force")
  /\ generation' = requested
  /\ aboard' = {d \in Callers : pc[d] \in Drawn}
  /\ UNCHANGED <<requested, completed, fullRequested, serial, ticket, force,
                 outbox, faults, covered, owed, taken>>

TakeForce(c) ==
  /\ Goto(c, "force", "push")
  /\ force' = fullRequested
  /\ fullRequested' = FALSE
  /\ taken' = IF fullRequested THEN owed ELSE {}
  /\ UNCHANGED <<requested, completed, serial, ticket, generation, outbox,
                 faults, covered, aboard, owed>>

(* Up to Batch entries leave the outbox. *)
Push(c) ==
  /\ Goto(c, "push", "pull")
  /\ outbox' = IF outbox > Batch THEN outbox - Batch ELSE 0
  /\ UNCHANGED <<requested, completed, fullRequested, serial, ticket,
                 generation, force, faults, history>>

(* A pull that was not forced may still be full: the cursor may be missing. *)
Pull(c) ==
  /\ Goto(c, "pull", "complete")
  /\ UNCHANGED <<requested, completed, fullRequested, serial, ticket,
                 generation, force, outbox, faults, history>>

(* Mutant of Complete: counts the passes, though one may serve no new ticket. *)
CompleteCounts(c) ==
  /\ Goto(c, "complete", "again")
  /\ completed' = completed + 1
  /\ covered' = covered \cup aboard
  /\ owed' = owed \ taken
  /\ taken' = {}
  /\ UNCHANGED <<requested, fullRequested, serial, ticket, generation, force,
                 outbox, faults, aboard>>

(* Mutant of Complete: serves the requests that came during the pass too. *)
CompleteNewest(c) ==
  /\ Goto(c, "complete", "again")
  /\ completed' = requested
  /\ covered' = covered \cup aboard
  /\ owed' = owed \ taken
  /\ taken' = {}
  /\ UNCHANGED <<requested, fullRequested, serial, ticket, generation, force,
                 outbox, faults, aboard>>

Complete(c) ==
  /\ Goto(c, "complete", "again")
  /\ completed' = generation
  /\ covered' = covered \cup aboard
  /\ owed' = owed \ taken
  /\ taken' = {}
  /\ UNCHANGED <<requested, fullRequested, serial, ticket, generation, force,
                 outbox, faults, aboard>>

(* Mutant of Fail: the full flag is not put back. *)
FailForgetsFull(c) ==
  /\ faults < MaxFaults
  /\ pc[c] \in {"push", "pull"}
  /\ pc' = [pc EXCEPT ![c] = "throw"]
  /\ taken' = {}
  /\ faults' = faults + 1
  /\ UNCHANGED <<requested, completed, fullRequested, serial, ticket, generation,
                 force, outbox, covered, aboard, owed>>

(* Any exception in the push or the pull: lost network, the ten minutes' limit. *)
Fail(c) ==
  /\ faults < MaxFaults
  /\ pc[c] \in {"push", "pull"}
  /\ pc' = [pc EXCEPT ![c] = "throw"]
  /\ fullRequested' = (fullRequested \/ force)
  /\ taken' = {}
  /\ faults' = faults + 1
  /\ UNCHANGED <<requested, completed, serial, ticket, generation, force,
                 outbox, covered, aboard, owed>>

-----------------------------------------------------------------------------
(* After a pass: another one, or out. *)

Again(c) ==
  /\ Goto(c, "again", IF requested = generation THEN "drain" ELSE "begin")
  /\ UNCHANGED <<requested, completed, fullRequested, serial, ticket,
                 generation, force, outbox, faults, history>>

(* Mutant of Drain: returns without a look at the outbox. *)
DrainBlind(c) ==
  /\ Goto(c, "drain", "return")
  /\ UNCHANGED <<requested, completed, fullRequested, serial, ticket,
                 generation, force, outbox, faults, history>>

Drain(c) ==
  /\ Goto(c, "drain", IF outbox = 0 THEN "return" ELSE "begin")
  /\ UNCHANGED <<requested, completed, fullRequested, serial, ticket,
                 generation, force, outbox, faults, history>>

(* Mutant of Release: no finally, a failed pass keeps the semaphore. *)
ReleaseOnSuccess(c) ==
  /\ pc[c] \in {"return", "throw"}
  /\ pc' = [pc EXCEPT ![c] = "idle"]
  /\ serial' = IF pc[c] = "return" THEN Nobody ELSE serial
  /\ UNCHANGED <<requested, completed, fullRequested, ticket, generation,
                 force, outbox, faults, history>>

(* The finally clause, on success and on failure. *)
Release(c) ==
  /\ pc[c] \in {"return", "throw"}
  /\ pc' = [pc EXCEPT ![c] = "idle"]
  /\ serial' = Nobody
  /\ UNCHANGED <<requested, completed, fullRequested, ticket, generation,
                 force, outbox, faults, history>>

Step(c) ==
  \/ Draw(c) \/ Enter(c) \/ Check(c)
  \/ ReadGeneration(c) \/ TakeForce(c) \/ Push(c) \/ Pull(c) \/ Complete(c)
  \/ Again(c) \/ Drain(c) \/ Release(c)

Next ==
  \E c \in Callers :
    \/ \E full \in BOOLEAN : Ask(c, full)
    \/ Edit(c)
    \/ Step(c)
    \/ CancelWait(c)
    \/ Fail(c)

Spec == Init /\ [][Next]_vars

(* A task that can run does; nobody is obliged to call Sync or to fail.    *)
Fairness == \A c \in Callers : WF_vars(Step(c))
FairSpec == Spec /\ Fairness

-----------------------------------------------------------------------------
(* Properties. *)

(* A call to Sync that returns normally, coalesced or not, has been served  *)
(* by a pass that succeeded and began after its ticket, and if it asked for *)
(* a full pass, a full pass that began after it asked has succeeded.        *)
ServedOnReturn ==
  \A c \in Callers : pc[c] = "return" => c \in covered /\ c \notin owed

(* A full request that no successful pass has met is still in the flag or   *)
(* in the hands of the running pass: a pass that fails, is coalesced with   *)
(* or is overtaken never swallows it.                                       *)
FullNotForgotten ==
  \A c \in owed :
    \/ fullRequested
    \/ c \in taken /\ force /\ \E d \in Callers : pc[d] \in Passing

(* Once nobody calls Sync any more, everybody who did has left it: the      *)
(* semaphore is always given back and the loop over passes ends.            *)
EveryCallEnds == <>[](\A c \in Callers : pc[c] = "idle")

(* While nothing fails, a queued edit is uploaded without anybody asking    *)
(* again, also when it arrives during a pass or the outbox is longer than   *)
(* what one pass uploads.                                                   *)
EditsAreUploaded == outbox > 0 ~> (outbox = 0 \/ faults > 0)
=============================================================================
