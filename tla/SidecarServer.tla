---------------------------- MODULE SidecarServer ----------------------------
(***************************************************************************)
(* The request loop of the Rust backend: serve of main.rs over dispatch of *)
(* server.rs, the task of start, and the background passes that both ask   *)
(* for.  One line is a request; each request runs on a task of its own and *)
(* is answered under its id, in a step after its work is done.  Calls that *)
(* sign in or out hold the client while Apple answers, and so does a pass  *)
(* for each of its requests.                                               *)
(*                                                                         *)
(* The UI at the other end of stdin is external, as is Apple.  What a line *)
(* says is its kind: which lines those are LineReader tells.               *)
(***************************************************************************)
EXTENDS Naturals, Sequences, FiniteSets

CONSTANTS
  MaxLines,     \* bound: lines the UI sends
  MaxRecovered  \* bound: sessions that passes restore or find expired, and
                \* further tries of the restore at start-up

ASSUME BoundsAssumption == MaxLines \in Nat /\ MaxRecovered \in Nat

Ids == 1..MaxLines

(* sync and shutdown touch no client; status reads it if it is free;        *)
(* session stands for login, request_2fa, submit_2fa and sign_out; cached   *)
(* for ping and the calls that only use the cache; bad for a line that is   *)
(* too long, or no JSON of a request.                                       *)
Kinds == {"cached", "status", "session", "sync", "shutdown", "blank", "bad"}
NoRequest == {"blank", "bad"}

VARIABLES
  lines,      \* the kinds of the lines the UI has sent, in order
  closed,     \* the UI has closed stdin
  loop,       \* serve: "reading", "draining" or "ended"
  read,       \* lines read so far
  task,       \* where the task of each request is
  answers,    \* replies sent under each id
  refusals,   \* replies under no id, for lines that are no request
  expired,    \* SHUTDOWN_DRAIN is over
  holder,     \* who holds the client: nobody, a pass, the start, or a request
  session,    \* what status() of the client would say: a version of it
  snapshot,   \* auth_snapshot, the version last published
  starter,    \* the task of start
  startSaw,   \* the version it has read last, to be published
  saw,        \* the version a status request has read; and, as history, the one
              \* that a session call published, if begun after the start was over
  known,      \* history: the newest of those that were answered to the UI
  floor,      \* history: the newest when a status request was sent
  recovered,  \* how often a pass or a further try of start has changed the session
  running,    \* SyncEngine.running
  waiting     \* passes asked for and not begun, serialised by sync_now

loopVars   == <<loop, read, expired>>
clientVars == <<holder, session, snapshot>>
startVars  == <<starter, startSaw>>
syncVars   == <<running, waiting, recovered>>
history    == <<known, floor>>
vars == <<lines, closed, loopVars, task, answers, refusals, clientVars, startVars, saw,
          history, syncVars>>

Pass == MaxLines + 1
Starter == MaxLines + 2
Nobody == 0

TypeOK ==
  /\ lines \in Seq(Kinds) /\ Len(lines) <= MaxLines /\ closed \in BOOLEAN
  /\ loop \in {"reading", "draining", "ended"} /\ read \in 0..Len(lines)
  /\ task \in [Ids -> {"none", "ready", "asking", "replying", "done"}]
  /\ answers \in [Ids -> Nat] /\ refusals \in 0..MaxLines /\ expired \in BOOLEAN
  /\ holder \in {Nobody, Pass, Starter} \cup Ids
  /\ session \in Nat /\ snapshot \in 0..session /\ recovered \in Nat
  /\ starter \in {"try", "asking", "check", "publish", "over"} /\ startSaw \in 0..session
  /\ saw \in [Ids -> Nat] /\ known \in 0..session /\ floor \in [Ids -> 0..known]
  /\ running \in BOOLEAN /\ waiting \in 0..(MaxLines + 1)

Init ==
  /\ lines = <<>> /\ closed = FALSE
  /\ loop = "reading" /\ read = 0 /\ expired = FALSE
  /\ task = [i \in Ids |-> "none"] /\ answers = [i \in Ids |-> 0] /\ refusals = 0
  /\ holder = Nobody /\ session = 0 /\ snapshot = 0 /\ recovered = 0
  /\ starter \in {"try", "over"} /\ startSaw = 0   \* over, if no Apple ID is known
  /\ saw = [i \in Ids |-> 0] /\ known = 0 /\ floor = [i \in Ids |-> 0]
  /\ running = FALSE /\ waiting = 0

-----------------------------------------------------------------------------
(* What the loop leaves to its tasks. *)
Elsewhere == UNCHANGED <<clientVars, startVars, saw, history, syncVars>>

(* The UI. *)

Send(kind) ==
  /\ ~closed /\ Len(lines) < MaxLines
  /\ lines' = Append(lines, kind)
  /\ floor' = [floor EXCEPT ![Len(lines) + 1] = IF kind = "status" THEN known ELSE 0]
  /\ UNCHANGED <<closed, loopVars, task, answers, refusals, clientVars, startVars, saw, known,
                 syncVars>>

Close ==
  /\ ~closed /\ closed' = TRUE
  /\ Elsewhere /\ UNCHANGED <<lines, loopVars, task, answers, refusals>>

-----------------------------------------------------------------------------
(* serve. *)

Kind(i) == lines[i]
Answer(i) == answers' = [answers EXCEPT ![i] = @ + 1]

AllDone == \A i \in Ids : task[i] \in {"none", "done"}

(* The next line, in order.  A bad one is refused and the loop goes on; a   *)
(* request gets a task; shutdown is answered here and ends the loop.        *)
ReadLine ==
  /\ loop = "reading" /\ read < Len(lines)
  /\ read' = read + 1
  /\ LET i == read + 1 IN
     \/ Kind(i) = "blank" /\ UNCHANGED <<loop, task, answers, refusals>>
     \/ /\ Kind(i) = "bad"
        /\ refusals' = refusals + 1 /\ UNCHANGED <<loop, task, answers>>
     \/ /\ Kind(i) = "shutdown"
        /\ Answer(i) /\ loop' = "draining" /\ UNCHANGED <<task, refusals>>
     \/ /\ Kind(i) \notin NoRequest \cup {"shutdown"}
        /\ task' = [task EXCEPT ![i] = "ready"] /\ UNCHANGED <<loop, answers, refusals>>
  /\ Elsewhere /\ UNCHANGED <<lines, closed, expired>>

(* End of the stream: no more lines, but tasks may be under way.            *)
ReadEof ==
  /\ loop = "reading" /\ closed /\ read = Len(lines)
  /\ loop' = "draining"
  /\ Elsewhere /\ UNCHANGED <<lines, closed, read, expired, task, answers, refusals>>

(* Mutant of Drained: the process exits with the loop. *)
DrainedAtOnce ==
  /\ loop = "draining" /\ loop' = "ended"
  /\ Elsewhere /\ UNCHANGED <<lines, closed, read, expired, task, answers, refusals>>

(* The tasks are waited for, ten seconds at most.  Passes are not.          *)
Drained ==
  /\ loop = "draining" /\ AllDone /\ loop' = "ended"
  /\ Elsewhere /\ UNCHANGED <<lines, closed, read, expired, task, answers, refusals>>

DrainExpires ==
  /\ loop = "draining" /\ ~AllDone /\ loop' = "ended" /\ expired' = TRUE
  /\ Elsewhere /\ UNCHANGED <<lines, closed, read, task, answers, refusals>>

-----------------------------------------------------------------------------
(* dispatch, on the task of a request, until the process has ended. *)

Alive == loop # "ended"
Ready(i) == Alive /\ task[i] = "ready"
Over(i) == task' = [task EXCEPT ![i] = "replying"]
Beside == UNCHANGED <<lines, closed, loopVars, answers, refusals>>

(* The reply of a task that is over, sent by its own thread.                *)
Reply(i) ==
  /\ Alive /\ task[i] = "replying"
  /\ task' = [task EXCEPT ![i] = "done"] /\ Answer(i)
  /\ known' = IF Kind(i) = "session" /\ saw[i] > known THEN saw[i] ELSE known
  /\ saw' = [saw EXCEPT ![i] = 0] /\ floor' = [floor EXCEPT ![i] = 0]
  /\ UNCHANGED <<lines, closed, loopVars, refusals, clientVars, startVars, syncVars>>

(* No step of these waits; an edit asks for a pass.                         *)
cached(i) ==
  /\ Ready(i) /\ Kind(i) = "cached" /\ Over(i)
  /\ waiting' \in {waiting, waiting + 1}
  /\ Beside /\ UNCHANGED <<clientVars, startVars, saw, history, running, recovered>>

(* Mutant of auth_status: it waits for the client. *)
auth_status_waits(i) ==
  /\ Ready(i) /\ Kind(i) = "status" /\ holder = Nobody /\ Over(i)
  /\ saw' = [saw EXCEPT ![i] = session] /\ snapshot' = session
  /\ Beside /\ UNCHANGED <<holder, session, startVars, history, syncVars>>

(* auth_status never waits: while the client is held it reads the snapshot. *)
auth_status(i) ==
  /\ Ready(i) /\ Kind(i) = "status" /\ Over(i)
  /\ IF holder = Nobody
     THEN saw' = [saw EXCEPT ![i] = session] /\ snapshot' = session
     ELSE saw' = [saw EXCEPT ![i] = snapshot] /\ UNCHANGED snapshot
  /\ Beside /\ UNCHANGED <<holder, session, startVars, history, syncVars>>

(* "sync" starts a pass only if none is running. *)
kick_sync(i) ==
  /\ Ready(i) /\ Kind(i) = "sync" /\ Over(i)
  /\ waiting' = IF running THEN waiting ELSE waiting + 1
  /\ Beside /\ UNCHANGED <<clientVars, startVars, saw, history, running, recovered>>

(* A call of the session takes the client, and keeps it until Apple has     *)
(* answered.  Nobody else changes the session meanwhile.                    *)
LockClient(i) ==
  /\ Ready(i) /\ Kind(i) = "session" /\ holder = Nobody
  /\ holder' = i /\ task' = [task EXCEPT ![i] = "asking"]
  /\ saw' = [saw EXCEPT ![i] = IF starter = "over" THEN session + 1 ELSE 0]
  /\ Beside /\ UNCHANGED <<session, snapshot, startVars, history, syncVars>>

(* Mutant of SessionAnswered: the status is not published. *)
SessionAnsweredPrivately(i) ==
  /\ Alive /\ task[i] = "asking" /\ Over(i)
  /\ holder' = Nobody /\ session' = session + 1
  /\ waiting' \in {waiting, waiting + 1}
  /\ Beside /\ UNCHANGED <<snapshot, startVars, saw, history, running, recovered>>

(* Before it gives the client back it publishes the status, then it may ask *)
(* for a pass.  request_2fa and sign_out do not publish a failure, which    *)
(* may have changed the status too.                                         *)
SessionAnswered(i) ==
  /\ Alive /\ task[i] = "asking" /\ Over(i)
  /\ holder' = Nobody /\ session' = session + 1
  /\ \/ /\ snapshot' = session' /\ waiting' \in {waiting, waiting + 1}
        /\ UNCHANGED saw
     \/ /\ saw' = [saw EXCEPT ![i] = 0]
        /\ UNCHANGED <<snapshot, waiting>>
  /\ Beside /\ UNCHANGED <<startVars, history, running, recovered>>

-----------------------------------------------------------------------------
(* The task of start: it restores the session, and again while Apple cannot *)
(* be reached, and at last tells the status and asks for a pass.            *)

StartTry ==
  /\ Alive /\ starter = "try" /\ holder = Nobody
  /\ holder' = Starter /\ starter' = "asking"
  /\ Beside /\ UNCHANGED <<task, session, snapshot, startSaw, saw, history, syncVars>>

StartAnswered ==
  /\ Alive /\ starter = "asking"
  /\ holder' = Nobody /\ session' = session + 1 /\ starter' = "check"
  /\ Beside /\ UNCHANGED <<task, snapshot, startSaw, saw, history, syncVars>>

(* Another try: "restoring" is published under the lock.                    *)
StartAgain ==
  /\ Alive /\ starter = "check" /\ holder = Nobody
  /\ recovered < MaxRecovered /\ recovered' = recovered + 1
  /\ session' = session + 1 /\ snapshot' = session' /\ starter' = "try"
  /\ Beside /\ UNCHANGED <<task, holder, startSaw, saw, history, running, waiting>>

(* The status is read under the lock, and published without it.             *)
StartReads ==
  /\ Alive /\ starter = "check" /\ holder = Nobody
  /\ startSaw' = session /\ starter' = "publish"
  /\ Beside /\ UNCHANGED <<task, clientVars, saw, history, syncVars>>

StartPublishes ==
  /\ Alive /\ starter = "publish" /\ starter' = "over"
  /\ snapshot' = startSaw /\ startSaw' = 0 /\ waiting' \in {waiting, waiting + 1}
  /\ Beside /\ UNCHANGED <<task, holder, session, saw, history, running, recovered>>

-----------------------------------------------------------------------------
(* Passes, one at a time.  Each takes the client for a request and gives it *)
(* back; the guard takes the flag down however the pass ends.               *)

StartPass ==
  /\ Alive /\ waiting > 0 /\ ~running
  /\ waiting' = waiting - 1 /\ running' = TRUE
  /\ Beside /\ UNCHANGED <<task, clientVars, startVars, saw, history, recovered>>

PassRequest ==
  /\ Alive /\ running /\ holder = Nobody /\ holder' = Pass
  /\ Beside /\ UNCHANGED <<task, session, snapshot, startVars, saw, history, syncVars>>

PassAnswered ==
  /\ Alive /\ holder = Pass /\ holder' = Nobody
  /\ Beside /\ UNCHANGED <<task, session, snapshot, startVars, saw, history, syncVars>>

(* recover_session changes the status and tells the UI by the event         *)
(* auth_changed, but does not publish it: the snapshot stays behind.        *)
PassRecovered ==
  /\ Alive /\ holder = Pass /\ holder' = Nobody
  /\ recovered < MaxRecovered /\ recovered' = recovered + 1
  /\ session' = session + 1
  /\ Beside /\ UNCHANGED <<task, snapshot, startVars, saw, history, running, waiting>>

PassOver ==
  /\ Alive /\ running /\ holder # Pass /\ running' = FALSE
  /\ Beside /\ UNCHANGED <<task, clientVars, startVars, saw, history, waiting, recovered>>

Ended == loop = "ended" /\ UNCHANGED vars

LoopStep  == ReadLine \/ ReadEof \/ Drained
Quick(i)  == cached(i) \/ auth_status(i) \/ kick_sync(i) \/ Reply(i)
TaskStep  == \E i \in Ids : Quick(i) \/ LockClient(i) \/ SessionAnswered(i)
StartStep == StartTry \/ StartAnswered \/ StartAgain \/ StartReads \/ StartPublishes
PassStep  == StartPass \/ PassRequest \/ PassAnswered \/ PassRecovered \/ PassOver

Next ==
  \/ \E kind \in Kinds : Send(kind)
  \/ Close \/ LoopStep \/ DrainExpires \/ TaskStep \/ StartStep \/ PassStep \/ Ended

Spec == Init /\ [][Next]_vars

(* The loop and the tasks that wait for nobody run; Apple may never answer. *)
FairSpec == Spec /\ WF_vars(LoopStep) /\ \A i \in Ids : WF_vars(Quick(i))

-----------------------------------------------------------------------------
(* Properties. *)

(* No request is answered twice, nor before it is read; and when the        *)
(* process ends, each that was read has been answered, unless the drain was *)
(* given up.  Lines that are no request are refused one for one.            *)
Answered(i) == answers[i] = 1
OneAnswerEach ==
  /\ \A i \in Ids : answers[i] <= 1 /\ (answers[i] = 1 => i <= read)
  /\ refusals = Cardinality({i \in 1..read : Kind(i) = "bad"})
  /\ loop = "ended" /\ ~expired
       => \A i \in 1..read : Kind(i) \notin NoRequest => Answered(i)

(* Whatever Apple does, a call that does not need it is answered: "awaiting *)
(* dispatch here would let one slow request stall every later one".         *)
NeedsNoApple(i) == i <= read /\ Kind(i) \in {"status", "cached", "sync"}
QuickCallsAnswered == \A i \in Ids : NeedsNoApple(i) ~> (Answered(i) \/ loop = "ended")

(* A status request that the UI sends once it has the answer of a call that *)
(* signed in or out shows at least what that call has come to, although it  *)
(* may find the client held by a pass and read the snapshot, and others     *)
(* publish theirs: what auth_snapshot is for.  Calls that overlap the       *)
(* restore at start-up are left out, which may publish an older status, and *)
(* so is what a pass has told as an event only.                             *)
StatusShowsOutcome ==
  \A i \in Ids : task[i] = "replying" /\ Kind(i) = "status" => saw[i] >= floor[i]
==============================================================================
