------------------------ MODULE SidecarServiceProofs ------------------------
(***************************************************************************)
(* The request loop answers every request it reads exactly once, for any   *)
(* number of lines, any order in which their tasks run, and an end of the  *)
(* stream or a shutdown at any point; and a status asked for after a       *)
(* sign-in shows it.  And the due notifications tell of a reminder once,   *)
(* and once more only if it got its name between the two statements of a   *)
(* call that had found it, for any reminders, edits, crashes and clock.    *)
(* And the dates keep what the user or another device gave, for any zones  *)
(* that skip no more than the code looks ahead, and do not drift.  And the *)
(* lines are served as they were sent, however the stream is cut into      *)
(* pieces.                                                                 *)
(***************************************************************************)
EXTENDS MCSidecarService, FiniteSetTheorems, TLAPS

(* A line for which a task is spawned. *)
Spawned(i) == Kind(i) \notin NoRequest \cup {"shutdown"}
Bad == {i \in 1..read : Kind(i) = "bad"}

Types ==
  /\ lines \in Seq(Kinds) /\ Len(lines) <= MaxLines
  /\ loop \in {"reading", "draining", "ended"} /\ read \in 0..Len(lines)
  /\ task \in [Ids -> {"none", "ready", "asking", "replying", "done"}]
  /\ answers \in [Ids -> Nat]

(* The task of a line tells what has been sent under its id.                *)
Told(i) ==
  /\ task[i] # "none" <=> i <= read /\ Spawned(i)
  /\ answers[i] = IF task[i] = "done" \/ (i <= read /\ Kind(i) = "shutdown") THEN 1 ELSE 0
Tasks == \A i \in Ids : Told(i)

Refused == refusals = Cardinality(Bad)

(* The loop ends over unfinished tasks only when the drain is given up.     *)
Waited == loop = "ended" /\ ~expired => AllDone

IInv == Types /\ Tasks /\ Refused /\ Waited

loopState == <<lines, loop, read, expired, task, answers, refusals>>

-----------------------------------------------------------------------------

(* At the start no line has been read. *)
LEMMA InitOK == Init => IInv
<1> SUFFICES ASSUME Init PROVE IInv
  OBVIOUS
<1> USE BoundsAssumption DEF Init
<1>1. Types
  BY DEF Types, Ids
<1>2. Tasks
  BY DEF Tasks, Told, Ids
<1>3. Refused
  <2>1. Bad = {}
    BY DEF Bad
  <2> QED
    BY <2>1, FS_EmptySet DEF Refused
<1>4. Waited
  BY DEF Waited
<1> QED
  BY <1>1, <1>2, <1>3, <1>4 DEF IInv

(* What leaves the loop and its tasks alone keeps their account. *)
LEMMA SameStep == ASSUME IInv, UNCHANGED loopState PROVE IInv'
BY DEF loopState, IInv, Types, Tasks, Told, Spawned, Kind, Refused, Bad, Waited, AllDone

(* A line more says nothing new of those already read. *)
LEMMA SendStep == ASSUME IInv, NEW kind \in Kinds, Send(kind) PROVE IInv'
<1> USE BoundsAssumption DEF Send, loopVars
<1>1. /\ lines' \in Seq(Kinds) /\ Len(lines') = Len(lines) + 1
      /\ \A i \in 1..Len(lines) : Kind(i)' = Kind(i)
  BY DEF IInv, Types, Kind
<1>2. Types'
  BY <1>1 DEF IInv, Types
<1>3. \A i \in 1..read : Kind(i)' = Kind(i)
  BY <1>1 DEF IInv, Types
<1>4. Tasks'
  <2> SUFFICES ASSUME NEW i \in Ids PROVE Told(i)'
    BY DEF Tasks
  <2>1. Told(i) /\ i \in Nat \ {0} /\ read \in Nat
    BY DEF IInv, Tasks, Types, Ids
  <2>2. i <= read => Kind(i)' = Kind(i)
    BY <1>3, <2>1
  <2> QED
    BY <2>1, <2>2 DEF Told, Spawned
<1>5. Refused'
  <2>1. Bad' = Bad
    BY <1>3 DEF Bad
  <2> QED
    BY <2>1 DEF IInv, Refused
<1>6. Waited'
  BY DEF IInv, Waited, AllDone
<1> QED
  BY <1>2, <1>4, <1>5, <1>6 DEF IInv

(* The next line gets its task, its refusal or its answer. *)
LEMMA ReadLineStep == ASSUME IInv, ReadLine PROVE IInv'
<1> DEFINE n == read + 1
<1> USE BoundsAssumption DEF ReadLine
<1>1. n \in Ids /\ n \in 1..Len(lines) /\ read' = n /\ read \in Nat /\ ~(n <= read)
  BY DEF IInv, Types, Ids
<1>2. Kind(n) \in Kinds /\ (\A i \in Ids : Kind(i)' = Kind(i))
  BY <1>1 DEF IInv, Types, Kind
<1>3. task[n] = "none" /\ answers[n] = 0
  BY <1>1 DEF IInv, Tasks, Told
<1>4. Types'
  <2>1. /\ task' \in [Ids -> {"none", "ready", "asking", "replying", "done"}]
        /\ answers' \in [Ids -> Nat]
    <3>1. /\ task' = task \/ task' = [task EXCEPT ![n] = "ready"]
          /\ answers' = answers \/ answers' = [answers EXCEPT ![n] = @ + 1]
      BY DEF Answer
    <3> QED
      BY <1>1, <1>3, <3>1 DEF IInv, Types
  <2>2. loop' \in {"reading", "draining", "ended"}
    BY DEF IInv, Types
  <2> QED
    BY <1>1, <2>1, <2>2 DEF IInv, Types
<1>5. ASSUME NEW i \in Ids PROVE Told(i)'
  <2>1. Told(i) /\ i \in Nat
    BY DEF IInv, Tasks, Ids
  <2>2. CASE i # n
    <3>1. task'[i] = task[i] /\ answers'[i] = answers[i]
      BY <1>1, <2>2 DEF IInv, Types, Answer
    <3>2. i <= read' <=> i <= read
      BY <1>1, <2>1, <2>2
    <3> QED
      BY <1>2, <2>1, <3>1, <3>2 DEF Told, Spawned
  <2>3. CASE i = n
    <3>1. i <= read'
      BY <1>1, <2>3
    <3>2. CASE Kind(n) \in NoRequest
      BY <1>1, <1>2, <1>3, <2>3, <3>1, <3>2 DEF Told, Spawned, NoRequest
    <3>3. CASE Kind(n) = "shutdown"
      <4>1. task' = task /\ answers'[n] = 1
        BY <1>1, <1>3, <3>3 DEF Answer, NoRequest, IInv, Types
      <4> QED
        BY <1>1, <1>2, <1>3, <2>3, <3>1, <3>3, <4>1 DEF Told, Spawned
    <3>4. CASE Kind(n) \notin NoRequest \cup {"shutdown"}
      <4>1. task'[n] = "ready" /\ answers' = answers
        BY <1>1, <3>4 DEF NoRequest, IInv, Types
      <4> QED
        BY <1>1, <1>2, <1>3, <2>3, <3>1, <3>4, <4>1 DEF Told, Spawned
    <3> QED
      BY <3>2, <3>3, <3>4
  <2> QED
    BY <2>2, <2>3
<1>6. Refused'
  <2>1. 1..read' = (1..read) \cup {n}
    BY <1>1
  <2>2. \A i \in 1..read' : i \in Ids
    BY <1>1 DEF Ids
  <2>3. IsFiniteSet(Bad) /\ n \notin Bad
    <3>1. IsFiniteSet(1..read)
      BY <1>1, FS_Interval
    <3> QED
      BY <1>1, <3>1, FS_Subset DEF Bad
  <2>4. CASE Kind(n) = "bad"
    <3>1. Bad' = Bad \cup {n}
      BY <1>2, <2>1, <2>2, <2>4 DEF Bad
    <3>2. refusals' = refusals + 1
      BY <2>4 DEF NoRequest
    <3> QED
      BY <2>3, <3>1, <3>2, FS_AddElement DEF IInv, Refused
  <2>5. CASE Kind(n) # "bad"
    <3>1. Bad' = Bad
      BY <1>2, <2>1, <2>2, <2>5 DEF Bad
    <3>2. refusals' = refusals
      BY <2>5
    <3> QED
      BY <3>1, <3>2 DEF IInv, Refused
  <2> QED
    BY <2>4, <2>5
<1>7. Waited'
  BY DEF Waited
<1> QED
  BY <1>4, <1>5, <1>6, <1>7 DEF IInv, Tasks

(* A task whose work is done has answered nothing yet.                      *)
LEMMA OverStep ==
  ASSUME IInv, NEW i \in Ids, task[i] \in {"ready", "asking"}, Over(i),
         UNCHANGED <<lines, loop, read, expired, answers, refusals>>
  PROVE  IInv'
<1> USE DEF Over
<1>1. Types'
  BY DEF IInv, Types
<1>2. ASSUME NEW j \in Ids PROVE Told(j)'
  <2>1. Told(j)
    BY DEF IInv, Tasks
  <2> QED
    BY <2>1 DEF IInv, Types, Told, Spawned, Kind
<1>3. Refused'
  BY DEF IInv, Refused, Bad, Kind
<1>4. Waited'
  BY DEF IInv, Types, Waited, AllDone
<1> QED
  BY <1>1, <1>2, <1>3, <1>4 DEF IInv, Tasks

(* Its request is answered.                                                 *)
LEMMA AnsweredStep == ASSUME IInv, NEW i \in Ids, Reply(i) PROVE IInv'
<1> USE DEF Reply, Answer, Alive, loopVars
<1>1. Types'
  BY DEF IInv, Types
<1>2. ASSUME NEW j \in Ids PROVE Told(j)'
  <2>1. Told(j) /\ Told(i)
    BY DEF IInv, Tasks
  <2>2. CASE j = i
    BY <2>1, <2>2 DEF IInv, Types, Told, Spawned, Kind
  <2>3. CASE j # i
    BY <2>1, <2>3 DEF IInv, Types, Told, Spawned, Kind
  <2> QED
    BY <2>2, <2>3
<1>3. Refused'
  BY DEF IInv, Refused, Bad, Kind
<1>4. Waited'
  BY DEF IInv, Types, Waited, AllDone
<1> QED
  BY <1>1, <1>2, <1>3, <1>4 DEF IInv, Tasks

(* A task that takes the client has answered nothing yet. *)
LEMMA LockStep == ASSUME IInv, NEW i \in Ids, LockClient(i) PROVE IInv'
<1> USE DEF LockClient, Ready, Alive, Beside, loopVars
<1>1. Types'
  BY DEF IInv, Types
<1>2. ASSUME NEW j \in Ids PROVE Told(j)'
  <2>1. Told(j)
    BY DEF IInv, Tasks
  <2> QED
    BY <2>1 DEF IInv, Types, Told, Spawned, Kind
<1>3. Refused'
  BY DEF IInv, Refused, Bad, Kind
<1>4. Waited'
  BY DEF IInv, Types, Waited, AllDone
<1> QED
  BY <1>1, <1>2, <1>3, <1>4 DEF IInv, Tasks

(* The loop leaves its reading, or its waiting.                             *)
LEMMA EndStep == ASSUME IInv, ReadEof \/ Drained \/ DrainExpires PROVE IInv'
<1> USE DEF ReadEof, Drained, DrainExpires
<1>1. Types'
  BY DEF IInv, Types
<1>2. Tasks'
  BY DEF IInv, Tasks, Told, Spawned, Kind
<1>3. Refused'
  BY DEF IInv, Refused, Bad, Kind
<1>4. Waited'
  BY DEF IInv, Waited, AllDone
<1> QED
  BY <1>1, <1>2, <1>3, <1>4 DEF IInv

(* Every step of the server keeps the account. *)
LEMMA StepOK == IInv /\ [Next]_vars => IInv'
<1> SUFFICES ASSUME IInv, [Next]_vars PROVE IInv'
  OBVIOUS
<1>1. ASSUME NEW kind \in Kinds, Send(kind) PROVE IInv'
  BY <1>1, SendStep
<1>2. CASE LoopStep \/ DrainExpires
  BY <1>2, ReadLineStep, EndStep DEF LoopStep
<1>3. ASSUME NEW i \in Ids, cached(i) \/ auth_status(i) \/ kick_sync(i) \/ SessionAnswered(i)
      PROVE  IInv'
  <2>1. task[i] \in {"ready", "asking"} /\ Over(i)
    BY <1>3 DEF cached, auth_status, kick_sync, SessionAnswered, Ready
  <2>2. UNCHANGED <<lines, loop, read, expired, answers, refusals>>
    BY <1>3 DEF cached, auth_status, kick_sync, SessionAnswered, Beside, loopVars
  <2> QED
    BY <2>1, <2>2, OverStep
<1>4. ASSUME NEW i \in Ids, LockClient(i) \/ Reply(i) PROVE IInv'
  BY <1>4, LockStep, AnsweredStep
<1>5. CASE Close \/ StartStep \/ PassStep \/ Ended \/ UNCHANGED vars
  <2>1. UNCHANGED loopState
    BY <1>5 DEF Close, StartStep, StartTry, StartAnswered, StartAgain, StartReads,
                StartPublishes, PassStep, StartPass, PassRequest, PassOver, PassAnswered,
                PassRecovered, Ended, Beside, vars, loopVars, loopState
  <2> QED
    BY <2>1, SameStep
<1> QED
  BY <1>1, <1>2, <1>3, <1>4, <1>5 DEF Next, TaskStep, Quick

(* Every request that is read is answered once and under its own id before  *)
(* the process ends, unless the drain is given up; lines that are no request*)
(* are refused one for one.                                                 *)
THEOREM EachAnsweredOnce == Spec => []OneAnswerEach
<1>1. IInv => OneAnswerEach
  <2> SUFFICES ASSUME IInv PROVE OneAnswerEach
    OBVIOUS
  <2> USE DEF IInv
  <2>1. ASSUME NEW i \in Ids PROVE answers[i] <= 1 /\ (answers[i] = 1 => i <= read)
    BY DEF Tasks, Told
  <2>2. refusals = Cardinality({i \in 1..read : Kind(i) = "bad"})
    BY DEF Refused, Bad
  <2>3. ASSUME loop = "ended", ~expired, NEW i \in 1..read, Kind(i) \notin NoRequest
        PROVE  Answered(i)
    <3>1. i \in Ids /\ i <= read
      BY BoundsAssumption DEF Types, Ids
    <3>2. Told(i) /\ task[i] \in {"none", "done"}
      BY <2>3, <3>1 DEF Tasks, Waited, AllDone
    <3>3. Kind(i) = "shutdown" \/ Spawned(i)
      BY <2>3 DEF Spawned
    <3> QED
      BY <3>1, <3>2, <3>3 DEF Told, Answered
  <2> QED
    BY <2>1, <2>2, <2>3 DEF OneAnswerEach
<1>2. Spec => []IInv
  BY InitOK, StepOK, PTL DEF Spec
<1> QED
  BY <1>1, <1>2, PTL

(* What is published is a version there was, and no older than what the UI  *)
(* knows of a call begun after the start was over.                          *)
Published ==
  /\ session \in Nat /\ snapshot \in 0..session /\ startSaw \in 0..session
  /\ starter \in {"try", "asking", "check", "publish", "over"}
  /\ saw \in [Ids -> Nat] /\ known \in 0..snapshot /\ floor \in [Ids -> 0..known]
  /\ starter # "over" => known = 0
  /\ holder = Starter <=> starter = "asking"

(* A call of the session holds the client until it has published; what it   *)
(* will tell the UI is published then, unless the start is still under way. *)
Holds(i) == task[i] = "asking" => Kind(i) = "session" /\ holder = i /\ saw[i] \in {0, session + 1}
Tells(i) ==
  Kind(i) = "session" =>
    /\ task[i] = "replying" => saw[i] <= snapshot
    /\ task[i] \in {"asking", "replying"} /\ starter # "over" => saw[i] = 0
Shows(i) == task[i] = "replying" /\ Kind(i) = "status" => saw[i] >= floor[i]

Current == Published /\ \A i \in Ids : Holds(i) /\ Tells(i) /\ Shows(i)

statusState == <<lines, task, clientVars, startVars, saw, history>>

(* At the start nothing has been published. *)
LEMMA CurrentStart == Init => Current
<1> SUFFICES ASSUME Init PROVE Current
  OBVIOUS
<1>1. Published
  BY BoundsAssumption DEF Init, Published, Nobody, Starter
<1>2. ASSUME NEW i \in Ids PROVE task[i] = "none"
  BY DEF Init
<1> QED
  BY <1>1, <1>2 DEF Current, Holds, Tells, Shows

(* What neither the client nor its status is told of.                       *)
LEMMA CurrentSame == ASSUME Current, UNCHANGED statusState PROVE Current'
BY DEF statusState, clientVars, startVars, history, Current, Published, Holds, Tells, Shows, Kind

(* A line more remembers what the UI knows, and has no task yet.            *)
LEMMA CurrentSend == ASSUME Current, IInv, NEW kind \in Kinds, Send(kind) PROVE Current'
<1> USE DEF Send, clientVars, startVars
<1>1. Len(lines) + 1 \in Ids
  BY BoundsAssumption DEF IInv, Types, Ids
<1>2. Published'
  <2>1. floor' \in [Ids -> 0..known]
    BY <1>1 DEF Current, Published
  <2> QED
    BY <2>1 DEF Current, Published
<1>3. ASSUME NEW i \in Ids PROVE (Holds(i) /\ Tells(i) /\ Shows(i))'
  <2>1. CASE task[i] = "none"
    BY <2>1 DEF Holds, Tells, Shows
  <2>2. CASE task[i] # "none"
    <3>1. i <= read /\ i \in Nat /\ read \in Nat /\ read <= Len(lines)
      BY <2>2 DEF IInv, Types, Tasks, Told, Ids
    <3>2. Kind(i)' = Kind(i) /\ i # Len(lines) + 1
      BY <3>1 DEF Kind, IInv, Types, Ids
    <3>3. floor'[i] = floor[i]
      BY <3>2 DEF Current, Published
    <3> QED
      BY <3>2, <3>3 DEF Current, Holds, Tells, Shows
  <2> QED
    BY <2>1, <2>2
<1> QED
  BY <1>2, <1>3 DEF Current

(* The loop gives a task to a line, which has no part in this yet.          *)
LEMMA CurrentRead == ASSUME Current, IInv, ReadLine PROVE Current'
<1> USE DEF ReadLine, Elsewhere, clientVars, startVars, history
<1>1. Published'
  BY DEF Current, Published
<1>2. ASSUME NEW i \in Ids PROVE (Holds(i) /\ Tells(i) /\ Shows(i))'
  <2>1. task'[i] = task[i] \/ task'[i] = "ready"
    BY DEF IInv, Types
  <2>2. Kind(i)' = Kind(i)
    BY DEF Kind
  <2> QED
    BY <2>1, <2>2 DEF Current, Holds, Tells, Shows
<1> QED
  BY <1>1, <1>2 DEF Current

(* A request about neither session nor status. *)
LEMMA CurrentOther ==
  ASSUME Current, IInv, NEW i \in Ids, cached(i) \/ kick_sync(i) PROVE Current'
<1> USE DEF cached, kick_sync, Over, Beside, clientVars, startVars, history
<1>1. Published'
  BY DEF Current, Published
<1>2. ASSUME NEW j \in Ids PROVE (Holds(j) /\ Tells(j) /\ Shows(j))'
  <2>1. Kind(j)' = Kind(j)
    BY DEF Kind
  <2>2. CASE j = i
    BY <2>1, <2>2 DEF IInv, Types, Current, Holds, Tells, Shows
  <2>3. CASE j # i
    <3>1. task'[j] = task[j]
      BY <2>3 DEF IInv, Types
    <3> QED
      BY <2>1, <3>1 DEF Current, Holds, Tells, Shows
  <2> QED
    BY <2>2, <2>3
<1> QED
  BY <1>1, <1>2 DEF Current

(* A status request reads what is published at least.                       *)
LEMMA CurrentStatus == ASSUME Current, IInv, NEW i \in Ids, auth_status(i) PROVE Current'
<1> USE DEF auth_status, Over, Beside, startVars, history
<1>1. /\ snapshot' \in snapshot..session /\ saw'[i] \in snapshot..session
      /\ \A j \in Ids : j # i => saw'[j] = saw[j] /\ task'[j] = task[j]
      /\ saw' \in [Ids -> Nat] /\ task'[i] = "replying"
  <2>1. session \in Nat /\ snapshot \in 0..session /\ saw \in [Ids -> Nat]
    BY DEF Current, Published
  <2>2. PICK v \in snapshot..session :
          saw' = [saw EXCEPT ![i] = v] /\ snapshot' \in snapshot..session
    BY <2>1
  <2>3. task' = [task EXCEPT ![i] = "replying"] /\ DOMAIN task = Ids
    BY DEF IInv, Types
  <2> QED
    BY <2>1, <2>2, <2>3
<1>2. Published'
  BY <1>1 DEF Current, Published
<1>3. ASSUME NEW j \in Ids PROVE (Holds(j) /\ Tells(j) /\ Shows(j))'
  <2>1. Kind(j)' = Kind(j)
    BY DEF Kind
  <2>2. CASE j = i
    <3>1. floor[i] \in 0..known /\ known \in 0..snapshot /\ snapshot \in 0..session
          /\ session \in Nat
      BY DEF Current, Published
    <3>2. saw'[i] >= floor[i]
      BY <1>1, <3>1
    <3> QED
      BY <1>1, <2>1, <2>2, <3>2 DEF Holds, Tells, Shows
  <2>3. CASE j # i
    <3>1. Holds(j) /\ Tells(j) /\ Shows(j) /\ saw[j] \in Nat
      BY DEF Current, Published
    <3>2. snapshot \in 0..session /\ session \in Nat
      BY DEF Current, Published
    <3> QED
      BY <1>1, <2>1, <2>3, <3>1, <3>2 DEF Holds, Tells, Shows
  <2> QED
    BY <2>2, <2>3
<1> QED
  BY <1>2, <1>3 DEF Current

(* A call of the session takes the client, and reckons with the version to  *)
(* come.                                                                    *)
LEMMA CurrentLock == ASSUME Current, IInv, NEW i \in Ids, LockClient(i) PROVE Current'
<1> USE DEF LockClient, Ready, Beside, startVars, history
<1>1. /\ saw'[i] = (IF starter = "over" THEN session + 1 ELSE 0) /\ task'[i] = "asking"
      /\ \A j \in Ids : j # i => saw'[j] = saw[j] /\ task'[j] = task[j]
      /\ saw' \in [Ids -> Nat]
  BY DEF IInv, Types, Current, Published
<1>2. i # Starter /\ i # Nobody /\ Nobody # Starter
  BY BoundsAssumption DEF Ids, Starter, Nobody
<1>3. Published'
  BY <1>1, <1>2 DEF Current, Published, Starter
<1>4. ASSUME NEW j \in Ids PROVE (Holds(j) /\ Tells(j) /\ Shows(j))'
  <2>1. Kind(j)' = Kind(j)
    BY DEF Kind
  <2>2. CASE j = i
    BY <1>1, <2>1, <2>2 DEF Holds, Tells, Shows, Kind
  <2>3. CASE j # i
    <3>1. Holds(j) /\ Tells(j) /\ Shows(j) /\ j # Nobody
      BY BoundsAssumption DEF Current, Ids, Nobody
    <3>2. task[j] # "asking"
      BY <3>1 DEF Holds
    <3> QED
      BY <1>1, <2>1, <2>3, <3>1, <3>2 DEF Holds, Tells, Shows
  <2> QED
    BY <2>2, <2>3
<1> QED
  BY <1>3, <1>4 DEF Current

(* Its version is published while it holds the client.                      *)
LEMMA CurrentAnswered == ASSUME Current, IInv, NEW i \in Ids, SessionAnswered(i) PROVE Current'
<1> USE DEF SessionAnswered, Over, Beside, startVars, history
<1>1. /\ Holds(i) /\ Tells(i) /\ holder = i /\ Kind(i) = "session"
      /\ saw[i] \in {0, session + 1} /\ (starter # "over" => saw[i] = 0)
  BY DEF Current, Holds, Tells
<1>2. /\ task'[i] = "replying" /\ \A j \in Ids : j # i => task'[j] = task[j]
      /\ \A j \in Ids : j # i => saw'[j] = saw[j]
      /\ saw' \in [Ids -> Nat]
  <2>1. task' = [task EXCEPT ![i] = "replying"] /\ DOMAIN task = Ids
    BY DEF IInv, Types
  <2>2. saw' = saw \/ saw' = [saw EXCEPT ![i] = 0]
    OBVIOUS
  <2>3. saw \in [Ids -> Nat]
    BY DEF Current, Published
  <2> QED
    BY <2>1, <2>2, <2>3
<1>3. \/ snapshot' = session + 1 /\ saw'[i] = saw[i]
      \/ snapshot' = snapshot /\ saw'[i] = 0
  BY DEF Current, Published
<1>4. session' = session + 1 /\ snapshot' >= snapshot /\ snapshot' \in 0..session'
      /\ saw'[i] <= snapshot'
  BY <1>1, <1>3 DEF Current, Published
<1>5. i # Starter /\ Nobody # Starter
  BY BoundsAssumption DEF Ids, Starter, Nobody
<1>6. Published'
  BY <1>1, <1>2, <1>4, <1>5 DEF Current, Published, Starter
<1>7. ASSUME NEW j \in Ids PROVE (Holds(j) /\ Tells(j) /\ Shows(j))'
  <2>1. Kind(j)' = Kind(j)
    BY DEF Kind
  <2>2. CASE j = i
    BY <1>1, <1>2, <1>3, <1>4, <2>1, <2>2 DEF Holds, Tells, Shows
  <2>3. CASE j # i
    <3>1. Holds(j) /\ Tells(j) /\ Shows(j) /\ saw[j] \in Nat
      BY DEF Current, Published
    <3>2. task[j] # "asking"
      BY <1>1, <2>3, <3>1 DEF Holds
    <3>3. snapshot \in Nat /\ snapshot' \in Nat
      BY <1>4 DEF Current, Published
    <3> QED
      BY <1>2, <1>4, <2>1, <2>3, <3>1, <3>2, <3>3 DEF Holds, Tells, Shows
  <2> QED
    BY <2>2, <2>3
<1> QED
  BY <1>6, <1>7 DEF Current

(* The UI learns what was published.                                        *)
LEMMA CurrentReply == ASSUME Current, IInv, NEW i \in Ids, Reply(i) PROVE Current'
<1> USE DEF Reply, clientVars, startVars
<1>1. /\ task'[i] = "done" /\ saw'[i] = 0 /\ floor'[i] = 0
      /\ \A j \in Ids : j # i => /\ task'[j] = task[j] /\ saw'[j] = saw[j]
                               /\ floor'[j] = floor[j]
      /\ saw' \in [Ids -> Nat]
  BY DEF IInv, Types, Current, Published
<1>2. known' \in known..snapshot /\ (starter # "over" => known' = 0)
  <2>1. Tells(i) /\ saw[i] \in Nat /\ known \in 0..snapshot /\ snapshot \in Nat
        /\ (starter # "over" => known = 0)
    BY DEF Current, Published
  <2> QED
    BY <2>1 DEF Tells
<1>3. Published'
  <2>1. floor' \in [Ids -> 0..known']
    BY <1>1, <1>2 DEF Current, Published
  <2> QED
    BY <1>1, <1>2, <2>1 DEF Current, Published, Starter
<1>4. ASSUME NEW j \in Ids PROVE (Holds(j) /\ Tells(j) /\ Shows(j))'
  <2>1. Kind(j)' = Kind(j)
    BY DEF Kind
  <2> QED
    BY <1>1, <2>1 DEF Current, Holds, Tells, Shows
<1> QED
  BY <1>3, <1>4 DEF Current

(* What the start and the passes do while no request holds the client: an   *)
(* older version may be published before the start is over, and only then.  *)
LEMMA CurrentBeside ==
  ASSUME Current, UNCHANGED <<lines, task, saw, history>>, Published',
         \A i \in Ids : task[i] = "asking" => holder' = holder /\ session' = session,
         snapshot' >= snapshot \/ starter # "over",
         starter' = "over" \/ starter # "over"
  PROVE  Current'
<1> SUFFICES ASSUME NEW i \in Ids PROVE (Holds(i) /\ Tells(i) /\ Shows(i))'
  BY DEF Current
<1>1. Holds(i) /\ Tells(i) /\ Shows(i) /\ Kind(i)' = Kind(i) /\ saw[i] \in Nat
  BY DEF Current, Published, Kind
<1>2. snapshot \in Nat /\ snapshot' \in Nat
  BY DEF Current, Published
<1> QED
  BY <1>1, <1>2 DEF Holds, Tells, Shows, history

(* The task of start. *)
LEMMA CurrentStartStep == ASSUME Current, IInv, StartStep PROVE Current'
<1> USE DEF StartTry, StartAnswered, StartAgain, StartReads, StartPublishes, Beside,
            clientVars
<1>1. \A i \in Ids : i # Starter /\ i # Nobody
  BY BoundsAssumption DEF Ids, Starter, Nobody
<1>2. UNCHANGED <<lines, task, saw, history>>
  BY DEF StartStep
<1>3. starter # "over"
  BY DEF StartStep
<1>4. Published'
  BY <1>3, BoundsAssumption
     DEF StartStep, Current, Published, Nobody, Starter, Pass, history
<1>5. \A i \in Ids : task[i] = "asking" => holder' = holder /\ session' = session
  <2> SUFFICES ASSUME NEW i \in Ids, task[i] = "asking"
               PROVE  holder' = holder /\ session' = session
    OBVIOUS
  <2>1. holder = i /\ holder # Nobody /\ holder # Starter
    BY <1>1 DEF Current, Holds
  <2>2. starter # "asking"
    BY <2>1 DEF Current, Published
  <2> QED
    BY <2>1, <2>2 DEF StartStep
<1> QED
  BY <1>2, <1>3, <1>4, <1>5, CurrentBeside

(* The passes. *)
LEMMA CurrentPassStep == ASSUME Current, IInv, PassStep PROVE Current'
<1> USE DEF StartPass, PassRequest, PassAnswered, PassRecovered, PassOver, Beside, clientVars,
            startVars
<1>1. \A i \in Ids : i # Pass /\ i # Nobody
  BY BoundsAssumption DEF Ids, Pass, Nobody
<1>2. UNCHANGED <<lines, task, saw, history, snapshot, startSaw, starter>>
  BY DEF PassStep
<1>3. Published'
  <2>1. Pass # Starter /\ Nobody # Starter
    BY BoundsAssumption DEF Pass, Starter, Nobody
  <2>2. session' \in {session, session + 1}
    BY DEF PassStep
  <2>3. holder' = Starter <=> holder = Starter
    BY <2>1 DEF PassStep
  <2> QED
    BY <1>2, <2>2, <2>3 DEF Current, Published, Starter, history
<1>4. \A i \in Ids : task[i] = "asking" => holder' = holder /\ session' = session
  BY <1>1 DEF Current, Holds, PassStep
<1>5. snapshot' >= snapshot
  BY <1>2 DEF Current, Published
<1> QED
  BY <1>2, <1>3, <1>4, <1>5, CurrentBeside

(* Every step keeps it. *)
LEMMA CurrentStep == Current /\ IInv /\ [Next]_vars => Current'
<1> SUFFICES ASSUME Current, IInv, [Next]_vars PROVE Current'
  OBVIOUS
<1>1. ASSUME NEW kind \in Kinds, Send(kind) PROVE Current'
  BY <1>1, CurrentSend
<1>2. CASE ReadLine
  BY <1>2, CurrentRead
<1>3. CASE Close \/ ReadEof \/ Drained \/ DrainExpires \/ Ended \/ UNCHANGED vars
  <2>1. UNCHANGED statusState
    BY <1>3 DEF Close, ReadEof, Drained, DrainExpires, Ended, Elsewhere, vars, statusState
  <2> QED
    BY <2>1, CurrentSame
<1>4. ASSUME NEW i \in Ids, Quick(i) \/ LockClient(i) \/ SessionAnswered(i) PROVE Current'
  BY <1>4, CurrentOther, CurrentStatus, CurrentReply, CurrentLock, CurrentAnswered DEF Quick
<1>5. CASE StartStep \/ PassStep
  BY <1>5, CurrentStartStep, CurrentPassStep
<1> QED
  BY <1>1, <1>2, <1>3, <1>4, <1>5 DEF Next, LoopStep, TaskStep

(* A status that is asked for after the answer of a call that signed in or  *)
(* out shows at least what that call came to, for any number of requests and*)
(* passes and whoever holds the client, once the start is over (server.rs:  *)
(* auth_status, publish_auth_snapshot).                                     *)
THEOREM StatusIsCurrent == Spec => []StatusShowsOutcome
<1>1. Init => IInv /\ Current
  BY InitOK, CurrentStart
<1>2. IInv /\ Current /\ [Next]_vars => (IInv /\ Current)'
  BY StepOK, CurrentStep
<1>3. Current => StatusShowsOutcome
  BY DEF Current, Shows, StatusShowsOutcome
<1> QED
  BY <1>1, <1>2, <1>3, PTL DEF Spec

-----------------------------------------------------------------------------
(* The notifications. *)

(* The poll in hand will tell of r. *)
InHand(r) == \E s \in Toasts!notified_ids : s.r = r

(* It will, and its second statement will not mark or has not marked r.     *)
Late(r) == \E s \in Toasts!notified_ids :
             s.r = r /\ (s.name # row[r].name \/ poll.stage = "reply")

Count(b) == IF b THEN 1 ELSE 0

ToastsTyped ==
  /\ row \in [Reminders -> Toasts!Row] /\ now \in Nat /\ edits \in Nat /\ renames \in Nat
  /\ poll.stage \in {"none", "mark", "reply"} /\ (poll.stage = "none" => poll = Toasts!NoPoll)
  /\ poll.missed \subseteq Toasts!Seen /\ poll.fresh \subseteq Toasts!Seen
  /\ told \in [Reminders -> Nat] /\ slipped \subseteq Reminders /\ moved \subseteq Reminders

(* A reminder has one name until it is given another, and then keeps it.    *)
Named(r) == row[r].name \in {0, 1} /\ (r \in slipped => row[r].name = 1)

(* What has been told and is about to be: one telling, and one more for a   *)
(* name that came between the statements.                                   *)
Once(r)     == told[r] + Count(InHand(r)) <= 1 + Count(r \in slipped)
Unmarked(r) == ~row[r].notified => told[r] + Count(Late(r)) <= Count(r \in slipped)

InTime(r) == InHand(r) => r \in moved \/ Toasts!notify_at(row[r]) <= now

Fine(r) == Named(r) /\ Once(r) /\ Unmarked(r) /\ InTime(r)
ToastsInv == ToastsTyped /\ \A r \in Reminders : Fine(r)

-----------------------------------------------------------------------------

(* At the start nothing has been told. *)
LEMMA ToastsInit == ASSUME Toasts!Bounds, Toasts!Init PROVE ToastsInv
<1>1. ToastsTyped
  <2>1. row \in [Reminders -> Toasts!Row]
    <3>1. [due : 0..1, all_day : BOOLEAN, open : {TRUE}, notified : {FALSE}, name : {0}]
            \subseteq Toasts!Row
      <4> SUFFICES ASSUME NEW x \in [due : 0..1, all_day : BOOLEAN, open : {TRUE},
                                     notified : {FALSE}, name : {0}]
                   PROVE  x \in Toasts!Row
        OBVIOUS
      <4>1. x = [due |-> x.due, all_day |-> x.all_day, open |-> x.open,
                 notified |-> x.notified, name |-> x.name]
        OBVIOUS
      <4>2. x.due \in Nat /\ x.all_day \in BOOLEAN /\ x.open \in BOOLEAN
            /\ x.notified \in BOOLEAN /\ x.name \in Nat
        <5>1. x.due \in 0..1 /\ x.name \in {0}
          OBVIOUS
        <5>2. x.all_day \in BOOLEAN /\ x.open \in {TRUE} /\ x.notified \in {FALSE}
          BY Zenon
        <5>3. x.open \in BOOLEAN /\ x.notified \in BOOLEAN
          BY <5>2, Zenon
        <5> QED
          BY <5>1, <5>2, <5>3
      <4> QED
        BY <4>1, <4>2 DEF Toasts!Row
    <3> QED
      BY <3>1 DEF Toasts!Init
  <2>2. told \in [Reminders -> Nat]
    BY DEF Toasts!Init
  <2> QED
    BY <2>1, <2>2 DEF Toasts!Init, ToastsTyped, Toasts!NoPoll
<1>2. ASSUME NEW r \in Reminders PROVE Fine(r)
  <2>1. ~InHand(r) /\ ~Late(r)
    BY DEF Toasts!Init, Toasts!NoPoll, InHand, Late, Toasts!notified_ids
  <2>2. told[r] = 0 /\ row[r].name = 0 /\ r \notin slipped
    BY DEF Toasts!Init
  <2> QED
    BY <2>1, <2>2 DEF Fine, Named, Once, Unmarked, InTime, Count
<1> QED
  BY <1>1, <1>2 DEF ToastsInv

(* A poll selects what is due and not marked. *)
LEMMA PlanStep == ASSUME Toasts!Bounds, ToastsInv, Toasts!plan PROVE ToastsInv'
<1> USE DEF Toasts!plan
<1>1. ToastsTyped'
  <2>1. \A rs : rs \subseteq Reminders => Toasts!As(rs) \subseteq Toasts!Seen
    BY DEF Toasts!As, Toasts!Seen, ToastsInv, ToastsTyped, Toasts!Row
  <2> QED
    BY <2>1 DEF ToastsInv, ToastsTyped, Toasts!Alerts, Toasts!due_unnotified
<1>2. ASSUME NEW r \in Reminders PROVE Fine(r)'
  <2>1. Fine(r) /\ ~InHand(r) /\ ~Late(r) /\ told[r] \in Nat /\ row[r] \in Toasts!Row
    BY <1>2 DEF Late, ToastsInv, ToastsTyped, Toasts!NoPoll, InHand, Toasts!notified_ids
  <2>2. \A s \in Toasts!notified_ids' : s.r \in Toasts!Alerts /\ s.name = row[s.r].name
    BY DEF Toasts!notified_ids, Toasts!As
  <2>3. ~Late(r)'
    BY <2>2 DEF Late
  <2>4. CASE InHand(r)'
    <3>1. r \in Toasts!Alerts
      BY <2>2, <2>4 DEF InHand
    <3>2. ~row[r].notified /\ Toasts!notify_at(row[r]) <= now
      BY <3>1 DEF Toasts!Alerts, Toasts!due_unnotified
    <3>3. told[r] <= Count(r \in slipped)
      BY <2>1, <3>2 DEF Fine, Unmarked, Count
    <3> QED
      BY <2>1, <2>3, <2>4, <3>2, <3>3 DEF Fine, Named, Once, Unmarked, InTime, Count,
         Toasts!Row, Toasts!notify_at
  <2>5. CASE ~InHand(r)'
    <3>1. /\ told[r] <= 1 + Count(r \in slipped)
          /\ ~row[r].notified => told[r] <= Count(r \in slipped)
      BY <2>1 DEF Fine, Once, Unmarked, Count
    <3> QED
      BY <2>1, <2>3, <2>5, <3>1 DEF Fine, Named, Once, Unmarked, InTime, Count, Toasts!Row,
         Toasts!notify_at
  <2> QED
    BY <2>4, <2>5
<1> QED
  BY <1>1, <1>2 DEF ToastsInv

(* The second statement marks by name what was selected. *)
LEMMA MarkStep == ASSUME Toasts!Bounds, ToastsInv, Toasts!mark_notified PROVE ToastsInv'
<1> DEFINE Hit(r) == [r |-> r, name |-> row[r].name] \in Toasts!notified_ids
<1> USE DEF Toasts!mark_notified, Toasts!history
<1>1. ASSUME NEW r \in Reminders
      PROVE  row'[r] = IF Hit(r) THEN [row[r] EXCEPT !.notified = TRUE] ELSE row[r]
  OBVIOUS
<1>2. Toasts!notified_ids' = Toasts!notified_ids /\ poll'.stage = "reply"
  BY DEF ToastsInv, ToastsTyped, Toasts!notified_ids
<1>3. ToastsTyped'
  <2>1. row' \in [Reminders -> Toasts!Row]
    BY DEF ToastsInv, ToastsTyped, Toasts!Row
  <2> QED
    BY <1>2, <2>1 DEF ToastsInv, ToastsTyped
<1>4. ASSUME NEW r \in Reminders PROVE Fine(r)'
  <2>1. Fine(r) /\ row[r] \in Toasts!Row /\ told[r] \in Nat
    BY DEF ToastsInv, ToastsTyped
  <2>2. /\ row'[r].name = row[r].name /\ row'[r].due = row[r].due
        /\ row'[r].all_day = row[r].all_day
        /\ row'[r].notified = (Hit(r) \/ row[r].notified)
    BY <1>1, <2>1 DEF Toasts!Row
  <2>3. InHand(r)' <=> InHand(r)
    BY <1>2 DEF InHand
  <2>4. Named(r)' /\ Once(r)' /\ InTime(r)'
    <3>1. told' = told /\ slipped' = slipped /\ moved' = moved /\ now' = now
      OBVIOUS
    <3>2. Toasts!notify_at(row'[r]) = Toasts!notify_at(row[r])
      BY <2>2 DEF Toasts!notify_at
    <3>3. Count(InHand(r))' = Count(InHand(r))
      BY <2>3 DEF Count
    <3>4. Named(r)'
      BY <2>1, <2>2, <3>1 DEF Fine, Named
    <3>5. Once(r)'
      BY <2>1, <2>2, <3>1, <3>3 DEF Fine, Once
    <3>6. InTime(r)'
      BY <2>1, <2>3, <3>1, <3>2 DEF Fine, InTime
    <3> QED
      BY <3>4, <3>5, <3>6
  <2>5. Unmarked(r)'
    <3> SUFFICES ASSUME ~Hit(r), ~row[r].notified
                 PROVE  told[r] + Count(Late(r)') <= Count(r \in slipped)
      BY <2>2 DEF Unmarked
    <3>1. ASSUME NEW s \in Toasts!notified_ids, s.r = r PROVE s.name # row[r].name
      <4>1. s \in Toasts!Seen
        BY DEF ToastsInv, ToastsTyped, Toasts!notified_ids
      <4>2. s = [r |-> r, name |-> s.name]
        BY <3>1, <4>1 DEF Toasts!Seen
      <4> QED
        BY <4>2
    <3>2. Late(r)' => Late(r)
      BY <1>2, <3>1 DEF Late
    <3> QED
      BY <2>1, <3>2 DEF Fine, Unmarked, Count, Toasts!Row
  <2> QED
    BY <2>4, <2>5 DEF Fine
<1> QED
  BY <1>3, <1>4 DEF ToastsInv

(* The answer tells what was selected, once. *)
LEMMA ReplyStep == ASSUME Toasts!Bounds, ToastsInv, Toasts!Reply PROVE ToastsInv'
<1> USE DEF Toasts!Reply
<1>1. ToastsTyped'
  BY DEF ToastsInv, ToastsTyped, Toasts!NoPoll
<1>2. ASSUME NEW r \in Reminders PROVE Fine(r)'
  <2>1. Fine(r) /\ row[r] \in Toasts!Row /\ told[r] \in Nat
    BY DEF ToastsInv, ToastsTyped
  <2>2. ~InHand(r)' /\ ~Late(r)'
    BY DEF InHand, Late, Toasts!notified_ids, Toasts!NoPoll
  <2>3. told'[r] = told[r] + Count(InHand(r)) /\ (InHand(r) => Late(r))
    BY <2>1 DEF ToastsInv, ToastsTyped, InHand, Late, Count
  <2>4. InTime(r)'
    BY <2>2 DEF InTime
  <2> QED
    BY <2>1, <2>2, <2>3, <2>4 DEF Fine, Named, Once, Unmarked, Count, Toasts!Row
<1> QED
  BY <1>1, <1>2 DEF ToastsInv

(* An edit leaves marks and names as they are; the date may move. *)
LEMMA EditStep ==
  ASSUME Toasts!Bounds, ToastsInv, NEW q \in Reminders, Toasts!Edit(q)
  PROVE  ToastsInv'
<1>1. /\ edits' = edits + 1
      /\ UNCHANGED <<now, poll, renames, told, slipped>>
      /\ moved' = IF poll.stage = "none" THEN moved ELSE moved \cup {q}
  BY DEF Toasts!Edit
<1>2. PICK change \in Toasts!Row :
        /\ row' = [row EXCEPT ![q] = change]
        /\ change.name = row[q].name /\ change.notified = row[q].notified
  <2>1. row[q] \in Toasts!Row
    BY DEF ToastsInv, ToastsTyped
  <2>2. 0..LastTick \subseteq Nat
    OBVIOUS
  <2>3. ASSUME NEW given \in Nat, NEW all_day \in BOOLEAN
        PROVE  /\ [row[q] EXCEPT !.due = given, !.all_day = all_day] \in Toasts!Row
               /\ [row[q] EXCEPT !.due = given, !.all_day = all_day].name = row[q].name
               /\ [row[q] EXCEPT !.due = given, !.all_day = all_day].notified = row[q].notified
    BY <2>1 DEF Toasts!Row
  <2>4. /\ [row[q] EXCEPT !.open = ~row[q].open] \in Toasts!Row
        /\ [row[q] EXCEPT !.open = ~row[q].open].name = row[q].name
        /\ [row[q] EXCEPT !.open = ~row[q].open].notified = row[q].notified
    BY <2>1 DEF Toasts!Row
  <2>5. CASE \E given \in 0..LastTick, all_day \in BOOLEAN :
               Toasts!apply_local_edit(q, [row[q] EXCEPT !.due = given, !.all_day = all_day])
    BY <2>2, <2>3, <2>5 DEF Toasts!apply_local_edit
  <2>6. CASE Toasts!apply_local_edit(q, [row[q] EXCEPT !.open = ~row[q].open])
    BY <2>4, <2>6 DEF Toasts!apply_local_edit
  <2> QED
    BY <2>5, <2>6 DEF Toasts!Edit
<1>3. ToastsTyped'
  <2>1. row' \in [Reminders -> Toasts!Row]
    BY <1>2 DEF ToastsInv, ToastsTyped
  <2> QED
    BY <1>1, <2>1 DEF ToastsInv, ToastsTyped
<1>4. ASSUME NEW r \in Reminders PROVE Fine(r)'
  <2>1. /\ Fine(r) /\ row'[r].name = row[r].name /\ row'[r].notified = row[r].notified
        /\ r # q => row'[r] = row[r]
    BY <1>2 DEF ToastsInv, ToastsTyped
  <2>2. (InHand(r)' <=> InHand(r)) /\ (Late(r)' <=> Late(r))
    BY <1>1, <2>1 DEF InHand, Late, Toasts!notified_ids
  <2>3. InHand(r) => poll.stage # "none"
    BY DEF ToastsInv, ToastsTyped, InHand, Toasts!notified_ids, Toasts!NoPoll
  <2>4. InTime(r)'
    <3>1. CASE r = q
      BY <1>1, <2>2, <2>3, <3>1 DEF InTime
    <3>2. CASE r # q
      BY <1>1, <2>1, <2>2, <3>2 DEF Fine, InTime, Toasts!notify_at
    <3> QED
      BY <3>1, <3>2
  <2>5. Named(r)' /\ Once(r)'
    BY <1>1, <2>1, <2>2 DEF Fine, Named, Once, Count
  <2>6. Unmarked(r)'
    BY <1>1, <2>1, <2>2 DEF Fine, Unmarked, Count
  <2> QED
    BY <2>4, <2>5, <2>6 DEF Fine
<1> QED
  BY <1>3, <1>4 DEF ToastsInv

(* A new name may come between selecting and marking, once. *)
LEMMA RenameStep ==
  ASSUME Toasts!Bounds, ToastsInv, NEW q \in Reminders, Toasts!replace_id(q)
  PROVE  ToastsInv'
<1> USE DEF Toasts!replace_id
<1>1. ToastsTyped'
  BY DEF ToastsInv, ToastsTyped, Toasts!Row
<1>2. ASSUME NEW r \in Reminders PROVE Fine(r)'
  <2>1. Fine(r) /\ row[r] \in Toasts!Row /\ told[r] \in Nat
    BY DEF ToastsInv, ToastsTyped
  <2>2. InHand(r)' <=> InHand(r)
    BY DEF InHand, Toasts!notified_ids
  <2>3. CASE r # q
    <3>1. row'[r] = row[r] /\ (r \in slipped' <=> r \in slipped)
      BY <2>3 DEF ToastsInv, ToastsTyped
    <3>2. Late(r)' <=> Late(r)
      BY <3>1 DEF Late, Toasts!notified_ids
    <3> QED
      <4>1. Named(r)' /\ Once(r)'
        BY <2>1, <2>2, <3>1 DEF Fine, Named, Once, Count
      <4>2. Unmarked(r)'
        BY <2>1, <3>1, <3>2 DEF Fine, Unmarked, Count
      <4>3. InTime(r)'
        BY <2>1, <2>2, <3>1 DEF Fine, InTime
      <4> QED
        BY <4>1, <4>2, <4>3 DEF Fine
  <2>4. CASE r = q
    <3>1. row'[r] = [row[r] EXCEPT !.name = 1] /\ row[r].name = 0
      BY <2>4 DEF ToastsInv, ToastsTyped
    <3>2. /\ row'[r].name = 1 /\ row'[r].notified = row[r].notified
          /\ Toasts!notify_at(row'[r]) = Toasts!notify_at(row[r])
      BY <2>1, <3>1 DEF Toasts!Row, Toasts!notify_at
    <3>3. r \notin slipped /\ told[r] + Count(InHand(r)) <= 1
      BY <2>1, <3>1 DEF Fine, Named, Once, Count
    <3>4. r \in slipped' <=> poll.stage = "mark" /\ InHand(r)
      BY <2>4, <3>3 DEF InHand
    <3>5. Named(r)' /\ Once(r)' /\ InTime(r)'
      BY <2>1, <2>2, <3>2, <3>3 DEF Fine, Named, Once, InTime, Count
    <3>6. Unmarked(r)'
      <4>1. CASE poll.stage = "mark" /\ InHand(r)
        <5>1. told[r] = 0 /\ r \in slipped'
          BY <2>1, <3>3, <3>4, <4>1 DEF Count
        <5> QED
          BY <5>1 DEF Unmarked, Count
      <4>2. CASE ~(poll.stage = "mark" /\ InHand(r))
        <5>1. Late(r)' => Late(r)
          BY <4>2 DEF Late, InHand, ToastsInv, ToastsTyped, Toasts!notified_ids, Toasts!NoPoll
        <5> QED
          BY <2>1, <3>2, <3>3, <3>4, <4>2, <5>1 DEF Fine, Unmarked, Count
      <4> QED
        BY <4>1, <4>2
    <3> QED
      BY <3>5, <3>6 DEF Fine
  <2> QED
    BY <2>3, <2>4
<1> QED
  BY <1>1, <1>2 DEF ToastsInv

(* What leaves the rows alone and forgets the poll at most. *)
LEMMA OtherStep ==
  ASSUME Toasts!Bounds, ToastsInv,
         Toasts!Tick \/ Toasts!set_settings \/ Toasts!Crash \/ UNCHANGED Toasts!vars
  PROVE  ToastsInv'
<1>1. /\ row' = row /\ told' = told /\ edits' = edits /\ renames' = renames
      /\ slipped' = slipped /\ now' \in {now, now + 1}
      /\ \/ poll' = poll /\ moved' = moved
         \/ poll' = Toasts!NoPoll /\ moved' = {}
  BY DEF Toasts!history, Toasts!Tick, Toasts!set_settings, Toasts!Crash, Toasts!vars
<1>2. ToastsTyped'
  BY <1>1 DEF ToastsInv, ToastsTyped, Toasts!NoPoll
<1>3. ASSUME NEW r \in Reminders PROVE Fine(r)'
  <2>1. Fine(r) /\ row[r] \in Toasts!Row /\ told[r] \in Nat /\ now \in Nat
    BY DEF ToastsInv, ToastsTyped
  <2>2. (InHand(r)' => InHand(r)) /\ (Late(r)' => Late(r))
    BY <1>1 DEF InHand, Late, Toasts!notified_ids, Toasts!NoPoll
  <2>3. Toasts!notify_at(row[r]) \in Nat
    BY <2>1 DEF Toasts!notify_at, Toasts!Row, Toasts!Bounds
  <2>4. InTime(r)'
    <3>1. CASE poll' = poll /\ moved' = moved
      BY <1>1, <2>1, <2>2, <2>3, <3>1 DEF Fine, InTime
    <3>2. CASE poll' = Toasts!NoPoll
      BY <3>2 DEF InTime, InHand, Toasts!notified_ids, Toasts!NoPoll
    <3> QED
      BY <1>1, <3>1, <3>2
  <2> QED
    BY <1>1, <2>1, <2>2, <2>4 DEF Fine, Named, Once, Unmarked, Count, Toasts!Row
<1> QED
  BY <1>2, <1>3 DEF ToastsInv

(* Every step of the notifications keeps the count. *)
LEMMA ToastsStep == ASSUME Toasts!Bounds, ToastsInv, [Toasts!Next]_Toasts!vars PROVE ToastsInv'
<1>1. CASE Toasts!PollStep
  BY <1>1, PlanStep, MarkStep, ReplyStep DEF Toasts!PollStep
<1>2. ASSUME NEW r \in Reminders, Toasts!Edit(r) \/ Toasts!replace_id(r) PROVE ToastsInv'
  BY <1>2, EditStep, RenameStep
<1>3. CASE Toasts!Tick \/ Toasts!set_settings \/ Toasts!Crash \/ UNCHANGED Toasts!vars
  BY <1>3, OtherStep
<1> QED
  BY <1>1, <1>2, <1>3 DEF Toasts!Next

(* For any number of reminders, edits, crashes and polls: a reminder is told*)
(* of once, whenever it is renamed, and once more only if it got its name   *)
(* between the two statements of a call that had found it; and no call has  *)
(* one in hand before its alert that the user has not moved since           *)
(* (notifications.rs, plan; cache.rs, mark_notified).                       *)
THEOREM NoneToldTwice == Toasts!Spec => []ToldOnceInTime
<1>1. Toasts!Init => ToastsInv
  BY ToastsInit, PartsAssumption
<1>2. ToastsInv /\ [Toasts!Next]_Toasts!vars => ToastsInv'
  BY ToastsStep, PartsAssumption
<1>3. ToastsInv => ToldOnceInTime
  <2> SUFFICES ASSUME ToastsInv PROVE ToldOnceInTime
    OBVIOUS
  <2>1. ASSUME NEW r \in Reminders PROVE told[r] <= IF r \in slipped THEN 2 ELSE 1
    <3>1. Fine(r) /\ told[r] \in Nat
      BY DEF ToastsInv, ToastsTyped
    <3> QED
      BY <3>1 DEF Fine, Once, Count
  <2>2. ASSUME NEW s \in Toasts!notified_ids
        PROVE  s.r \in moved \/ Toasts!notify_at(row[s.r]) <= now
    <3>1. s.r \in Reminders
      BY DEF ToastsInv, ToastsTyped, Toasts!notified_ids, Toasts!Seen
    <3>2. Fine(s.r) /\ InHand(s.r)
      BY <3>1 DEF ToastsInv, InHand
    <3> QED
      BY <3>2 DEF Fine, InTime
  <2> QED
    BY <2>1, <2>2 DEF ToldOnceInTime, Toasts!ToldOnceInTime
<1> QED
  BY <1>1, <1>2, <1>3, PTL DEF Toasts!Spec

-----------------------------------------------------------------------------
(* The due dates. *)

(* The least element of a set of integers that has one. *)
LEMMA MinIs ==
  ASSUME NEW S \in SUBSET Int, NEW m \in S, \A i \in S : m <= i
  PROVE  Dates!Min(S) = m
<1>1. \A n \in S : (\A i \in S : n <= i) => n = m
  BY SMT
<1> QED
  BY <1>1 DEF Dates!Min

(* How many elements none and one are. *)
LEMMA OneMember ==
  ASSUME NEW e PROVE Dates!Cardinality({e}) = 1 /\ Dates!Cardinality({}) = 0
<1>1. \A S : Dates!Cardinality(S) = Cardinality(S)
  BY DEF Dates!Cardinality, Cardinality, IsFiniteSet, Dates!IsFiniteSet
<1> QED
  BY <1>1, FS_EmptySet, FS_Singleton

(* When a zone's clock shows a time: once, twice, or never. *)
LEMMA Occurrences ==
  ASSUME Dates!Bounds, NEW zone \in Zones, NEW wall \in Int
  PROVE  /\ Dates!from_local(zone, wall) \subseteq Int
         /\ \A i : i \in Dates!from_local(zone, wall) <=>
              \/ wall < zone.switch + zone.before /\ i = wall - zone.before
              \/ wall >= zone.switch + zone.after /\ i = wall - zone.after
BY DEF Dates!Bounds, Dates!from_local, Dates!naive_local, Dates!Offset

(* The instant of a clock time: by the earlier offset as long as that is in *)
(* force, by the later one afterwards, and else the end of the gap.         *)
LEMMA AnchorIs ==
  ASSUME Dates!Bounds, NEW zone \in Zones, NEW wall \in Int
  PROVE  Dates!anchor(zone, wall) =
           IF wall < zone.switch + zone.before THEN wall - zone.before
           ELSE IF wall < zone.switch + zone.after THEN zone.switch
           ELSE wall - zone.after
<1> DEFINE showing == Dates!from_local(zone, wall)
           gaps == {d \in 1..GapSearch :
                      Dates!Cardinality(Dates!from_local(zone, wall + d)) = 1}
<1>1. /\ zone.switch \in Int /\ zone.before \in Int /\ zone.after \in Int
      /\ zone.after - zone.before <= GapSearch /\ GapSearch \in Nat
  BY DEF Dates!Bounds
<1>2. Dates!anchor(zone, wall) =
        IF showing # {} THEN Dates!Min(showing)
        ELSE IF gaps # {} THEN CHOOSE i \in Dates!from_local(zone, wall + Dates!Min(gaps)) : TRUE
        ELSE wall
  BY DEF Dates!anchor
<1>3. /\ showing \subseteq Int
      /\ \A i : i \in showing <=>
           \/ wall < zone.switch + zone.before /\ i = wall - zone.before
           \/ wall >= zone.switch + zone.after /\ i = wall - zone.after
  BY Occurrences
<1>4. CASE wall < zone.switch + zone.before
  <2>1. wall - zone.before \in showing /\ \A i \in showing : wall - zone.before <= i
    BY <1>1, <1>3, <1>4
  <2>2. Dates!Min(showing) = wall - zone.before
    BY <1>3, <2>1, MinIs
  <2> QED
    BY <1>2, <1>4, <2>1, <2>2
<1>5. CASE wall >= zone.switch + zone.before /\ wall >= zone.switch + zone.after
  <2>1. wall - zone.after \in showing /\ \A i \in showing : wall - zone.after <= i
    BY <1>1, <1>3, <1>5
  <2>2. Dates!Min(showing) = wall - zone.after
    BY <1>3, <2>1, MinIs
  <2> QED
    BY <1>1, <1>2, <1>5, <2>1, <2>2
<1>6. CASE wall >= zone.switch + zone.before /\ wall < zone.switch + zone.after
  <2> DEFINE n == zone.switch + zone.after - wall
  <2>1. showing = {}
    BY <1>1, <1>3, <1>6
  <2>2. n \in 1..GapSearch /\ wall + n \in Int /\ wall + n = zone.switch + zone.after
    BY <1>1, <1>6
  <2>3. Dates!from_local(zone, wall + n) = {zone.switch}
    <3>1. \A i : i \in Dates!from_local(zone, wall + n) <=> i = zone.switch
      BY <1>1, <1>6, <2>2, Occurrences
    <3> QED
      BY <3>1
  <2>4. ASSUME NEW d \in 1..GapSearch, d < n
        PROVE  Dates!from_local(zone, wall + d) = {}
    <3>1. wall + d \in Int
      BY <1>1
    <3>2. \A i : i \notin Dates!from_local(zone, wall + d)
      BY <1>1, <1>6, <2>4, <3>1, Occurrences
    <3> QED
      BY <3>2
  <2>5. n \in gaps
    BY <2>2, <2>3, OneMember
  <2>6. \A d \in gaps : n <= d
    <3>1. \A d \in 1..GapSearch : d < n => d \notin gaps
      <4> SUFFICES ASSUME NEW d \in 1..GapSearch, d < n PROVE d \notin gaps
        OBVIOUS
      <4>1. Dates!Cardinality(Dates!from_local(zone, wall + d)) = 0
        BY <2>4, OneMember
      <4> QED
        BY <4>1
    <3> QED
      BY <1>1, <2>2, <3>1
  <2>7. Dates!Min(gaps) = n
    <3>1. gaps \in SUBSET Int
      BY <1>1
    <3> HIDE DEF gaps, n
    <3> QED
      BY <2>5, <2>6, <3>1, MinIs
  <2>8. Dates!anchor(zone, wall) = CHOOSE i \in {zone.switch} : TRUE
    <3> HIDE DEF gaps, n
    <3> QED
      BY <1>2, <2>1, <2>3, <2>5, <2>7
  <2> QED
    BY <1>1, <1>6, <2>8
<1> QED
  BY <1>1, <1>4, <1>5, <1>6

(* The division of time into days. *)
LEMMA DivMod ==
  ASSUME NEW L \in Nat \ {0}, NEW w \in Int
  PROVE  (w \div L) \in Int /\ (w \div L) * L <= w /\ w < (w \div L) * L + L
<1>1. (w \div L) \in Int
  OBVIOUS
<1>2. L * (w \div L) <= w /\ w < L * ((w \div L) + 1)
  BY SMT
<1>3. \A d \in Int : L * d = d * L /\ L * (d + 1) = d * L + L
  BY SMT
<1> QED
  BY <1>1, <1>2, <1>3

(* A day later starts a whole day later. *)
LEMMA DayAfterDay ==
  ASSUME NEW L \in Nat \ {0}, NEW d \in Int, NEW e \in Int, d < e
  PROVE  d * L + L <= e * L
<1>1. PICK n \in Nat : e = d + 1 + n
  <2>1. e - d - 1 \in Nat /\ e = d + 1 + (e - d - 1)
    OBVIOUS
  <2> QED
    BY <2>1
<1>2. e * L = d * L + L + n * L
  BY <1>1
<1>3. n * L \in Nat /\ d * L \in Int /\ e * L \in Int
  OBVIOUS
<1> QED
  BY <1>2, <1>3

(* The clock time at which a day begins. *)
Midnight(day) == day * DayLength

(* A clock time is on a day, within its midnight and the next. *)
LEMMA DayOfTime ==
  ASSUME Dates!Bounds, NEW w \in Int
  PROVE  /\ Dates!DayOf(w) \in Int /\ Midnight(Dates!DayOf(w)) \in Int
         /\ Midnight(Dates!DayOf(w)) <= w /\ w < Midnight(Dates!DayOf(w)) + DayLength
<1>1. DayLength \in Nat \ {0}
  BY DEF Dates!Bounds
<1>2. \A d \in Int : d * DayLength \in Int
  BY <1>1
<1> QED
  BY <1>1, <1>2, DivMod DEF Dates!DayOf, Midnight

(* The day a clock time is on, from its midnight. *)
LEMMA OneDay ==
  ASSUME Dates!Bounds, NEW day \in Int, NEW w \in Int,
         Midnight(day) <= w, w < Midnight(day) + DayLength
  PROVE  Dates!DayOf(w) = day
<1> DEFINE other == Dates!DayOf(w)
<1>1. DayLength \in Nat \ {0}
  BY DEF Dates!Bounds
<1>2. \A d \in Int : Midnight(d) \in Int
  BY <1>1 DEF Midnight
<1>3. other \in Int /\ Midnight(other) <= w /\ w < Midnight(other) + DayLength
  BY DayOfTime
<1> HIDE DEF other
<1>4. \A d, e \in Int : d < e => Midnight(d) + DayLength <= Midnight(e)
  BY <1>1, DayAfterDay DEF Midnight
<1>5. ~(other < day)
  <2>1. other < day => Midnight(other) + DayLength <= Midnight(day)
    BY <1>3, <1>4
  <2> QED
    BY <1>1, <1>2, <1>3, <2>1
<1>6. ~(day < other)
  <2>1. day < other => Midnight(day) + DayLength <= Midnight(other)
    BY <1>3, <1>4
  <2> QED
    BY <1>1, <1>2, <1>3, <2>1
<1>7. other = day
  BY <1>3, <1>5, <1>6
<1> QED
  BY <1>7 DEF other

(* Anchoring a clock time: when the clock shows it, or the first time after *)
(* the gap it is in.  Nothing that shows as much or more comes before.      *)
LEMMA AnchorShows ==
  ASSUME Dates!Bounds, NEW zone \in Zones, NEW wall \in Int
  PROVE  LET i == Dates!anchor(zone, wall)
             back == Dates!naive_local(zone, i)
         IN /\ i \in Int /\ back \in Int
            /\ wall <= back /\ back <= wall + GapSearch
            /\ \A w \in wall..back - 1 : Dates!from_local(zone, w) = {}
            /\ \A j \in Int : Dates!naive_local(zone, j) >= wall
                 => i <= j /\ back <= Dates!naive_local(zone, j)
<1> DEFINE i == Dates!anchor(zone, wall)
           back == Dates!naive_local(zone, i)
<1>1. /\ zone.switch \in Int /\ zone.before \in Int /\ zone.after \in Int
      /\ zone.after - zone.before <= GapSearch /\ GapSearch \in Nat
  BY DEF Dates!Bounds
<1>2. i = IF wall < zone.switch + zone.before THEN wall - zone.before
          ELSE IF wall < zone.switch + zone.after THEN zone.switch
          ELSE wall - zone.after
  BY AnchorIs
<1>3. \A j : Dates!naive_local(zone, j) =
              IF j < zone.switch THEN j + zone.before ELSE j + zone.after
  BY DEF Dates!naive_local, Dates!Offset
<1>4. back = IF i < zone.switch THEN i + zone.before ELSE i + zone.after
  BY <1>3
<1> HIDE DEF i, back
<1>5. i \in Int /\ back \in Int /\ wall <= back /\ back <= wall + GapSearch
  BY <1>1, <1>2, <1>4
<1>6. ASSUME NEW w \in wall..back - 1 PROVE Dates!from_local(zone, w) = {}
  <2>1. w \in Int /\ wall <= w /\ w < back
    BY <1>5
  <2>2. wall >= zone.switch + zone.before /\ back = zone.switch + zone.after
    BY <1>1, <1>2, <1>4, <1>5, <2>1
  <2>3. \A e : e \notin Dates!from_local(zone, w)
    BY <1>1, <2>1, <2>2, Occurrences
  <2> QED
    BY <2>3
<1>7. ASSUME NEW j \in Int, Dates!naive_local(zone, j) >= wall
      PROVE  i <= j /\ back <= Dates!naive_local(zone, j)
  <2> DEFINE n == Dates!naive_local(zone, j)
  <2>1. n = IF j < zone.switch THEN j + zone.before ELSE j + zone.after
    BY <1>3
  <2>2. n >= wall
    BY <1>7
  <2> HIDE DEF n
  <2>3. i <= j /\ back <= n
    BY <1>1, <1>2, <1>4, <2>1, <2>2
  <2> QED
    BY <2>3 DEF n
<1>8. /\ i \in Int /\ back \in Int /\ wall <= back /\ back <= wall + GapSearch
      /\ \A w \in wall..back - 1 : Dates!from_local(zone, w) = {}
      /\ \A j \in Int : Dates!naive_local(zone, j) >= wall
           => i <= j /\ back <= Dates!naive_local(zone, j)
  BY <1>5, <1>6, <1>7
<1> QED
  BY <1>8 DEF i, back

(* Where a time is shown, it is anchored there or at an earlier showing.    *)
LEMMA AnchorBack ==
  ASSUME Dates!Bounds, NEW zone \in Zones, NEW i \in Int
  PROVE  LET j == Dates!anchor(zone, Dates!naive_local(zone, i)) IN
         j \in Int /\ (j = i \/ (j < i /\ Dates!Repeated(zone, i)))
<1> DEFINE wall == Dates!naive_local(zone, i)
           j == Dates!anchor(zone, wall)
<1>1. wall \in Int
  BY DEF Dates!Bounds, Dates!naive_local, Dates!Offset
<1> HIDE DEF wall
<1>2. j \in Int /\ Dates!naive_local(zone, j) \in Int
      /\ wall <= Dates!naive_local(zone, j)
      /\ \A m \in Int : Dates!naive_local(zone, m) >= wall
           => j <= m /\ Dates!naive_local(zone, j) <= Dates!naive_local(zone, m)
  BY <1>1, AnchorShows
<1>3. Dates!naive_local(zone, i) >= wall /\ Dates!naive_local(zone, i) = wall
  BY <1>1 DEF wall
<1>4. j <= i /\ Dates!naive_local(zone, j) = wall
  BY <1>1, <1>2, <1>3
<1> HIDE DEF j
<1>5. j \in Dates!from_local(zone, wall)
  <2>1. zone.before \in Int /\ zone.after \in Int
    BY DEF Dates!Bounds
  <2>2. j = wall - zone.before \/ j = wall - zone.after
    BY <1>1, <1>2, <1>4, <2>1 DEF Dates!naive_local, Dates!Offset
  <2> QED
    BY <1>4, <2>2 DEF Dates!from_local
<1>6. j < i => Dates!Repeated(zone, i)
  BY <1>5 DEF Dates!Repeated, wall
<1>7. j \in Int /\ (j = i \/ (j < i /\ Dates!Repeated(zone, i)))
  BY <1>2, <1>4, <1>6
<1> QED
  BY <1>7 DEF j, wall

(* Turning a date into one of a whole day keeps it on the day of this PC.   *)
LEMMA DayKept ==
  ASSUME Dates!Bounds, local_zone \in Zones, NEW i \in Int
  PROVE  LET start == Dates!DayStart(Dates!LocalDay(i)) IN
         start \in Int /\ start <= i /\ Dates!LocalDay(start) = Dates!LocalDay(i)
<1> DEFINE shown_at == Dates!naive_local(local_zone, i)
           day == Dates!LocalDay(i)
           start == Dates!DayStart(day)
           back == Dates!naive_local(local_zone, start)
<1>1. shown_at \in Int /\ DayLength \in Nat
  BY DEF Dates!Bounds, Dates!naive_local, Dates!Offset
<1>2. day = Dates!DayOf(shown_at)
  BY DEF Dates!LocalDay
<1>3. start = Dates!anchor(local_zone, Midnight(day))
  BY DEF Dates!DayStart, Midnight
<1> HIDE DEF day, start, shown_at
<1>4. /\ day \in Int /\ Midnight(day) \in Int
      /\ Midnight(day) <= shown_at /\ shown_at < Midnight(day) + DayLength
  BY <1>1, <1>2, DayOfTime
<1>5. /\ start \in Int /\ back \in Int /\ Midnight(day) <= back
      /\ start <= i /\ back <= shown_at
  BY <1>1, <1>3, <1>4, AnchorShows DEF shown_at
<1>6. Dates!DayOf(back) = day
  <2> HIDE DEF back
  <2> QED
    BY <1>1, <1>4, <1>5, OneDay
<1>7. Dates!LocalDay(start) = day
  BY <1>6 DEF Dates!LocalDay
<1>8. start \in Int /\ start <= i /\ Dates!LocalDay(start) = day
  BY <1>5, <1>7
<1> QED
  BY <1>8 DEF start, day

(* The types; what iCloud has is what it shows; what waits to be uploaded   *)
(* for a whole day is the start of that day.                                *)
DatesTyped ==
  /\ local_zone \in Zones /\ due \in Int /\ allDay \in BOOLEAN /\ dirty \in BOOLEAN
  /\ record \in [due : Int, zone : Zones \cup {Floating}, allDay : BOOLEAN]
DatesInv ==
  /\ DatesTyped
  /\ ~dirty => due = Dates!Shown(record)
  /\ dirty /\ allDay => due = Dates!DayStart(Dates!LocalDay(due))

(* A record is read on some clock, and as a time. *)
LEMMA ShownTyped ==
  ASSUME Dates!Bounds, local_zone \in Zones,
         NEW r \in [due : Int, zone : Zones \cup {Floating}, allDay : BOOLEAN]
  PROVE  /\ Dates!named_zone(r.zone) \in Zones /\ Dates!Shown(r) \in Int
         /\ Dates!Shown(r) = Dates!anchor(Dates!named_zone(r.zone), r.due)
<1>1. Dates!named_zone(r.zone) \in Zones /\ r.due \in Int
  BY DEF Dates!named_zone
<1>2. Dates!Shown(r) = Dates!anchor(Dates!named_zone(r.zone), r.due)
  BY DEF Dates!Shown, Dates!floating_millis_to_instant
<1> HIDE DEF Dates!named_zone
<1> QED
  BY <1>1, <1>2, AnchorShows

(* A downloaded date is what its record shows. *)
LEMMA DatesStart == Dates!Init => DatesInv
<1> SUFFICES ASSUME Dates!Init PROVE DatesInv
  OBVIOUS
<1>1. Dates!Bounds
  BY PartsAssumption
<1>2. record \in [due : Int, zone : Zones \cup {Floating}, allDay : BOOLEAN]
  BY <1>1 DEF Dates!Init, Dates!Walls, Dates!Bounds
<1>3. local_zone \in Zones /\ due = Dates!Shown(record) /\ allDay = record.allDay /\ dirty = FALSE
  BY DEF Dates!Init
<1>4. due \in Int
  BY <1>1, <1>2, <1>3, ShownTyped
<1> QED
  BY <1>2, <1>3, <1>4 DEF DatesInv, DatesTyped

(* A date set here: at an instant, or at what the clock here shows.         *)
LEMMA DateSet ==
  ASSUME DatesInv, NEW given \in Int, NEW all_day \in BOOLEAN,
         due' = Dates!normalize_due(given, all_day),
         allDay' = all_day, dirty' = TRUE, UNCHANGED <<local_zone, record>>
  PROVE  DatesInv'
<1>1. Dates!Bounds /\ local_zone \in Zones
  BY PartsAssumption DEF DatesInv, DatesTyped
<1> DEFINE start == Dates!DayStart(Dates!LocalDay(given))
<1>2. start \in Int /\ Dates!LocalDay(start) = Dates!LocalDay(given)
  BY <1>1, DayKept
<1>3. due' = IF all_day THEN start ELSE given
  BY DEF Dates!normalize_due
<1>4. due' \in Int
  BY <1>2, <1>3
<1>5. all_day => due' = (Dates!DayStart(Dates!LocalDay(due)))'
  <2>1. local_zone' = local_zone
    OBVIOUS
  <2>2. all_day => due' = Dates!anchor(local_zone,
                            Dates!DayOf(Dates!naive_local(local_zone, due')) * DayLength)
    BY <1>2, <1>3 DEF Dates!DayStart, Dates!LocalDay
  <2> QED
    BY <2>1, <2>2 DEF Dates!DayStart, Dates!LocalDay
<1> QED
  BY <1>4, <1>5 DEF DatesInv, DatesTyped

(* Each step keeps it: an upload and a download show what the record says.  *)
LEMMA DatesStep == DatesInv /\ [Dates!Next]_Dates!vars => DatesInv'
<1> SUFFICES ASSUME DatesInv, [Dates!Next]_Dates!vars PROVE DatesInv'
  OBVIOUS
<1>1. Dates!Bounds /\ local_zone \in Zones /\ due \in Int
  BY PartsAssumption DEF DatesInv, DatesTyped
<1>2. ASSUME NEW all_day \in BOOLEAN, Dates!update_due(all_day) PROVE DatesInv'
  <2>1. \A w \in Dates!Walls : w \in Int /\ Dates!anchor(local_zone, w) \in Int
    <3>1. \A w \in Dates!Walls : w \in Int
      BY <1>1 DEF Dates!Walls, Dates!Bounds
    <3> QED
      BY <1>1, <3>1, AnchorShows
  <2>2. PICK given \in Int : Dates!SetDue(given, all_day)
    BY <1>1, <1>2, <2>1 DEF Dates!update_due, Dates!Instants, Dates!Bounds
  <2> QED
    BY <2>2, DateSet DEF Dates!SetDue
<1>3. ASSUME NEW all_day \in BOOLEAN, Dates!update_all_day(all_day) PROVE DatesInv'
  <2>1. due' = Dates!normalize_due(due, all_day)
    BY <1>3 DEF Dates!update_all_day, Dates!normalize_due
  <2> QED
    BY <1>1, <1>3, <2>1, DateSet DEF Dates!update_all_day
<1>4. CASE Dates!update_fields
  <2> DEFINE zone == Dates!named_zone(record.zone)
             new == [record EXCEPT !.due = Dates!instant_to_floating_millis(due, record.zone),
                                   !.allDay = allDay]
  <2>1. record \in [due : Int, zone : Zones \cup {Floating}, allDay : BOOLEAN]
        /\ allDay \in BOOLEAN
    BY DEF DatesInv, DatesTyped
  <2>2. Dates!instant_to_floating_millis(due, record.zone) \in Int
    BY <1>1, <2>1, ShownTyped DEF Dates!instant_to_floating_millis, Dates!naive_local,
       Dates!Offset, Dates!Bounds
  <2>3. new \in [due : Int, zone : Zones \cup {Floating}, allDay : BOOLEAN]
    BY <2>1, <2>2
  <2> HIDE DEF new
  <2>4. Dates!Shown(new) \in Int
    BY <1>1, <2>3, ShownTyped
  <2>5. record' = new /\ due' = Dates!Shown(record') /\ dirty' = FALSE
        /\ local_zone' = local_zone /\ allDay' = allDay
    BY <1>4 DEF Dates!update_fields, new
  <2>6. due' = (Dates!Shown(record))'
    BY <2>5 DEF Dates!Shown, Dates!floating_millis_to_instant, Dates!named_zone
  <2> QED
    BY <1>1, <2>1, <2>3, <2>4, <2>5, <2>6 DEF DatesInv, DatesTyped
<1>5. ASSUME NEW w \in Dates!Walls, NEW zone \in Zones \cup {Floating},
             NEW all_day \in BOOLEAN, Dates!OtherDevice(w, zone, all_day)
      PROVE  DatesInv'
  <2> DEFINE new == [due |-> w, zone |-> zone, allDay |-> all_day]
  <2>1. new \in [due : Int, zone : Zones \cup {Floating}, allDay : BOOLEAN]
    BY <1>1 DEF Dates!Walls, Dates!Bounds
  <2> HIDE DEF new
  <2>2. Dates!Shown(new) \in Int
    BY <1>1, <2>1, ShownTyped
  <2>3. record' = new /\ due' = Dates!Shown(record') /\ dirty' = FALSE
        /\ local_zone' = local_zone /\ allDay' = all_day
    <3>1. dirty' = dirty /\ ~dirty /\ dirty \in BOOLEAN
      BY <1>5 DEF Dates!OtherDevice, DatesInv, DatesTyped
    <3> QED
      BY <1>5, <3>1 DEF Dates!OtherDevice, new
  <2>4. due' = (Dates!Shown(record))'
    BY <2>3 DEF Dates!Shown, Dates!floating_millis_to_instant, Dates!named_zone
  <2> QED
    BY <1>1, <2>1, <2>2, <2>3, <2>4 DEF DatesInv, DatesTyped
<1>6. CASE UNCHANGED Dates!vars
  BY <1>6 DEF Dates!vars, DatesInv, DatesTyped, Dates!Shown, Dates!floating_millis_to_instant,
     Dates!named_zone, Dates!DayStart, Dates!LocalDay
<1> QED
  BY <1>2, <1>3, <1>4, <1>5, <1>6 DEF Dates!Next

(* Dates keep to this, always. *)
LEMMA DatesAlways == Dates!Spec => []DatesInv
BY DatesStart, DatesStep, PTL DEF Dates!Spec

(* What another device wrote is what an edit here would write back, for any *)
(* zones that skip no more than the code looks ahead (timeutil.rs, anchor). *)
THEOREM ClockTimesAreKept == Dates!Spec => []SameClock
<1>1. DatesInv => SameClock
  <2> SUFFICES ASSUME DatesInv, ~dirty PROVE Dates!SameClock
    BY DEF SameClock, Dates!SameClock
  <2> DEFINE zone == Dates!named_zone(record.zone)
             back == Dates!naive_local(zone, due)
  <2>1. /\ Dates!Bounds /\ local_zone \in Zones
        /\ record \in [due : Int, zone : Zones \cup {Floating}, allDay : BOOLEAN]
        /\ due = Dates!Shown(record)
    BY PartsAssumption DEF DatesInv, DatesTyped
  <2>2. zone \in Zones /\ record.due \in Int /\ due = Dates!anchor(zone, record.due)
    BY <2>1, ShownTyped
  <2> HIDE DEF zone
  <2>3. /\ back \in Int /\ record.due <= back
        /\ \A w \in record.due..back - 1 : Dates!from_local(zone, w) = {}
    BY <2>1, <2>2, AnchorShows
  <2>4. back >= record.due
    BY <2>2, <2>3
  <2> QED
    BY <2>3, <2>4 DEF Dates!SameClock, zone
<1> QED
  BY <1>1, DatesAlways, PTL

(* A date chosen here is there again after its upload, in any such zone,    *)
(* unless the clock shows that time twice, when it becomes the first        *)
(* (timeutil.rs, floating_millis_to_instant).                               *)
THEOREM ChosenDatesSurvive == Dates!Spec => DueSurvivesUpload
<1> DEFINE Survives == \/ due' = due
                       \/ /\ Dates!Repeated(Dates!named_zone(record.zone), due)
                          /\ due' < due
<1>1. DatesInv /\ [Dates!Next]_Dates!vars
      => [dirty /\ ~dirty' => Survives]_Dates!vars
  <2> SUFFICES ASSUME DatesInv, Dates!Next, dirty, ~dirty'
               PROVE  Survives
    OBVIOUS
  <2> DEFINE zone == Dates!named_zone(record.zone)
             wall == Dates!naive_local(zone, due)
  <2>1. Dates!update_fields
    BY DEF Dates!Next, Dates!update_due, Dates!SetDue, Dates!update_all_day, Dates!OtherDevice
  <2>2. /\ Dates!Bounds /\ local_zone \in Zones /\ due \in Int
        /\ record \in [due : Int, zone : Zones \cup {Floating}, allDay : BOOLEAN]
    BY PartsAssumption DEF DatesInv, DatesTyped
  <2>3. zone \in Zones
    BY <2>2, ShownTyped
  <2>4. due' = Dates!anchor(zone, wall)
    <3>1. record'.due = wall /\ record'.zone = record.zone /\ local_zone' = local_zone
      BY <2>1, <2>2 DEF Dates!update_fields, Dates!instant_to_floating_millis
    <3>2. due' = Dates!Shown(record')
      BY <2>1 DEF Dates!update_fields
    <3> QED
      BY <3>1, <3>2 DEF Dates!Shown, Dates!floating_millis_to_instant, Dates!named_zone
  <2> HIDE DEF zone
  <2>5. due' = due \/ (due' < due /\ Dates!Repeated(zone, due))
    BY <2>2, <2>3, <2>4, AnchorBack
  <2> QED
    BY <2>5 DEF zone
<1> QED
  BY <1>1, DatesAlways, PTL DEF Dates!Spec, DueSurvivesUpload, Dates!DueSurvivesUpload

(* A date made one of a whole day stays on the day it was on here, begins   *)
(* it, and its alert comes on that day and not before it, in any such zone  *)
(* (timeutil.rs: normalize_due, notify_at, local_day_bounds).               *)
THEOREM AllDayKeepsItsDay == Dates!Spec => []AllDayStaysOnDay
<1>1. DatesInv => AllDayStaysOnDay
  <2> SUFFICES ASSUME DatesInv PROVE Dates!AllDayStaysOnDay
    BY DEF AllDayStaysOnDay
  <2>1. /\ Dates!Bounds /\ local_zone \in Zones /\ due \in Int
        /\ DayLength \in Nat \ {0} /\ ALL_DAY_HOUR \in Nat /\ GapSearch \in Nat
        /\ ALL_DAY_HOUR + GapSearch < DayLength
    BY PartsAssumption DEF DatesInv, DatesTyped, Dates!Bounds
  <2>2. ASSUME NEW i \in Dates!Instants
        PROVE  Dates!LocalDay(Dates!normalize_due(i, TRUE)) = Dates!LocalDay(i)
    <3>1. i \in Int
      BY <2>1 DEF Dates!Instants, Dates!Bounds
    <3> QED
      BY <2>1, <3>1, DayKept DEF Dates!normalize_due
  <2>3. ASSUME dirty, allDay
        PROVE  LET bounds == Dates!local_day_bounds(due) IN
               /\ Dates!LocalDay(due) = Dates!LocalDay(Dates!notify_at(due, TRUE))
               /\ due <= Dates!notify_at(due, TRUE)
               /\ bounds[1] = due /\ due < bounds[2]
    <3> DEFINE day == Dates!LocalDay(due)
               here == Dates!naive_local(local_zone, due)
               tomorrow == Dates!DayStart(day + 1)
               alert == Dates!notify_at(due, TRUE)
    <3>1. due = Dates!DayStart(day)
      BY <2>3 DEF DatesInv
    <3>2. here \in Int
      BY <2>1, DivMod DEF Dates!naive_local, Dates!Offset, Dates!Bounds
    <3>3. day = Dates!DayOf(here)
      BY DEF Dates!LocalDay
    <3>4. /\ tomorrow = Dates!anchor(local_zone, Midnight(day + 1))
          /\ alert = Dates!anchor(local_zone, Midnight(day) + ALL_DAY_HOUR)
          /\ due = Dates!anchor(local_zone, Midnight(day))
      BY <3>1 DEF Dates!DayStart, Dates!notify_at, Midnight
    <3>5. Dates!local_day_bounds(due) = <<Dates!DayStart(day), tomorrow>>
      BY DEF Dates!local_day_bounds
    <3>6. \A i : Dates!LocalDay(i) = Dates!DayOf(Dates!naive_local(local_zone, i))
      BY DEF Dates!LocalDay
    <3> HIDE DEF day, here, tomorrow, alert
    <3>7. /\ day \in Int /\ Midnight(day) \in Int
          /\ Midnight(day) <= here /\ here < Midnight(day) + DayLength
      BY <2>1, <3>2, <3>3, DayOfTime
    <3>8. Midnight(day + 1) = Midnight(day) + DayLength
      BY <2>1, <3>7 DEF Midnight
    <3>9. \A j \in Int : Dates!naive_local(local_zone, j) >= Midnight(day) => due <= j
      BY <2>1, <3>4, <3>7, AnchorShows
    <3>10. due < tomorrow
      <4> DEFINE then == Dates!naive_local(local_zone, tomorrow)
      <4>1. tomorrow \in Int /\ then \in Int /\ Midnight(day) + DayLength <= then
        BY <2>1, <3>4, <3>7, <3>8, AnchorShows
      <4>2. then # here
        BY <2>1, <3>7, <4>1, <3>2
      <4>3. tomorrow # due
        BY <4>2 DEF here
      <4>4. due <= tomorrow
        BY <2>1, <3>7, <3>9, <4>1
      <4> QED
        BY <2>1, <4>1, <4>3, <4>4
    <3>11. due <= alert /\ Dates!LocalDay(alert) = day
      <4> DEFINE then == Dates!naive_local(local_zone, alert)
      <4>1. Midnight(day) + ALL_DAY_HOUR \in Int
        BY <2>1, <3>7
      <4>2. /\ alert \in Int /\ then \in Int
            /\ Midnight(day) + ALL_DAY_HOUR <= then
            /\ then <= Midnight(day) + ALL_DAY_HOUR + GapSearch
        BY <2>1, <3>4, <4>1, AnchorShows
      <4>3. Midnight(day) <= then /\ then < Midnight(day) + DayLength
        BY <2>1, <3>7, <4>2
      <4>4. due <= alert
        BY <3>9, <4>2, <4>3
      <4>5. Dates!DayOf(then) = day
        <5> HIDE DEF then
        <5> QED
          BY <2>1, <3>7, <4>2, <4>3, OneDay
      <4> QED
        BY <3>6, <4>4, <4>5
    <3>12. /\ day = Dates!LocalDay(alert) /\ due <= alert
           /\ Dates!local_day_bounds(due)[1] = due /\ due < Dates!local_day_bounds(due)[2]
      BY <3>1, <3>5, <3>10, <3>11
    <3> QED
      BY <3>12 DEF day, alert
  <2> QED
    BY <2>2, <2>3 DEF Dates!AllDayStaysOnDay
<1> QED
  BY <1>1, DatesAlways, PTL

-----------------------------------------------------------------------------
(* The reader of lines. *)

(* A set of numbers that holds 0 and with each number the next holds all. *)
LEMMA Induction ==
  ASSUME NEW S, 0 \in S, \A n \in Nat : n \in S => n + 1 \in S
  PROVE  Nat \subseteq S
<1> SUFFICES ASSUME NEW n \in Nat, n \notin S PROVE FALSE
  OBVIOUS
<1> DEFINE T == {i \in 0..n : i \in S}
           f == [i \in T |-> i + 1]
<1>1. IsFiniteSet(0..n)
  BY FS_Interval
<1>2. IsFiniteSet(T) /\ 0 \in T
  BY <1>1, FS_Subset
<1>3. IsFiniteSet(T \ {0}) /\ Cardinality(T \ {0}) = Cardinality(T) - 1
  BY <1>2, FS_RemoveElement
<1>4. Cardinality(T) \in Nat
  BY <1>2, FS_CardinalityType
<1>5. \A i \in T : i + 1 \in T \ {0}
  OBVIOUS
<1>6. f \in [T -> T \ {0}]
  BY <1>5
<1>7. Cardinality(T \ {0}) < Cardinality(T)
  BY <1>3, <1>4
<1>8. \E i, j \in T : i # j /\ f[i] = f[j]
  <2> HIDE DEF T, f
  <2> QED
    BY <1>2, <1>3, <1>6, <1>7, FS_PigeonHole
<1> QED
  BY <1>8

(* A set of numbers that is not empty has a least one. *)
LEMMA Least ==
  ASSUME NEW S \in SUBSET Nat, S # {}
  PROVE  \E n \in S : \A m \in S : n <= m
<1> SUFFICES ASSUME \A n \in S : \E m \in S : m < n PROVE FALSE
  OBVIOUS
<1> DEFINE T == {n \in Nat : \A m \in S : n <= m}
<1>1. 0 \in T
  OBVIOUS
<1>2. \A n \in Nat : n \in T => n + 1 \in T
  OBVIOUS
<1>3. Nat \subseteq T
  <2> HIDE DEF T
  <2> QED BY <1>1, <1>2, Induction
<1> QED
  <2>1. PICK n \in S : TRUE
    OBVIOUS
  <2>2. n \in Nat /\ n + 1 \in T
    BY <2>1, <1>3
  <2> QED
    BY <2>1, <2>2

(* How much of the stream has been consumed; the newlines in the first p    *)
(* bytes of it; and where the line under way there starts.                  *)
Pos      == Len(whole) - Len(stream) - Len(available)
UpTo(p)  == {j \in Reader!Ends : j <= p}
Start(p) == Reader!StartOf(p + 1)

(* The newlines are positions of the stream, so there are finitely many.    *)
LEMMA EndsFinite ==
  ASSUME whole \in Seq(Reader!Bytes)
  PROVE  /\ Len(whole) \in Nat /\ Reader!Ends \subseteq 1..Len(whole)
         /\ \A j \in Reader!Ends : j \in Nat \ {0}
         /\ \A S : Reader!Cardinality(S) = Cardinality(S)
         /\ IsFiniteSet(Reader!Ends) /\ Cardinality(Reader!Ends) \in Nat
         /\ \A p : /\ IsFiniteSet(UpTo(p)) /\ Cardinality(UpTo(p)) \in Nat
                   /\ Cardinality(UpTo(p)) <= Cardinality(Reader!Ends)
<1>1. Len(whole) \in Nat /\ Reader!Ends \subseteq 1..Len(whole)
  BY DEF Reader!Ends
<1>2. \A S : Reader!Cardinality(S) = Cardinality(S)
  BY DEF Reader!Cardinality, Cardinality, IsFiniteSet, Reader!IsFiniteSet
<1>3. IsFiniteSet(Reader!Ends) /\ Cardinality(Reader!Ends) \in Nat
  <2>1. IsFiniteSet(1..Len(whole))
    BY <1>1, FS_Interval
  <2>2. Reader!Ends \in SUBSET (1..Len(whole))
    BY <1>1
  <2> QED
    BY <2>1, <2>2, FS_Subset, FS_CardinalityType
<1>4. ASSUME NEW p
      PROVE  /\ IsFiniteSet(UpTo(p)) /\ Cardinality(UpTo(p)) \in Nat
             /\ Cardinality(UpTo(p)) <= Cardinality(Reader!Ends)
  <2>1. UpTo(p) \in SUBSET Reader!Ends
    BY DEF UpTo
  <2> QED
    BY <1>3, <2>1, FS_Subset, FS_CardinalityType
<1>5. \A j \in Reader!Ends : j \in Nat \ {0}
  BY <1>1
<1> QED
  BY <1>1, <1>2, <1>3, <1>4, <1>5

(* A line starts after the last newline before it, or at the beginning.     *)
LEMMA StartIsLast ==
  ASSUME whole \in Seq(Reader!Bytes), NEW p \in Nat
  PROVE  /\ Start(p) \in 0..p /\ (Start(p) = 0 \/ Start(p) \in Reader!Ends)
         /\ \A j \in Reader!Ends : j <= p => j <= Start(p)
<1>1. \A j \in Reader!Ends : j \in Nat \ {0}
  BY EndsFinite
<1>2. CASE ~ \E j \in Reader!Ends : j < p + 1
  <2>1. Start(p) = 0
    BY <1>2 DEF Start, Reader!StartOf
  <2>2. \A j \in Reader!Ends : ~(j <= p)
    BY <1>1, <1>2
  <2> QED
    BY <2>1, <2>2
<1>3. CASE \E j \in Reader!Ends : j < p + 1
  <2> DEFINE S == {d \in Nat : \E j \in Reader!Ends : j < p + 1 /\ d = p - j}
  <2>1. S \in SUBSET Nat /\ S # {}
    <3>1. PICK j \in Reader!Ends : j < p + 1
      BY <1>3
    <3>2. p - j \in Nat
      BY <1>1, <3>1
    <3> QED
      BY <3>1, <3>2
  <2>2. PICK d \in S : \A c \in S : d <= c
    <3> HIDE DEF S
    <3> QED
      BY <2>1, Least
  <2>3. PICK i \in Reader!Ends : i < p + 1 /\ d = p - i
    BY <2>2
  <2>4. ASSUME NEW j \in Reader!Ends, j < p + 1 PROVE j <= i
    <3>1. p - j \in S /\ j \in Nat /\ i \in Nat
      BY <1>1, <2>3, <2>4
    <3>2. d <= p - j /\ d = p - i
      <4> HIDE DEF S
      <4> QED
        BY <2>2, <2>3, <3>1
    <3> QED
      BY <3>1, <3>2
  <2> DEFINE Last(m) == m < p + 1 /\ \A j \in Reader!Ends : j < p + 1 => j <= m
  <2>5. Last(i)
    BY <2>3, <2>4
  <2>6. Start(p) = CHOOSE m \in Reader!Ends : Last(m)
    BY <1>3 DEF Start, Reader!StartOf
  <2>7. Start(p) \in Reader!Ends /\ Last(Start(p))
    <3> HIDE DEF Last
    <3> QED
      BY <2>5, <2>6
  <2>8. Start(p) \in Nat \ {0} /\ Start(p) < p + 1
    BY <1>1, <2>7
  <2>9. \A j \in Reader!Ends : j <= p => j <= Start(p)
    BY <1>1, <2>7
  <2> HIDE DEF Start
  <2> QED
    BY <2>7, <2>8, <2>9
<1> QED
  BY <1>2, <1>3

(* That is the only such place. *)
LEMMA StartUnique ==
  ASSUME whole \in Seq(Reader!Bytes), NEW p \in Nat, NEW s \in 0..p,
         s = 0 \/ s \in Reader!Ends, \A j \in Reader!Ends : j <= p => j <= s
  PROVE  Start(p) = s
<1>1. \A j \in Reader!Ends : j \in Nat \ {0}
  BY EndsFinite
<1>2. /\ Start(p) \in 0..p /\ (Start(p) = 0 \/ Start(p) \in Reader!Ends)
      /\ \A j \in Reader!Ends : j <= p => j <= Start(p)
  BY StartIsLast
<1> HIDE DEF Start
<1>3. s <= Start(p)
  BY <1>1, <1>2
<1>4. Start(p) <= s
  BY <1>1, <1>2
<1> QED
  BY <1>2, <1>3, <1>4

(* Bytes without a newline leave the line as it was. *)
LEMMA NoNewline ==
  ASSUME whole \in Seq(Reader!Bytes), NEW p \in Nat, NEW q \in Nat, p <= q,
         \A j \in Reader!Ends : j <= q => j <= p
  PROVE  Start(q) = Start(p) /\ UpTo(q) = UpTo(p)
<1>1. \A j \in Reader!Ends : j \in Nat \ {0}
  BY EndsFinite
<1>2. UpTo(q) = UpTo(p)
  <2>1. ASSUME NEW j \in Reader!Ends PROVE j <= q <=> j <= p
    BY <1>1
  <2> QED
    BY <2>1 DEF UpTo
<1>3. Start(p) \in 0..q /\ (Start(p) = 0 \/ Start(p) \in Reader!Ends)
  BY StartIsLast
<1>4. \A j \in Reader!Ends : j <= q => j <= Start(p)
  BY StartIsLast
<1>5. Start(q) = Start(p)
  <2> HIDE DEF Start
  <2> QED
    BY <1>3, <1>4, StartUnique
<1> QED
  BY <1>2, <1>5

(* A newline is the last of those up to it, and has its number by counting. *)
LEMMA NewlineNext ==
  ASSUME whole \in Seq(Reader!Bytes), NEW p \in Nat, NEW e \in Reader!Ends, p < e,
         \A j \in Reader!Ends : j < e => j <= p
  PROVE  /\ Start(e) = e /\ Reader!StartOf(e) = Start(p)
         /\ Cardinality(UpTo(e)) = Cardinality(UpTo(p)) + 1
         /\ Reader!LineEnd(Cardinality(UpTo(e))) = e
<1>1. /\ \A j \in Reader!Ends : j \in Nat \ {0}
      /\ \A S : Reader!Cardinality(S) = Cardinality(S)
      /\ \A i : IsFiniteSet(UpTo(i)) /\ Cardinality(UpTo(i)) \in Nat
  BY EndsFinite
<1>2. e \in Nat \ {0} /\ e - 1 \in Nat /\ (e - 1) + 1 = e
  BY <1>1
<1>3. Start(e) = e
  BY <1>1, <1>2, StartUnique
<1>4. Reader!StartOf(e) = Start(p)
  <2>1. Start(e - 1) = Start(p)
    <3>1. \A j \in Reader!Ends : j <= e - 1 => j <= p
      BY <1>1
    <3> QED
      BY <1>2, <3>1, NoNewline
  <2> QED
    BY <1>2, <2>1 DEF Start
<1>5. Cardinality(UpTo(e)) = Cardinality(UpTo(p)) + 1
  <2>1. UpTo(e) = UpTo(p) \cup {e} /\ e \notin UpTo(p)
    <3>1. ASSUME NEW j \in Reader!Ends PROVE j <= e <=> (j <= p \/ j = e)
      BY <1>1
    <3>2. ~(e <= p)
      BY <1>2
    <3> QED
      BY <3>1, <3>2 DEF UpTo
  <2> HIDE DEF UpTo
  <2> QED
    BY <1>1, <2>1, FS_AddElement
<1>6. ASSUME NEW i \in Reader!Ends, Cardinality(UpTo(i)) = Cardinality(UpTo(e))
      PROVE  i = e
  <2>1. i \in Nat /\ i \in UpTo(i) /\ e \in UpTo(e)
    BY <1>1 DEF UpTo
  <2>2. CASE i <= e
    <3>0. ASSUME NEW j \in Reader!Ends, j <= i PROVE j <= e
      BY <1>1, <1>2, <2>1, <2>2, <3>0
    <3>1. UpTo(i) \in SUBSET UpTo(e)
      BY <3>0 DEF UpTo
    <3>2. UpTo(i) = UpTo(e)
      BY <1>1, <1>6, <3>1, FS_Subset
    <3> QED
      BY <1>2, <2>1, <2>2, <3>2 DEF UpTo
  <2>3. CASE e <= i
    <3>0. ASSUME NEW j \in Reader!Ends, j <= e PROVE j <= i
      BY <1>1, <1>2, <2>1, <2>3, <3>0
    <3>1. UpTo(e) \in SUBSET UpTo(i)
      BY <3>0 DEF UpTo
    <3>2. UpTo(i) = UpTo(e)
      BY <1>1, <1>6, <3>1, FS_Subset
    <3> QED
      BY <1>2, <2>1, <2>3, <3>2 DEF UpTo
  <2> QED
    BY <1>2, <2>1, <2>2, <2>3
<1>7. Reader!LineEnd(Cardinality(UpTo(e))) = e
  <2>1. Reader!LineEnd(Cardinality(UpTo(e)))
          = CHOOSE i \in Reader!Ends : Cardinality(UpTo(i)) = Cardinality(UpTo(e))
    BY <1>1 DEF Reader!LineEnd, UpTo
  <2> HIDE DEF UpTo
  <2> QED
    BY <1>6, <2>1
<1> QED
  BY <1>3, <1>4, <1>5, <1>7

(* What is returned is one of these. *)
Outcome == {Reader!TooLong, Reader!Eof} \cup {Reader!Line(n) : n \in 0..MaxLine}

ReaderTypes ==
  /\ whole \in Seq(Reader!Bytes) /\ stream \in Seq(Reader!Bytes)
  /\ available \in Seq(Reader!Bytes) /\ out \in Seq(Outcome)
  /\ buffer \in 0..MaxLine /\ too_long \in BOOLEAN

(* What is in hand and what is to come is the end of the stream.            *)
Cut ==
  /\ Pos \in Nat
  /\ \A i \in 1..Len(available) : available[i] = whole[Pos + i]
  /\ \A i \in 1..Len(stream) : stream[i] = whole[Pos + Len(available) + i]

(* Up to the last newline all has been returned, and the buffer holds the   *)
(* bytes since, unless they are too many.                                   *)
Serving ==
  /\ IF too_long THEN Pos - Start(Pos) > MaxLine /\ buffer = 0 ELSE buffer = Pos - Start(Pos)
  /\ Len(out) = Cardinality(UpTo(Pos))
  /\ \A i \in 1..Len(out) : out[i] = Reader!Terminated[i] /\ out[i] # Reader!Eof

(* The text after the last newline has been returned as well, and then the  *)
(* end of the stream.                                                       *)
Ending ==
  /\ Pos = Len(whole) /\ buffer = 0 /\ ~too_long
  /\ \/ Reader!Rest # 0 /\ out = Append(Reader!Terminated, Reader!Verdict(Reader!Rest))
     \/ out = Reader!Requests

ReaderInv == ReaderTypes /\ Cut /\ (Serving \/ Ending)

-----------------------------------------------------------------------------

(* A line is returned whole or not at all, and is never the end.            *)
LEMMA VerdictTyped ==
  ASSUME NEW size \in Nat
  PROVE  Reader!Verdict(size) \in Outcome /\ Reader!Verdict(size) # Reader!Eof
<1>1. MaxLine \in Nat
  BY PartsAssumption DEF Reader!Bounds
<1> QED
  BY <1>1 DEF Reader!Verdict, Outcome, Reader!Line, Reader!TooLong, Reader!Eof

(* What is owed is a sequence; and no text after the last newline is less   *)
(* than none.                                                               *)
LEMMA OwedIsSeq ==
  ASSUME whole \in Seq(Reader!Bytes)
  PROVE  /\ Reader!Terminated \in Seq({Reader!Terminated[i] : i \in 1..Cardinality(Reader!Ends)})
         /\ Len(Reader!Terminated) = Cardinality(Reader!Ends)
         /\ \A i \in 1..Cardinality(Reader!Ends) : Reader!Terminated[i] # Reader!Eof
         /\ Reader!Rest \in Nat /\ Reader!Rest = Len(whole) - Start(Len(whole))
<1>1. /\ Len(whole) \in Nat /\ \A S : Reader!Cardinality(S) = Cardinality(S)
      /\ Cardinality(Reader!Ends) \in Nat
  BY EndsFinite
<1> DEFINE n == Cardinality(Reader!Ends)
           T == Reader!Terminated
<1>2. T = [i \in 1..n |-> T[i]] /\ \A i \in 1..n : T[i] # Reader!Eof
  <2>1. T = [k \in 1..n |-> Reader!Verdict(Reader!LineEnd(k)
                                            - Reader!StartOf(Reader!LineEnd(k)) - 1)]
    BY <1>1 DEF Reader!Terminated
  <2>2. \A size : Reader!Verdict(size) # Reader!Eof
    BY DEF Reader!Verdict, Reader!Line, Reader!TooLong, Reader!Eof
  <2> HIDE DEF T, n
  <2> QED
    BY <2>1, <2>2
<1>3. T \in Seq({T[i] : i \in 1..n}) /\ Len(T) = n
  <2> HIDE DEF T, n
  <2>1. n \in Nat
    BY <1>1 DEF n
  <2>2. T \in [1..n -> {T[i] : i \in 1..n}]
    BY <1>2
  <2> QED
    BY <2>1, <2>2
<1>4. Reader!Rest = Len(whole) - Start(Len(whole))
  BY DEF Reader!Rest, Start
<1>5. Start(Len(whole)) \in 0..Len(whole)
  BY <1>1, StartIsLast
<1>6. Reader!Rest \in Nat
  <2> HIDE DEF Start
  <2> QED
    BY <1>1, <1>4, <1>5
<1> QED
  BY <1>2, <1>3, <1>4, <1>6

(* The k-th newline's verdict, once it is the k-th. *)
LEMMA NextVerdict ==
  ASSUME whole \in Seq(Reader!Bytes), NEW p \in Nat, NEW e \in Reader!Ends, p < e,
         \A j \in Reader!Ends : j < e => j <= p
  PROVE  LET k == Cardinality(UpTo(p)) + 1 IN
         /\ k \in 1..Cardinality(Reader!Ends) /\ k = Cardinality(UpTo(e))
         /\ Reader!Terminated[k] = Reader!Verdict(e - Start(p) - 1)
<1> DEFINE k == Cardinality(UpTo(p)) + 1
<1>1. /\ \A S : Reader!Cardinality(S) = Cardinality(S)
      /\ Cardinality(Reader!Ends) \in Nat
      /\ \A i : Cardinality(UpTo(i)) \in Nat
                /\ Cardinality(UpTo(i)) <= Cardinality(Reader!Ends)
  BY EndsFinite
<1>2. /\ Reader!StartOf(e) = Start(p) /\ Cardinality(UpTo(e)) = k /\ Reader!LineEnd(k) = e
  <2>1. /\ Reader!StartOf(e) = Start(p) /\ Cardinality(UpTo(e)) = Cardinality(UpTo(p)) + 1
        /\ Reader!LineEnd(Cardinality(UpTo(e))) = e
    BY NewlineNext
  <2> QED
    BY <2>1
<1>3. k \in 1..Cardinality(Reader!Ends)
  BY <1>1, <1>2
<1>4. Reader!Terminated[k] = Reader!Verdict(e - Start(p) - 1)
  <2>1. k \in 1..Reader!Cardinality(Reader!Ends)
    BY <1>1, <1>3
  <2> HIDE DEF k
  <2>2. Reader!Terminated[k]
          = Reader!Verdict(Reader!LineEnd(k) - Reader!StartOf(Reader!LineEnd(k)) - 1)
    BY <2>1 DEF Reader!Terminated
  <2> QED
    BY <1>2, <2>2
<1> QED
  BY <1>2, <1>3, <1>4

(* Nothing is read yet. *)
LEMMA ReaderStart == Reader!Init => ReaderInv
<1> SUFFICES ASSUME Reader!Init PROVE ReaderInv
  OBVIOUS
<1> USE DEF Reader!Init
<1>0. MaxLine \in Nat
  BY PartsAssumption DEF Reader!Bounds
<1>1. ReaderTypes
  <2>1. whole \in Seq(Reader!Bytes)
    <3>1. PICK n \in 0..MaxStream : whole \in [1..n -> Reader!Bytes]
      OBVIOUS
    <3>2. n \in Nat
      BY PartsAssumption DEF Reader!Bounds
    <3> QED
      BY <3>1, <3>2
  <2>2. <<>> \in Seq(Reader!Bytes) /\ <<>> \in Seq(Outcome)
    OBVIOUS
  <2>3. buffer \in 0..MaxLine
    BY <1>0
  <2>4. too_long \in BOOLEAN
    BY Zenon
  <2> HIDE DEF Reader!Init
  <2>5. stream = whole /\ available = <<>> /\ out = <<>>
    BY DEF Reader!Init
  <2> QED
    BY <2>1, <2>2, <2>3, <2>4, <2>5 DEF ReaderTypes
<1>2. /\ Len(whole) \in Nat /\ Pos = 0
      /\ Len(available) = 0 /\ Len(out) = 0 /\ Len(stream) = Len(whole)
  <2>1. Len(whole) \in Nat
    BY <1>1 DEF ReaderTypes
  <2>2. Len(available) = 0 /\ Len(out) = 0 /\ Len(stream) = Len(whole)
    OBVIOUS
  <2>3. Pos = 0
    <3> HIDE DEF Reader!Init
    <3> QED
      BY <2>1, <2>2 DEF Pos
  <2> QED
    BY <2>1, <2>2, <2>3
<1>3. Cut
  <2>1. \A i \in 1..Len(stream) : 0 + 0 + i = i
    BY <1>2
  <2> QED
    BY <1>2, <2>1 DEF Cut
<1>4. Start(0) = 0 /\ UpTo(0) = {}
  <2>1. Start(0) \in 0..0
    BY <1>1, StartIsLast DEF ReaderTypes
  <2>2. \A j \in Reader!Ends : j \in Nat \ {0}
    BY <1>1, EndsFinite DEF ReaderTypes
  <2>3. Start(0) = 0
    BY <2>1
  <2>4. UpTo(0) = {}
    BY <2>2 DEF UpTo
  <2> QED
    BY <2>3, <2>4
<1>5. Serving
  <2>1. buffer = 0 /\ ~too_long /\ Pos - Start(Pos) = 0
    BY <1>2, <1>4
  <2>2. Cardinality(UpTo(Pos)) = 0
    BY <1>2, <1>4, FS_EmptySet
  <2> QED
    BY <1>2, <2>1, <2>2 DEF Serving
<1> QED
  BY <1>1, <1>3, <1>5 DEF ReaderInv

(* What of the stream is owed depends on the whole of it, which stays.      *)
LEMMA SameOwed ==
  ASSUME whole' = whole
  PROVE  /\ Reader!Ends' = Reader!Ends /\ Reader!Terminated' = Reader!Terminated
         /\ Reader!Rest' = Reader!Rest /\ Reader!Requests' = Reader!Requests
         /\ \A p : Start(p)' = Start(p) /\ UpTo(p)' = UpTo(p)
<1>1. Reader!Ends' = Reader!Ends
  BY DEF Reader!Ends
<1>2. \A i : Reader!StartOf(i)' = Reader!StartOf(i)
  BY <1>1 DEF Reader!StartOf
<1>3. \A k : Reader!LineEnd(k)' = Reader!LineEnd(k)
  BY <1>1 DEF Reader!LineEnd
<1>4. Reader!Terminated' = Reader!Terminated
  BY <1>1, <1>2, <1>3 DEF Reader!Terminated
<1>5. Reader!Rest' = Reader!Rest
  BY <1>2 DEF Reader!Rest
<1>6. Reader!Requests' = Reader!Requests
  BY <1>4, <1>5 DEF Reader!Requests
<1>7. \A p : Start(p)' = Start(p) /\ UpTo(p)' = UpTo(p)
  BY <1>1, <1>2 DEF Start, UpTo
<1> QED
  BY <1>1, <1>4, <1>5, <1>6, <1>7

(* A piece more is in hand, and no byte consumed. *)
LEMMA FillStep == ASSUME ReaderInv, NEW n \in Nat, Reader!FillBuf(n) PROVE ReaderInv'
<1> USE DEF Reader!FillBuf
<1>1. ReaderTypes /\ Cut
  BY DEF ReaderInv
<1>2. n \in 1..Len(stream) /\ Len(available) = 0 /\ Len(stream) \in Nat /\ Len(whole) \in Nat
  BY <1>1 DEF ReaderTypes
<1>3. /\ available' \in Seq(Reader!Bytes) /\ stream' \in Seq(Reader!Bytes)
      /\ Len(available') = n /\ Len(stream') = Len(stream) - n
      /\ \A i \in 1..n : available'[i] = stream[i]
      /\ \A i \in 1..Len(stream) - n : stream'[i] = stream[n + i]
  BY <1>1, <1>2 DEF ReaderTypes
<1>4. Pos' = Pos
  <2>1. Pos' = Len(whole) - Len(stream') - Len(available')
    BY DEF Pos
  <2>2. Pos = Len(whole) - Len(stream) - Len(available)
    BY DEF Pos
  <2> HIDE DEF Reader!FillBuf
  <2>3. Len(stream') = Len(stream) - n /\ Len(available') = n
    BY <1>3
  <2> QED
    BY <1>2, <2>1, <2>2, <2>3
<1>5. ReaderTypes'
  BY <1>1, <1>3 DEF ReaderTypes
<1>6. Cut'
  <2>1. ASSUME NEW i \in 1..Len(available') PROVE available'[i] = whole[Pos + i]
    <3>1. i \in 1..n /\ i \in 1..Len(stream) /\ Pos + 0 + i = Pos + i
      BY <1>1, <1>2, <1>3 DEF Cut
    <3>2. stream[i] = whole[Pos + Len(available) + i]
      BY <1>1, <3>1 DEF Cut
    <3> QED
      BY <1>2, <1>3, <3>1, <3>2
  <2>2. ASSUME NEW i \in 1..Len(stream')
        PROVE  stream'[i] = whole[Pos + Len(available') + i]
    <3>1. n + i \in 1..Len(stream) /\ i \in 1..Len(stream) - n
      BY <1>2, <1>3
    <3>2. Pos + 0 + (n + i) = Pos + n + i
      BY <1>1, <1>2, <1>3 DEF Cut
    <3>3. stream[n + i] = whole[Pos + Len(available) + (n + i)]
      BY <1>1, <3>1 DEF Cut
    <3> QED
      BY <1>2, <1>3, <3>1, <3>2, <3>3
  <2> QED
    BY <1>1, <1>4, <2>1, <2>2 DEF Cut
<1>7. Serving => Serving'
  BY <1>4, SameOwed DEF Serving
<1>8. Ending => Ending'
  BY <1>4, SameOwed DEF Ending
<1> QED
  BY <1>5, <1>6, <1>7, <1>8 DEF ReaderInv

(* The end of the stream: what is left is returned, and then the end.       *)
LEMMA EndingStep == ASSUME ReaderInv, Reader!AtEnd PROVE ReaderInv'
<1> USE DEF Reader!AtEnd, Reader!Return
<1> DEFINE T == Reader!Terminated
<1>1. /\ ReaderTypes /\ Cut /\ Len(whole) \in Nat /\ MaxLine \in Nat
      /\ Len(stream) = 0 /\ Len(available) = 0
  BY PartsAssumption DEF ReaderInv, ReaderTypes, Reader!Bounds
<1>2. Pos = Len(whole)
  BY <1>1 DEF Pos
<1>3. Pos' = Len(whole) /\ Cut'
  <2>1. Pos' = Pos
    BY DEF Pos
  <2> QED
    BY <1>1, <1>2, <2>1 DEF Cut
<1>4. /\ Reader!Rest \in Nat /\ Reader!Rest = Len(whole) - Start(Len(whole))
      /\ T \in Seq({T[i] : i \in 1..Cardinality(Reader!Ends)})
      /\ Len(T) = Cardinality(Reader!Ends)
  BY <1>1, OwedIsSeq DEF ReaderTypes
<1> HIDE DEF T
<1>5. buffer' = 0 /\ too_long' = FALSE
  OBVIOUS
<1>6. ASSUME out' \in Seq(Outcome),
             \/ Reader!Rest # 0 /\ out' = Append(T, Reader!Verdict(Reader!Rest))
             \/ out' = Reader!Requests
      PROVE  ReaderInv'
  <2>0. buffer' \in 0..MaxLine /\ too_long' \in BOOLEAN
    <3>1. too_long' \in BOOLEAN
      BY <1>5, Zenon
    <3> QED
      BY <1>1, <1>5, <3>1
  <2>1. ReaderTypes'
    BY <1>1, <1>6, <2>0 DEF ReaderTypes
  <2>2. /\ T' = T /\ Reader!Rest' = Reader!Rest /\ Reader!Requests' = Reader!Requests
        /\ Reader!Verdict(Reader!Rest)' = Reader!Verdict(Reader!Rest)
    BY SameOwed DEF T, Reader!Verdict, Reader!TooLong, Reader!Line
  <2>3. Ending'
    BY <1>3, <1>5, <1>6, <2>2 DEF Ending, T
  <2> QED
    BY <1>3, <2>1, <2>3 DEF ReaderInv
<1>7. Reader!Eof \in Outcome /\ Reader!TooLong \in Outcome
      /\ \A n \in 0..MaxLine : Reader!Line(n) \in Outcome
  BY DEF Outcome
<1>8. CASE Serving
  <2>1. out = T
    <3>1. UpTo(Pos) = Reader!Ends
      <4>1. Reader!Ends \subseteq 1..Len(whole)
        BY <1>1, EndsFinite DEF ReaderTypes
      <4>2. \A j \in Reader!Ends : j <= Pos
        BY <1>1, <1>2, <4>1
      <4> QED
        BY <4>2 DEF UpTo
    <3>2. Len(out) = Len(T) /\ \A i \in 1..Len(out) : out[i] = T[i]
      BY <1>4, <1>8, <3>1 DEF Serving, T
    <3> QED
      BY <1>1, <1>4, <3>2 DEF ReaderTypes
  <2>2. CASE too_long
    <3>1. Reader!Rest > MaxLine
      BY <1>2, <1>4, <1>8, <2>2 DEF Serving
    <3>2. Reader!Rest # 0 /\ Reader!Verdict(Reader!Rest) = Reader!TooLong
      BY <1>1, <1>4, <3>1 DEF Reader!Verdict
    <3>3. out' = Append(T, Reader!TooLong)
      BY <2>1, <2>2
    <3>4. out' \in Seq(Outcome)
      BY <1>1, <1>7, <2>1, <3>3 DEF ReaderTypes
    <3> QED
      BY <1>6, <3>2, <3>3, <3>4
  <2>3. CASE ~too_long /\ buffer = 0
    <3>1. Reader!Rest = 0
      BY <1>2, <1>4, <1>8, <2>3 DEF Serving
    <3>2. out' = Append(T, Reader!Eof)
      BY <2>1, <2>3
    <3>3. Reader!Requests = T \o <<>> \o <<Reader!Eof>>
      BY <3>1 DEF Reader!Requests, T
    <3>4. T \in Seq(Outcome)
      BY <1>1, <2>1 DEF ReaderTypes
    <3>5. T \o <<>> = T /\ T \o <<Reader!Eof>> = Append(T, Reader!Eof)
      BY <1>7, <3>4
    <3>6. Append(T, Reader!Eof) \in Seq(Outcome)
      BY <1>7, <3>4
    <3>7. out' = Reader!Requests /\ out' \in Seq(Outcome)
      BY <3>2, <3>3, <3>5, <3>6
    <3> QED
      BY <1>6, <3>7
  <2>4. CASE ~too_long /\ buffer # 0
    <3>1. Reader!Rest = buffer /\ buffer \in 0..MaxLine
      BY <1>1, <1>2, <1>4, <1>8, <2>4 DEF Serving, ReaderTypes
    <3>2. Reader!Rest # 0 /\ Reader!Verdict(Reader!Rest) = Reader!Line(buffer)
      BY <1>1, <2>4, <3>1 DEF Reader!Verdict
    <3>3. out' = Append(T, Reader!Line(buffer))
      BY <2>1, <2>4
    <3>4. out' \in Seq(Outcome)
      BY <1>1, <1>7, <2>1, <3>1, <3>3 DEF ReaderTypes
    <3> QED
      BY <1>6, <3>2, <3>3, <3>4
  <2> QED
    BY <2>2, <2>3, <2>4
<1>9. CASE Ending
  <2> DEFINE V == Reader!Verdict(Reader!Rest)
  <2>1. CASE Reader!Rest # 0 /\ out = Append(T, V)
    <3>1. out' = Append(Append(T, V), Reader!Eof)
      BY <1>9, <2>1 DEF Ending
    <3>2. Reader!Requests = T \o <<V>> \o <<Reader!Eof>>
      BY <2>1 DEF Reader!Requests, T
    <3> HIDE DEF V
    <3>3. V \in Outcome
      BY <1>4, VerdictTyped DEF V
    <3>4. T \o <<V>> = Append(T, V)
      BY <1>4
    <3>5. Append(T, V) \o <<Reader!Eof>> = Append(Append(T, V), Reader!Eof)
      BY <1>1, <1>7, <2>1 DEF ReaderTypes, V
    <3>6. out' \in Seq(Outcome)
      BY <1>1, <1>7, <2>1, <3>1 DEF ReaderTypes, V
    <3> QED
      BY <1>6, <3>1, <3>2, <3>4, <3>5, <3>6
  <2>2. CASE out = Reader!Requests
    <3>1. Reader!Contains(out, Reader!Eof)
      <4> DEFINE U == IF Reader!Rest = 0 THEN <<>> ELSE <<V>>
                 s == T \o U
      <4>1. out = s \o <<Reader!Eof>>
        BY <2>2 DEF Reader!Requests, T
      <4>2. Len(s) \in Nat
        <5>1. Len(U) \in Nat
          OBVIOUS
        <5> HIDE DEF U
        <5> QED
          BY <1>4, <5>1
      <4> HIDE DEF s
      <4>3. Len(out) = Len(s) + 1 /\ out[Len(s) + 1] = Reader!Eof
        BY <4>1, <4>2
      <4>4. Len(s) + 1 \in 1..Len(out)
        BY <4>2, <4>3
      <4> QED
        BY <4>3, <4>4 DEF Reader!Contains
    <3> QED
      BY <3>1
  <2> QED
    BY <1>9, <2>1, <2>2 DEF Ending, T
<1> QED
  BY <1>8, <1>9 DEF ReaderInv

(* Where the first newline of a piece is, or that it has none.              *)
LEMMA TakeFirst ==
  ASSUME NEW piece \in Seq(Reader!Bytes)
  PROVE  LET t == Reader!Take(piece) IN
         /\ t \in Nat /\ \A i \in 1..t : piece[i] # Reader!NL
         /\ IF Reader!Contains(piece, Reader!NL)
            THEN t + 1 \in 1..Len(piece) /\ piece[t + 1] = Reader!NL
            ELSE t = Len(piece)
<1> DEFINE t == Reader!Take(piece)
<1>1. CASE ~Reader!Contains(piece, Reader!NL)
  <2>1. t = Len(piece) /\ Len(piece) \in Nat
    BY <1>1 DEF Reader!Take
  <2>2. \A i \in 1..Len(piece) : piece[i] # Reader!NL
    BY <1>1 DEF Reader!Contains
  <2> HIDE DEF t
  <2> QED
    BY <1>1, <2>1, <2>2 DEF t
<1>2. CASE Reader!Contains(piece, Reader!NL)
  <2> DEFINE S == {i \in 1..Len(piece) : piece[i] = Reader!NL}
             m == Reader!Min(S)
  <2>1. S # {} /\ S \in SUBSET Nat
    BY <1>2 DEF Reader!Contains
  <2>2. t = m - 1
    BY <1>2, <2>1 DEF Reader!Take, Reader!SelectInSeq
  <2>3. m \in S /\ \A j \in S : m <= j
    <3> HIDE DEF S
    <3>1. \E i \in S : \A j \in S : i <= j
      BY <2>1, Least
    <3> QED
      BY <3>1 DEF Reader!Min
  <2> HIDE DEF m
  <2>4. m \in 1..Len(piece) /\ piece[m] = Reader!NL
    BY <2>3
  <2>5. t \in Nat /\ t + 1 = m
    BY <2>2, <2>4
  <2>6. ASSUME NEW i \in 1..t PROVE piece[i] # Reader!NL
    <3> HIDE DEF t
    <3>1. i < m /\ i \in 1..Len(piece)
      BY <2>4, <2>5
    <3> QED
      BY <2>3, <2>4, <3>1
  <2> HIDE DEF t
  <2>7. t + 1 \in 1..Len(piece) /\ piece[t + 1] = Reader!NL
    BY <2>4, <2>5
  <2> QED
    BY <1>2, <2>5, <2>6, <2>7 DEF t
<1> QED
  BY <1>1, <1>2

(* A piece with a newline ends the line, and the calls have returned it;    *)
(* one without is part of it.                                               *)
LEMMA ConsumeStep == ASSUME ReaderInv, Reader!Consume PROVE ReaderInv'
<1> DEFINE t == Reader!Take(available)
           ended == Reader!Contains(available, Reader!NL)
           size == Pos - Start(Pos) + t
<1>1. /\ ReaderTypes /\ Cut /\ Len(whole) \in Nat /\ MaxLine \in Nat /\ Pos \in Nat
      /\ Len(stream) \in Nat /\ Len(available) \in Nat /\ Len(available) # 0
      /\ Len(whole) = Pos + Len(available) + Len(stream)
  <2>1. ReaderTypes /\ Cut /\ Len(whole) \in Nat /\ Pos \in Nat /\ MaxLine \in Nat
    BY PartsAssumption DEF ReaderInv, ReaderTypes, Reader!Bounds, Cut
  <2>2. Len(stream) \in Nat /\ Len(available) \in Nat
    BY <2>1 DEF ReaderTypes
  <2>3. Len(available) # 0
    BY <2>1 DEF ReaderTypes, Reader!Consume
  <2>4. Len(whole) = Pos + Len(available) + Len(stream)
    BY <2>1, <2>2 DEF Pos
  <2> QED
    BY <2>1, <2>2, <2>3, <2>4
<1>2. /\ t \in Nat /\ \A i \in 1..t : available[i] # Reader!NL
      /\ ended => t + 1 \in 1..Len(available) /\ available[t + 1] = Reader!NL
      /\ ~ended => t = Len(available)
  BY <1>1, TakeFirst DEF ReaderTypes
<1>3. /\ available' = SubSeq(available, t + (IF ended THEN 2 ELSE 1), Len(available))
      /\ stream' = stream /\ whole' = whole
      /\ IF ended
         THEN /\ out' = Append(out, IF Reader!Over(t) THEN Reader!TooLong
                                    ELSE Reader!Line(buffer + t))
              /\ buffer' = 0 /\ too_long' = FALSE
         ELSE buffer' = Reader!Kept(t) /\ too_long' = Reader!Over(t) /\ out' = out
  BY DEF Reader!Consume, Reader!Return
<1>4. Serving
  <2>1. Pos # Len(whole)
    BY <1>1
  <2> QED
    BY <2>1 DEF ReaderInv, Ending
<1>5. /\ Reader!Ends \subseteq 1..Len(whole) /\ (\A j \in Reader!Ends : j \in Nat \ {0})
      /\ Start(Pos) \in 0..Pos /\ size \in Nat /\ size = Pos + t - Start(Pos)
  <2>1. /\ Reader!Ends \subseteq 1..Len(whole)
        /\ \A j \in Reader!Ends : j \in Nat \ {0}
    BY <1>1, EndsFinite DEF ReaderTypes
  <2>2. Start(Pos) \in 0..Pos
    BY <1>1, StartIsLast DEF ReaderTypes
  <2> HIDE DEF t, Pos, Start
  <2> QED
    BY <1>1, <1>2, <2>1, <2>2
<1>6. Reader!Over(t) <=> size > MaxLine
  <2> HIDE DEF t, Pos, Start
  <2>1. CASE too_long
    BY <1>1, <1>2, <1>4, <1>5, <2>1 DEF Serving, Reader!Over
  <2>2. CASE ~too_long
    BY <1>1, <1>2, <1>4, <1>5, <2>2 DEF Serving, Reader!Over
  <2> QED
    BY <2>1, <2>2
<1>7. ~Reader!Over(t) => buffer + t = size /\ buffer + t \in 0..MaxLine
  <2> HIDE DEF t, Pos, Start
  <2>1. ~Reader!Over(t) => ~too_long /\ size <= MaxLine
    BY <1>1, <1>5, <1>6 DEF Reader!Over
  <2> QED
    BY <1>1, <1>2, <1>4, <1>5, <2>1 DEF Serving
<1>8. \A j \in Reader!Ends : j <= Pos + t => j <= Pos
  <2> SUFFICES ASSUME NEW j \in Reader!Ends, j <= Pos + t, ~(j <= Pos) PROVE FALSE
    OBVIOUS
  <2> HIDE DEF t, Pos, Start, ended
  <2>1. j - Pos \in 1..t /\ j - Pos \in 1..Len(available) /\ Pos + (j - Pos) = j
    BY <1>1, <1>2, <1>5
  <2>2. available[j - Pos] = whole[j]
    BY <1>1, <2>1 DEF Cut
  <2>3. whole[j] = Reader!NL
    BY DEF Reader!Ends
  <2> QED
    BY <1>2, <2>1, <2>2, <2>3
<1>9. ASSUME NEW c \in 1..Len(available), available' = SubSeq(available, c + 1, Len(available))
      PROVE  Pos' = Pos + c /\ Cut' /\ available' \in Seq(Reader!Bytes)
  <2>1. /\ available' \in Seq(Reader!Bytes) /\ Len(available') = Len(available) - c
        /\ \A i \in 1..Len(available) - c : available'[i] = available[c + i]
    <3>1. available \in Seq(Reader!Bytes)
      BY <1>1 DEF ReaderTypes
    <3> DEFINE s == SubSeq(available, c + 1, Len(available))
    <3>2. c + 1 \in 1..Len(available) + 1 /\ c \in Nat
      BY <1>1
    <3>3. s \in Seq(Reader!Bytes)
      BY <1>1, <3>1, <3>2
    <3>4. Len(s) = Len(available) - c
      BY <1>1, <3>1, <3>2
    <3>5. \A i \in 1..Len(available) - c : s[i] = available[c + i]
      BY <1>1, <3>1, <3>2
    <3> HIDE DEF s
    <3> QED
      BY <1>9, <3>3, <3>4, <3>5 DEF s
  <2>2. Pos' = Len(whole) - Len(stream) - Len(available')
    BY <1>3 DEF Pos
  <2>3. Pos' = Pos + c
    <3> HIDE DEF Pos
    <3> QED
      BY <1>1, <2>1, <2>2
  <2> HIDE DEF Pos, t, ended
  <2>4. ASSUME NEW i \in 1..Len(available') PROVE available'[i] = whole[Pos + c + i]
    <3>1. c + i \in 1..Len(available) /\ Pos + (c + i) = Pos + c + i
          /\ i \in 1..Len(available) - c
      BY <1>1, <2>1
    <3>2. available[c + i] = whole[Pos + (c + i)]
      BY <1>1, <3>1 DEF Cut
    <3> QED
      BY <2>1, <3>1, <3>2
  <2>5. ASSUME NEW i \in 1..Len(stream)
        PROVE  stream[i] = whole[Pos + c + Len(available') + i]
    <3>1. Pos + c + Len(available') = Pos + Len(available)
      BY <1>1, <2>1
    <3> QED
      BY <1>1, <3>1 DEF Cut
  <2>6. Pos + c \in Nat
    BY <1>1
  <2> QED
    BY <1>3, <2>1, <2>3, <2>4, <2>5, <2>6 DEF Cut
<1>10. CASE ended
  <2> DEFINE e == Pos + t + 1
             n == Len(out)
  <2>1. t + 1 \in 1..Len(available) /\ (t + 1) + 1 = t + 2
    BY <1>2, <1>10
  <2>2. Pos' = Pos + (t + 1) /\ Cut' /\ available' \in Seq(Reader!Bytes)
    <3>1. available' = SubSeq(available, (t + 1) + 1, Len(available))
      BY <1>3, <1>10, <2>1
    <3> HIDE DEF t, Pos, ended
    <3> QED
      BY <1>9, <2>1, <3>1
  <2> HIDE DEF t, Pos, ended, Start, UpTo
  <2>3. Pos' = e /\ e \in Nat /\ Pos < e /\ e - Start(Pos) - 1 = size
    BY <1>1, <1>2, <1>5, <2>2
  <2>4. e \in Reader!Ends
    <3>1. e \in 1..Len(whole)
      BY <1>1, <1>2, <2>1
    <3>2. available[t + 1] = whole[Pos + (t + 1)] /\ Pos + (t + 1) = e
      BY <1>1, <1>2, <2>1 DEF Cut
    <3>3. whole[e] = Reader!NL
      BY <1>2, <1>10, <3>2
    <3> QED
      BY <3>1, <3>3 DEF Reader!Ends
  <2>5. \A j \in Reader!Ends : j < e => j <= Pos
    <3> SUFFICES ASSUME NEW j \in Reader!Ends, j < e PROVE j <= Pos
      OBVIOUS
    <3>1. j \in Nat /\ j <= Pos + t
      BY <1>1, <1>2, <1>5, <2>3
    <3> QED
      BY <1>8, <3>1
  <2>6. e - Start(Pos) - 1 = size
    BY <2>3
  <2> HIDE DEF e, size
  <2>7. whole \in Seq(Reader!Bytes) /\ out \in Seq(Outcome) /\ n \in Nat
    BY <1>1 DEF ReaderTypes
  <2>8. n = Cardinality(UpTo(Pos)) /\ \A i \in 1..n : out[i] = Reader!Terminated[i]
                                                   /\ out[i] # Reader!Eof
    BY <1>4 DEF Serving
  <2>9. n + 1 = Cardinality(UpTo(e)) /\ Reader!Terminated[n + 1] = Reader!Verdict(size)
    BY <1>1, <2>3, <2>4, <2>5, <2>6, <2>7, <2>8, NextVerdict
  <2>10. Start(e) = e
    BY <1>1, <2>3, <2>4, <2>5, <2>7, NewlineNext
  <2>11. out' = Append(out, Reader!Verdict(size))
    <3>1. CASE Reader!Over(t)
      BY <1>3, <1>6, <1>10, <3>1 DEF Reader!Verdict
    <3>2. CASE ~Reader!Over(t)
      BY <1>3, <1>6, <1>7, <1>10, <3>2 DEF Reader!Verdict
    <3> QED
      BY <3>1, <3>2
  <2>12. Reader!Verdict(size) \in Outcome /\ Reader!Verdict(size) # Reader!Eof
    BY <1>5, VerdictTyped
  <2> HIDE DEF n
  <2>13. /\ out' \in Seq(Outcome) /\ Len(out') = n + 1 /\ out'[n + 1] = Reader!Verdict(size)
         /\ \A i \in 1..n : out'[i] = out[i]
    <3>1. n = Len(out)
      BY DEF n
    <3> QED
      BY <2>7, <2>11, <2>12, <3>1
  <2>14. buffer' = 0 /\ ~too_long' /\ too_long' \in BOOLEAN /\ 0 \in 0..MaxLine
    <3>1. buffer' = 0 /\ too_long' = FALSE
      BY <1>3, <1>10
    <3>2. ~too_long' /\ too_long' \in BOOLEAN
      BY <3>1, Zenon
    <3> QED
      BY <1>1, <3>1, <3>2
  <2>15. ReaderTypes'
    BY <1>1, <1>3, <2>2, <2>13, <2>14 DEF ReaderTypes
  <2>16. Serving'
    <3>1. /\ Reader!Terminated' = Reader!Terminated
          /\ \A p : Start(p)' = Start(p) /\ UpTo(p)' = UpTo(p)
      BY <1>3, SameOwed
    <3>2. \A p : (Reader!Eof)' = Reader!Eof
      BY DEF Reader!Eof
    <3>3. Start(Pos)' = e /\ UpTo(Pos)' = UpTo(e)
      <4>1. Start(Pos)' = Start(e)
        BY <1>3, <2>3, <3>1 DEF Start, Reader!StartOf, Reader!Ends
      <4>2. UpTo(Pos)' = UpTo(e)
        BY <1>3, <2>3, <3>1 DEF UpTo, Reader!Ends
      <4> QED
        BY <2>10, <4>1, <4>2
    <3>4. \A i \in 1..n + 1 : out'[i] = Reader!Terminated[i] /\ out'[i] # Reader!Eof
      <4> SUFFICES ASSUME NEW i \in 1..n + 1
                   PROVE  out'[i] = Reader!Terminated[i] /\ out'[i] # Reader!Eof
        OBVIOUS
      <4>1. i = n + 1 \/ i \in 1..n
        BY <2>7 DEF n
      <4> QED
        BY <2>8, <2>9, <2>12, <2>13, <4>1
    <3>5. Pos' - Start(Pos)' = 0
      BY <2>3, <3>3
    <3>6. Cardinality(UpTo(Pos)') = n + 1
      BY <2>9, <3>3
    <3>7. \A i \in 1..Len(out') : out'[i] = Reader!Terminated' [i] /\ out'[i] # (Reader!Eof)'
      BY <2>13, <3>1, <3>2, <3>4
    <3> QED
      BY <2>13, <2>14, <3>5, <3>6, <3>7 DEF Serving
  <2> QED
    BY <2>2, <2>15, <2>16 DEF ReaderInv
<1>11. CASE ~ended
  <2>1. t = Len(available) /\ t \in 1..Len(available)
    BY <1>1, <1>2, <1>11
  <2>2. Pos' = Pos + t /\ Cut' /\ available' \in Seq(Reader!Bytes)
    <3>1. available' = SubSeq(available, t + 1, Len(available))
      BY <1>3, <1>11
    <3> HIDE DEF t, Pos, ended
    <3> QED
      BY <1>9, <2>1, <3>1
  <2> DEFINE q == Pos + t
  <2> HIDE DEF t, Pos, ended
  <2>3. q \in Nat /\ Pos <= q
    BY <1>1, <1>2
  <2>4. Start(q) = Start(Pos) /\ UpTo(q) = UpTo(Pos)
    <3> HIDE DEF q
    <3>1. \A j \in Reader!Ends : j <= q => j <= Pos
      BY <1>8 DEF q
    <3> QED
      BY <1>1, <2>3, <3>1, NoNewline DEF ReaderTypes
  <2> HIDE DEF Start, UpTo
  <2>5. q - Start(Pos) = size
    BY <1>1, <1>2, <1>5
  <2>6. /\ buffer' \in 0..MaxLine /\ too_long' \in BOOLEAN
        /\ IF too_long' THEN size > MaxLine /\ buffer' = 0 ELSE buffer' = size
    <3>1. buffer' = Reader!Kept(t) /\ (too_long' <=> Reader!Over(t)) /\ too_long' \in BOOLEAN
      <4>1. buffer' = Reader!Kept(t) /\ too_long' = Reader!Over(t)
        BY <1>3, <1>11
      <4>2. Reader!Over(t) \in BOOLEAN
        BY <1>1 DEF Reader!Over, ReaderTypes
      <4> QED
        BY <4>1, <4>2, Zenon
    <3>2. CASE Reader!Over(t)
      <4>1. buffer' = 0 /\ size > MaxLine /\ too_long'
        BY <1>6, <3>1, <3>2 DEF Reader!Kept
      <4> QED
        BY <1>1, <3>1, <4>1
    <3>3. CASE ~Reader!Over(t)
      <4>1. buffer' = buffer + t /\ ~too_long'
        BY <3>1, <3>3 DEF Reader!Kept
      <4> QED
        BY <1>7, <3>1, <3>3, <4>1
    <3> QED
      BY <3>2, <3>3
  <2>7. out' = out
    BY <1>3, <1>11
  <2>8. ReaderTypes'
    BY <1>1, <1>3, <2>2, <2>6, <2>7 DEF ReaderTypes
  <2>9. Serving'
    <3>1. /\ Reader!Terminated' = Reader!Terminated
          /\ \A p : Start(p)' = Start(p) /\ UpTo(p)' = UpTo(p)
      BY <1>3, SameOwed
    <3>2. Start(Pos)' = Start(Pos) /\ UpTo(Pos)' = UpTo(Pos)
      <4>1. Start(Pos)' = Start(q)
        BY <1>3, <2>2 DEF Start, Reader!StartOf, Reader!Ends
      <4>2. UpTo(Pos)' = UpTo(q)
        BY <1>3, <2>2 DEF UpTo, Reader!Ends
      <4> QED
        BY <2>4, <4>1, <4>2
    <3>3. Pos' - Start(Pos)' = size
      BY <2>2, <2>5, <3>2
    <3>4. (Reader!Eof)' = Reader!Eof
      BY DEF Reader!Eof
    <3> HIDE DEF size
    <3> QED
      BY <1>4, <2>6, <2>7, <3>1, <3>2, <3>3, <3>4 DEF Serving
  <2> QED
    BY <2>2, <2>8, <2>9 DEF ReaderInv
<1> QED
  BY <1>10, <1>11

(* Every step of the reader keeps the account.                              *)
LEMMA ReaderStep == ReaderInv /\ [Reader!Next]_(Reader!vars) => ReaderInv'
<1> SUFFICES ASSUME ReaderInv, [Reader!Next]_(Reader!vars) PROVE ReaderInv'
  OBVIOUS
<1>1. ASSUME NEW n \in 1..MaxStream, Reader!FillBuf(n) PROVE ReaderInv'
  <2>1. n \in Nat
    BY PartsAssumption DEF Reader!Bounds
  <2> QED
    BY <1>1, <2>1, FillStep
<1>2. CASE UNCHANGED Reader!vars
  <2>1. UNCHANGED <<stream, whole, available, buffer, too_long, out>>
    BY <1>2 DEF Reader!vars
  <2>2. Pos' = Pos
    BY <2>1 DEF Pos
  <2>3. ReaderTypes' /\ Cut'
    BY <2>1, <2>2 DEF ReaderInv, ReaderTypes, Cut
  <2>4. Serving => Serving'
    BY <2>1, <2>2, SameOwed DEF Serving
  <2>5. Ending => Ending'
    BY <2>1, <2>2, SameOwed DEF Ending
  <2> QED
    BY <2>3, <2>4, <2>5 DEF ReaderInv
<1> QED
  BY <1>1, <1>2, EndingStep, ConsumeStep DEF Reader!Next, Reader!Done

(* The reader keeps its account, always.                                    *)
LEMMA ReaderAlways == Reader!Spec => []ReaderInv
BY ReaderStart, ReaderStep, PTL DEF Reader!Spec

(* What agrees with the beginning of a sequence is one.                     *)
LEMMA BeginningIsPrefix ==
  ASSUME NEW S, NEW s \in Seq(S), NEW z \in Seq(S), Len(s) <= Len(z),
         \A i \in 1..Len(s) : s[i] = z[i]
  PROVE  Reader!IsPrefix(s, z)
<1>1. /\ SubSeq(s, 1, Len(s)) \in Seq(S) /\ SubSeq(z, 1, Len(s)) \in Seq(S)
      /\ Len(SubSeq(s, 1, Len(s))) = Len(s) /\ Len(SubSeq(z, 1, Len(s))) = Len(s)
      /\ \A i \in 1..Len(s) : SubSeq(s, 1, Len(s))[i] = s[i]
      /\ \A i \in 1..Len(s) : SubSeq(z, 1, Len(s))[i] = z[i]
  OBVIOUS
<1>2. SubSeq(s, 1, Len(s)) = SubSeq(z, 1, Len(s))
  BY <1>1
<1> QED
  BY <1>2 DEF Reader!IsPrefix

(* However the stream is cut into pieces, what is returned is the beginning *)
(* of what it says read at once, and all of it at the end: for streams of   *)
(* any length and lines of any length, too long or not (main.rs,            *)
(* read_bounded_line).                                                      *)
THEOREM LinesServedAsSent == Reader!Spec => []LinesAsSent
<1>1. ReaderInv => LinesAsSent
  <2> SUFFICES ASSUME ReaderInv PROVE Reader!LinesAsSent
    BY DEF LinesAsSent
  <2> DEFINE T == Reader!Terminated
             n == Cardinality(Reader!Ends)
             V == Reader!Verdict(Reader!Rest)
             U == IF Reader!Rest = 0 THEN <<>> ELSE <<V>>
             All == {T[i] : i \in 1..n} \cup Outcome
  <2>1. /\ ReaderTypes /\ out \in Seq(Outcome) /\ Reader!Rest \in Nat
        /\ T \in Seq({T[i] : i \in 1..n}) /\ Len(T) = n /\ n \in Nat
        /\ \A i \in 1..n : T[i] # Reader!Eof
    <3>1. ReaderTypes
      BY DEF ReaderInv
    <3> HIDE DEF T, n
    <3>2. /\ Reader!Rest \in Nat /\ T \in Seq({T[i] : i \in 1..n}) /\ Len(T) = n
          /\ \A i \in 1..n : T[i] # Reader!Eof
      BY <3>1, OwedIsSeq DEF ReaderTypes, T, n
    <3>3. n \in Nat
      BY <3>2
    <3> QED
      BY <3>1, <3>2, <3>3 DEF ReaderTypes
  <2>2. V \in Outcome /\ Reader!Eof \in Outcome
    BY <2>1, VerdictTyped DEF Outcome
  <2>3. Reader!Requests = T \o U \o <<Reader!Eof>>
    BY DEF Reader!Requests
  <2> HIDE DEF T, n, V
  <2>4. T \in Seq(All) /\ out \in Seq(All) /\ U \in Seq(All) /\ Len(U) \in Nat
        /\ <<Reader!Eof>> \in Seq(All)
    <3>1. {T[i] : i \in 1..n} \subseteq All /\ Outcome \subseteq All
      OBVIOUS
    <3> HIDE DEF All
    <3>2. V \in All /\ Reader!Eof \in All
      BY <2>2, <3>1
    <3>3. T \in Seq(All)
      BY <2>1, <3>1
    <3>4. out \in Seq(All)
      BY <2>1, <3>1
    <3>5. U \in Seq(All) /\ Len(U) \in Nat
      BY <3>2
    <3> QED
      BY <3>2, <3>3, <3>4, <3>5
  <2> HIDE DEF All, U
  <2>5. /\ Reader!Requests \in Seq(All)
        /\ Len(Reader!Requests) = n + Len(U) + 1
        /\ \A i \in 1..n : Reader!Requests[i] = T[i]
    <3>0. T \in Seq(All) /\ U \in Seq(All) /\ Len(T) = n /\ n \in Nat /\ Len(U) \in Nat
      BY <2>1, <2>4
    <3>7. T \o U \in Seq(All)
      BY <3>0
    <3>8. Len(T \o U) = n + Len(U)
      BY <3>0
    <3>9. \A i \in 1..n : (T \o U)[i] = T[i]
      BY <3>0
    <3>1. T \o U \in Seq(All) /\ Len(T \o U) = n + Len(U)
          /\ \A i \in 1..n : (T \o U)[i] = T[i]
      BY <3>7, <3>8, <3>9
    <3> DEFINE s == T \o U
    <3>2. s \in Seq(All) /\ Len(s) = n + Len(U) /\ \A i \in 1..n : s[i] = T[i]
      BY <3>1
    <3>3. Reader!Requests = s \o <<Reader!Eof>>
      BY <2>3
    <3> HIDE DEF s
    <3> DEFINE z == <<Reader!Eof>>
    <3>6. z \in Seq(All) /\ Len(z) = 1
      BY <2>4
    <3> HIDE DEF z
    <3>4. Reader!Requests \in Seq(All) /\ Len(Reader!Requests) = n + Len(U) + 1
      <4>1. s \in Seq(All) /\ z \in Seq(All)
        BY <3>2, <3>6
      <4>2. s \o z \in Seq(All)
        BY <4>1
      <4>3. Len(s \o z) = Len(s) + Len(z)
        BY <4>1
      <4> QED
        BY <3>2, <3>3, <3>6, <4>2, <4>3 DEF z
    <3>5. ASSUME NEW i \in 1..n PROVE Reader!Requests[i] = T[i]
      <4>1. i \in 1..Len(s)
        BY <2>1, <2>4, <3>2
      <4>2. (s \o z)[i] = s[i]
        BY <3>2, <3>6, <4>1
      <4> QED
        BY <3>2, <3>3, <4>2 DEF z
    <3> QED
      BY <3>4, <3>5
  <2>6. CASE Serving
    <3>1. Len(out) <= n
      BY <2>1, <2>6, EndsFinite DEF Serving, ReaderTypes, n
    <3>2. Len(out) \in Nat /\ \A i \in 1..Len(out) : out[i] = T[i] /\ out[i] # Reader!Eof
      BY <2>1, <2>6 DEF Serving, T
    <3>3. \A i \in 1..Len(out) : out[i] = Reader!Requests[i]
      BY <2>1, <2>5, <3>1, <3>2
    <3>4. Len(out) <= Len(Reader!Requests)
      BY <2>1, <2>4, <2>5, <3>1, <3>2
    <3>5. Reader!IsPrefix(out, Reader!Requests)
      <4>1. out \in Seq(All) /\ Reader!Requests \in Seq(All)
        BY <2>4, <2>5
      <4> QED
        BY <3>3, <3>4, <4>1, BeginningIsPrefix
    <3>6. ~Reader!Contains(out, Reader!Eof)
      BY <3>2 DEF Reader!Contains
    <3> QED
      BY <3>5, <3>6 DEF Reader!LinesAsSent
  <2>7. CASE Reader!Rest # 0 /\ out = Append(T, V)
    <3>1. U = <<V>> /\ Len(U) = 1
      BY <2>7 DEF U
    <3>2. Reader!Requests = out \o <<Reader!Eof>>
      <4>1. T \o <<V>> = Append(T, V)
        BY <2>1
      <4> QED
        BY <2>3, <2>7, <3>1, <4>1
    <3>3. Len(out) = n + 1 /\ \A i \in 1..Len(out) : Reader!Requests[i] = out[i]
      BY <2>1, <2>4, <2>7, <3>2
    <3>4. Reader!IsPrefix(out, Reader!Requests)
      <4>1. out \in Seq(All) /\ Reader!Requests \in Seq(All)
        BY <2>4, <2>5
      <4>2. Len(Reader!Requests) = n + 2 /\ n \in Nat
        BY <2>1, <2>5, <3>1
      <4>3. Len(out) <= Len(Reader!Requests)
        BY <3>3, <4>2
      <4>4. \A i \in 1..Len(out) : out[i] = Reader!Requests[i]
        BY <3>3
      <4> QED
        BY <4>1, <4>3, <4>4, BeginningIsPrefix
    <3>5. ~Reader!Contains(out, Reader!Eof)
      <4> SUFFICES ASSUME NEW i \in 1..Len(out), out[i] = Reader!Eof PROVE FALSE
        BY DEF Reader!Contains
      <4>1. V # Reader!Eof
        BY <2>1, VerdictTyped DEF V
      <4>2. i \in 1..n \/ i = n + 1
        BY <2>1, <3>3
      <4>3. out[n + 1] = V /\ \A j \in 1..n : out[j] = T[j]
        BY <2>1, <2>4, <2>7
      <4> QED
        BY <2>1, <4>1, <4>2, <4>3
    <3> QED
      BY <3>4, <3>5 DEF Reader!LinesAsSent
  <2>8. CASE out = Reader!Requests
    <3>1. Reader!IsPrefix(out, Reader!Requests)
      BY <2>4, <2>8, BeginningIsPrefix
    <3> QED
      BY <2>8, <3>1 DEF Reader!LinesAsSent
  <2> QED
    BY <2>6, <2>7, <2>8 DEF ReaderInv, Ending, T, V
<1> QED
  BY <1>1, ReaderAlways, PTL

(* The types of LineReader. *)
LEMMA ReaderTypesOK == ReaderInv => Reader!TypeOK
BY DEF ReaderInv, ReaderTypes, Outcome, Reader!TypeOK

(* However long it runs, the reader holds no more of a line than may be one.*)
THEOREM ReaderTyped == Reader!Spec => []Reader!TypeOK
BY ReaderTypesOK, ReaderAlways, PTL

-----------------------------------------------------------------------------
(* How far dates move. *)

(* A clock is less than a day from UTC, read either way.                    *)
LEMMA WithinADay ==
  ASSUME Dates!Bounds, NEW zone \in Zones, NEW i \in Int
  PROVE  /\ Dates!naive_local(zone, i) \in Int
         /\ i - DayLength < Dates!naive_local(zone, i)
         /\ Dates!naive_local(zone, i) < i + DayLength
         /\ Dates!anchor(zone, i) \in Int
         /\ i - DayLength < Dates!anchor(zone, i) /\ Dates!anchor(zone, i) < i + DayLength
<1>1. /\ zone.switch \in Int /\ DayLength \in Nat
      /\ zone.before \in 1 - DayLength..DayLength - 1
      /\ zone.after \in 1 - DayLength..DayLength - 1
  BY DEF Dates!Bounds
<1> DEFINE n == Dates!naive_local(zone, i)
           a == Dates!anchor(zone, i)
<1>2. n = IF i < zone.switch THEN i + zone.before ELSE i + zone.after
  BY DEF Dates!naive_local, Dates!Offset
<1>3. a = IF i < zone.switch + zone.before THEN i - zone.before
          ELSE IF i < zone.switch + zone.after THEN zone.switch
          ELSE i - zone.after
  BY AnchorIs
<1> HIDE DEF n, a
<1>4. n \in Int /\ i - DayLength < n /\ n < i + DayLength
  BY <1>1, <1>2
<1>5. a \in Int /\ i - DayLength < a /\ a < i + DayLength
  BY <1>1, <1>3
<1> QED
  BY <1>4, <1>5 DEF n, a

(* A clock time is on a day or after it, from that day's midnight on.       *)
LEMMA OnOrAfter ==
  ASSUME Dates!Bounds, NEW m \in Int, NEW w \in Int
  PROVE  Dates!DayOf(w) \in Int /\ (Dates!DayOf(w) >= m <=> w >= Midnight(m))
<1> DEFINE d == Dates!DayOf(w)
<1>1. DayLength \in Nat \ {0}
  BY DEF Dates!Bounds
<1>2. d \in Int /\ Midnight(d) \in Int /\ Midnight(d) <= w /\ w < Midnight(d) + DayLength
  BY DayOfTime
<1>3. Midnight(m) \in Int
  BY <1>1 DEF Midnight
<1> HIDE DEF d
<1>4. d < m => Midnight(d) + DayLength <= Midnight(m)
  BY <1>1, <1>2, DayAfterDay DEF Midnight
<1>5. m < d => Midnight(m) + DayLength <= Midnight(d)
  BY <1>1, <1>2, DayAfterDay DEF Midnight
<1>6. d \in Int /\ (d >= m <=> w >= Midnight(m))
  <2>1. CASE d < m
    BY <1>1, <1>2, <1>3, <1>4, <2>1
  <2>2. CASE d = m
    BY <1>2, <2>2
  <2>3. CASE m < d
    BY <1>1, <1>2, <1>3, <1>5, <2>3
  <2> QED
    BY <1>2, <2>1, <2>2, <2>3
<1> QED
  BY <1>6 DEF d

(* What an upload makes of a date: the same, or an earlier one, before the  *)
(* clock of the record was changed, that another upload leaves.             *)
LEMMA UploadMoves ==
  ASSUME Dates!Bounds, NEW zone \in Zones, NEW i \in Int
  PROVE  LET j == Dates!anchor(zone, Dates!naive_local(zone, i)) IN
         \/ j = i
         \/ j \in Int /\ i >= zone.switch /\ j < zone.switch
            /\ j < i /\ i - 2 * DayLength < j
<1>1. /\ zone.switch \in Int /\ DayLength \in Nat
      /\ zone.before \in 1 - DayLength..DayLength - 1
      /\ zone.after \in 1 - DayLength..DayLength - 1
  BY DEF Dates!Bounds
<1> DEFINE w == Dates!naive_local(zone, i)
           j == Dates!anchor(zone, w)
<1>2. w = IF i < zone.switch THEN i + zone.before ELSE i + zone.after
  BY DEF Dates!naive_local, Dates!Offset
<1> HIDE DEF w
<1>3. j = IF w < zone.switch + zone.before THEN w - zone.before
          ELSE IF w < zone.switch + zone.after THEN zone.switch
          ELSE w - zone.after
  BY <1>1, <1>2, AnchorIs
<1> HIDE DEF j
<1>4. \/ j = i
      \/ j \in Int /\ i >= zone.switch /\ j < zone.switch /\ j < i /\ i - 2 * DayLength < j
  BY <1>1, <1>2, <1>3
<1> QED
  BY <1>4 DEF j, w

(* A date is on one of the days there are or two before, and not after them;*)
(* or it has been moved to the first of two equal clock times, and will not *)
(* be again while the record keeps its zone.                                *)
NoDrift ==
  /\ due < Horizon + DayLength
  /\ \/ Dates!LocalDay(due) >= -2
     \/ Dates!LocalDay(due) >= -6 /\ due < Dates!named_zone(record.zone).switch
  /\ record.due \in Dates!Reach

(* What a device gives is no further from its days than its clock from UTC. *)
LEMMA GivenNear ==
  ASSUME Dates!Bounds, local_zone \in Zones, NEW i \in Int, -DayLength < i
  PROVE  Dates!LocalDay(i) \in Int /\ Dates!LocalDay(i) >= -2
<1>1. DayLength \in Nat \ {0}
  BY DEF Dates!Bounds
<1> DEFINE w == Dates!naive_local(local_zone, i)
<1>2. w \in Int /\ i - DayLength < w
  BY WithinADay
<1>3. Dates!LocalDay(i) = Dates!DayOf(w)
  BY DEF Dates!LocalDay
<1> HIDE DEF w
<1>4. w >= Midnight(-2)
  BY <1>1, <1>2 DEF Midnight
<1> QED
  BY <1>2, <1>3, <1>4, OnOrAfter

(* A date with no drift is within reach.                                    *)
LEMMA NoDriftReach ==
  ASSUME Dates!Bounds, local_zone \in Zones, due \in Int, NoDrift
  PROVE  due \in Dates!Reach /\ due > -(7 * DayLength) /\ due < Horizon + DayLength
<1>1. DayLength \in Nat \ {0} /\ Horizon \in Nat
  BY DEF Dates!Bounds
<1> DEFINE w == Dates!naive_local(local_zone, due)
<1>2. w \in Int /\ w < due + DayLength
  BY WithinADay
<1>3. Dates!LocalDay(due) = Dates!DayOf(w)
  BY DEF Dates!LocalDay
<1> HIDE DEF w
<1>4. Dates!DayOf(w) \in Int /\ Dates!DayOf(w) >= -6
  <2>1. Dates!DayOf(w) \in Int
    BY <1>2, OnOrAfter
  <2> QED
    BY <1>3, <2>1 DEF NoDrift
<1>5. w >= Midnight(-6)
  BY <1>2, <1>4, OnOrAfter
<1>6. due > -(7 * DayLength)
  BY <1>1, <1>2, <1>5 DEF Midnight
<1> QED
  BY <1>1, <1>6 DEF NoDrift, Dates!Reach

(* A date that is given, or made one of a whole day, does not drift.        *)
LEMMA SetStays ==
  ASSUME Dates!Bounds, local_zone \in Zones, NEW given \in Int, NEW all_day \in BOOLEAN
  PROVE  LET new == Dates!normalize_due(given, all_day) IN
         new \in Int /\ new <= given /\ Dates!LocalDay(new) = Dates!LocalDay(given)
BY DayKept DEF Dates!normalize_due

(* A download shows a date of another device.                               *)
LEMMA NoDriftStart == ASSUME Dates!Bounds, DatesInv, Dates!Init PROVE NoDrift
<1>1. /\ local_zone \in Zones /\ DayLength \in Nat \ {0} /\ Horizon \in Nat
      /\ record \in [due : Int, zone : Zones \cup {Floating}, allDay : BOOLEAN]
      /\ record.due \in 0..Horizon /\ due = Dates!Shown(record)
  <2>1. record.due \in 0..Horizon
    BY DEF Dates!Init, Dates!Walls
  <2> QED
    BY <2>1 DEF Dates!Bounds, Dates!Init, DatesInv, DatesTyped
<1> DEFINE zone == Dates!named_zone(record.zone)
<1>2. zone \in Zones /\ due = Dates!anchor(zone, record.due)
  BY <1>1, ShownTyped
<1> HIDE DEF zone
<1>3. due \in Int /\ record.due - DayLength < due /\ due < record.due + DayLength
  BY <1>1, <1>2, WithinADay
<1>4. Dates!LocalDay(due) >= -2
  BY <1>1, <1>3, GivenNear
<1>5. due < Horizon + DayLength /\ record.due \in Dates!Reach
  BY <1>1, <1>3 DEF Dates!Reach
<1> QED
  BY <1>4, <1>5 DEF NoDrift

(* No step makes a date drift. *)
LEMMA NoDriftStep ==
  ASSUME Dates!Bounds, DatesInv, DatesInv', NoDrift, [Dates!Next]_(Dates!vars) PROVE NoDrift'
<1>1. /\ local_zone \in Zones /\ due \in Int
      /\ DayLength \in Nat \ {0} /\ Horizon \in Nat
      /\ record \in [due : Int, zone : Zones \cup {Floating}, allDay : BOOLEAN]
  BY DEF Dates!Bounds, DatesInv, DatesTyped
<1>2. local_zone' = local_zone
  BY DEF Dates!Next, Dates!update_due, Dates!update_all_day, Dates!update_fields, Dates!SetDue,
     Dates!OtherDevice, Dates!vars
<1>3. Dates!LocalDay(due)' = Dates!LocalDay(due') /\ Dates!Reach' = Dates!Reach
  BY <1>2 DEF Dates!LocalDay, Dates!Reach
<1>4. ASSUME UNCHANGED record PROVE Dates!named_zone(record.zone)' = Dates!named_zone(record.zone)
  BY <1>2, <1>4 DEF Dates!named_zone
<1>5. ASSUME NEW all_day \in BOOLEAN, Dates!update_due(all_day) PROVE NoDrift'
  <2>1. \A w \in Dates!Walls : /\ Dates!anchor(local_zone, w) \in Int
                               /\ -DayLength < Dates!anchor(local_zone, w)
                               /\ Dates!anchor(local_zone, w) < Horizon + DayLength
    <3> SUFFICES ASSUME NEW w \in Dates!Walls
                 PROVE  /\ Dates!anchor(local_zone, w) \in Int
                        /\ -DayLength < Dates!anchor(local_zone, w)
                        /\ Dates!anchor(local_zone, w) < Horizon + DayLength
      OBVIOUS
    <3>1. w \in Int /\ 0 <= w /\ w <= Horizon
      BY <1>1 DEF Dates!Walls
    <3>2. /\ Dates!anchor(local_zone, w) \in Int
          /\ w - DayLength < Dates!anchor(local_zone, w)
          /\ Dates!anchor(local_zone, w) < w + DayLength
      BY <1>1, <3>1, WithinADay
    <3> QED
      BY <1>1, <3>1, <3>2
  <2>2. \A i \in Dates!Instants : i \in Int /\ -DayLength < i /\ i < Horizon + DayLength
    BY <1>1 DEF Dates!Instants
  <2>3. PICK given \in Int : /\ -DayLength < given /\ given < Horizon + DayLength
                             /\ Dates!SetDue(given, all_day)
    BY <1>5, <2>1, <2>2 DEF Dates!update_due
  <2>4. due' = Dates!normalize_due(given, all_day) /\ record' = record
    BY <2>3 DEF Dates!SetDue
  <2>5. due' \in Int /\ due' <= given /\ Dates!LocalDay(due') = Dates!LocalDay(given)
    BY <1>1, <2>4, SetStays
  <2>6. Dates!LocalDay(given) >= -2
    BY <1>1, <2>3, GivenNear
  <2>7. due' < Horizon + DayLength
    BY <1>1, <2>3, <2>5
  <2> QED
    BY <1>3, <2>4, <2>5, <2>6, <2>7 DEF NoDrift
<1>6. ASSUME NEW all_day \in BOOLEAN, Dates!update_all_day(all_day) PROVE NoDrift'
  <2>1. due' = Dates!normalize_due(due, all_day) /\ record' = record
    BY <1>6 DEF Dates!update_all_day, Dates!normalize_due
  <2>2. due' \in Int /\ due' <= due /\ Dates!LocalDay(due') = Dates!LocalDay(due)
    BY <1>1, <2>1, SetStays
  <2>3. due' < Horizon + DayLength
    BY <1>1, <2>2 DEF NoDrift
  <2>4. due < Dates!named_zone(record.zone).switch
          => due' < Dates!named_zone(record.zone).switch
    <3>1. Dates!named_zone(record.zone).switch \in Int
      BY <1>1, ShownTyped DEF Dates!Bounds
    <3> QED
      BY <1>1, <2>2, <3>1
  <2> QED
    BY <1>3, <1>4, <2>1, <2>2, <2>3, <2>4 DEF NoDrift
<1>7. CASE Dates!update_fields
  <2> DEFINE zone == Dates!named_zone(record.zone)
             w == Dates!naive_local(zone, due)
             j == Dates!anchor(zone, w)
  <2>1. record'.due = w /\ record'.zone = record.zone /\ due' = Dates!Shown(record')
    BY <1>1, <1>7 DEF Dates!update_fields, Dates!instant_to_floating_millis
  <2>2. zone \in Zones /\ Dates!named_zone(record.zone)' = zone /\ due' = j
    <3>1. zone \in Zones
      BY <1>1, ShownTyped
    <3>2. Dates!named_zone(record.zone)' = zone
      BY <1>2, <2>1 DEF Dates!named_zone
    <3>3. due' = j
      BY <2>1 DEF Dates!Shown, Dates!floating_millis_to_instant, Dates!named_zone
    <3> QED
      BY <3>1, <3>2, <3>3
  <2> HIDE DEF zone
  <2>3. w \in Int /\ due - DayLength < w /\ w < due + DayLength
    BY <1>1, <2>2, WithinADay
  <2>4. \/ j = due
        \/ j \in Int /\ due >= zone.switch /\ j < zone.switch
           /\ j < due /\ due - 2 * DayLength < j
    BY <1>1, <2>2, UploadMoves
  <2>5. record'.due \in Dates!Reach
    <3>1. due > -(7 * DayLength) /\ due < Horizon + DayLength
      BY <1>1, NoDriftReach
    <3> HIDE DEF w
    <3>2. w \in -(8 * DayLength)..Horizon + 2 * DayLength
      BY <1>1, <2>3, <3>1
    <3> QED
      BY <2>1, <3>2 DEF Dates!Reach
  <2> HIDE DEF w, j
  <2>6. CASE j = due
    BY <1>3, <2>1, <2>2, <2>5, <2>6 DEF NoDrift, zone
  <2>7. CASE j # due
    <3>1. /\ j \in Int /\ due >= zone.switch /\ j < zone.switch
          /\ j < due /\ due - 2 * DayLength < j
      BY <2>4, <2>7
    <3>2. zone.switch \in Int
      BY <2>2 DEF Dates!Bounds
    <3>3. Dates!LocalDay(due) >= -2
      BY <1>1, <3>1, <3>2 DEF NoDrift, zone
    <3> DEFINE here == Dates!naive_local(local_zone, due)
               there == Dates!naive_local(local_zone, j)
    <3>4. /\ here \in Int /\ here < due + DayLength
          /\ there \in Int /\ j - DayLength < there
      BY <1>1, <3>1, WithinADay
    <3>5. Dates!LocalDay(due) = Dates!DayOf(here) /\ Dates!LocalDay(j) = Dates!DayOf(there)
      BY DEF Dates!LocalDay
    <3> HIDE DEF here, there
    <3>6. here >= Midnight(-2)
      BY <3>3, <3>4, <3>5, OnOrAfter
    <3>7. there >= Midnight(-6)
      BY <1>1, <3>1, <3>4, <3>6 DEF Midnight
    <3>8. Dates!LocalDay(j) >= -6
      BY <3>4, <3>5, <3>7, OnOrAfter
    <3>9. j < Horizon + DayLength
      BY <1>1, <3>1 DEF NoDrift
    <3> QED
      BY <1>3, <2>2, <2>5, <3>1, <3>8, <3>9 DEF NoDrift
  <2> QED
    BY <2>6, <2>7
<1>8. ASSUME NEW w \in Dates!Walls, NEW zone \in Zones \cup {Floating},
             NEW all_day \in BOOLEAN, Dates!OtherDevice(w, zone, all_day)
      PROVE  NoDrift'
  <2> DEFINE new == [due |-> w, zone |-> zone, allDay |-> all_day]
  <2>1. w \in Int /\ 0 <= w /\ w <= Horizon
    BY <1>1 DEF Dates!Walls
  <2>2. new \in [due : Int, zone : Zones \cup {Floating}, allDay : BOOLEAN] /\ new.due = w
    BY <2>1
  <2>3. record' = new /\ due' = Dates!Shown(record')
    BY <1>8 DEF Dates!OtherDevice
  <2> HIDE DEF new
  <2>4. due' = Dates!anchor(Dates!named_zone(new.zone), w)
        /\ Dates!named_zone(new.zone) \in Zones
    BY <1>1, <2>2, <2>3, ShownTyped
  <2>5. due' \in Int /\ w - DayLength < due' /\ due' < w + DayLength
    BY <2>1, <2>4, WithinADay
  <2>6. due' < Horizon + DayLength /\ -DayLength < due' /\ w \in Dates!Reach
    BY <1>1, <2>1, <2>5 DEF Dates!Reach
  <2>7. Dates!LocalDay(due') >= -2
    BY <1>1, <2>5, <2>6, GivenNear
  <2> QED
    BY <1>3, <2>2, <2>3, <2>6, <2>7 DEF NoDrift
<1>9. CASE UNCHANGED Dates!vars
  <2>1. due' = due /\ record' = record
    BY <1>9 DEF Dates!vars
  <2> QED
    BY <1>3, <1>4, <2>1 DEF NoDrift
<1> QED
  BY <1>5, <1>6, <1>7, <1>8, <1>9 DEF Dates!Next

(* The types of DueDates, and how far a date may be moved.                  *)
LEMMA DatesReach ==
  ASSUME Dates!Bounds, DatesInv, NoDrift PROVE Dates!TypeOK
<1>1. due \in Dates!Reach
  BY NoDriftReach DEF DatesInv, DatesTyped
<1>2. record \in [due : Dates!Reach, zone : Zones \cup {Floating}, allDay : BOOLEAN]
  BY DEF DatesInv, DatesTyped, NoDrift
<1> QED
  BY <1>1, <1>2 DEF DatesInv, DatesTyped, Dates!TypeOK

(* However often a date is edited, turned into one of a whole day and back, *)
(* uploaded and downloaded, in whatever zones, it stays within days of what *)
(* was given (timeutil.rs: anchor, normalize_due).                          *)
THEOREM DatesDoNotDrift == Dates!Spec => []Dates!TypeOK
<1>1. Dates!Bounds
  BY PartsAssumption
<1>2. Dates!Init => DatesInv /\ NoDrift
  BY <1>1, DatesStart, NoDriftStart
<1>3. DatesInv /\ NoDrift /\ [Dates!Next]_(Dates!vars) => (DatesInv /\ NoDrift)'
  BY <1>1, DatesStep, NoDriftStep
<1>4. DatesInv /\ NoDrift => Dates!TypeOK
  BY <1>1, DatesReach
<1> QED
  BY <1>2, <1>3, <1>4, PTL DEF Dates!Spec

-----------------------------------------------------------------------------
(* All four together. *)

(* The requests whose work is done.                                         *)
DoneTasks == {i \in Ids : task[i] \in {"replying", "done"}}

(* Each request asks for one pass at most, when its work is done, and so    *)
(* does the start.                                                          *)
Asked == Cardinality(DoneTasks) + (IF starter = "over" THEN 1 ELSE 0)
Queued ==
  /\ closed \in BOOLEAN /\ expired \in BOOLEAN /\ running \in BOOLEAN
  /\ holder \in {Nobody, Pass, Starter} \cup Ids
  /\ recovered \in Nat /\ waiting \in Nat
  /\ waiting <= Asked

(* The ended tasks are finitely many, and no more than there are lines.     *)
LEMMA DoneFinite ==
  IsFiniteSet(DoneTasks) /\ Cardinality(DoneTasks) \in Nat /\ Cardinality(DoneTasks) <= MaxLines
<1>1. IsFiniteSet(Ids) /\ Cardinality(Ids) = MaxLines
  BY BoundsAssumption, FS_Interval DEF Ids
<1>2. DoneTasks \subseteq Ids
  BY DEF DoneTasks
<1>3. IsFiniteSet(DoneTasks) /\ Cardinality(DoneTasks) <= Cardinality(Ids)
  BY <1>1, <1>2, FS_Subset
<1> QED
  BY <1>1, <1>3, FS_CardinalityType

(* At the start no pass is asked for.                                       *)
LEMMA QueuedStart == Init => Queued
<1> SUFFICES ASSUME Init PROVE Queued
  OBVIOUS
<1>1. closed = FALSE /\ expired = FALSE /\ running = FALSE
  BY DEF Init
<1>2. closed \in BOOLEAN /\ expired \in BOOLEAN /\ running \in BOOLEAN
  BY <1>1, Zenon
<1>3. holder = Nobody /\ recovered = 0 /\ waiting = 0
  BY DEF Init
<1> QED
  BY <1>2, <1>3, DoneFinite DEF Queued, Asked

(* A task whose work is done asks for a pass or for none.                   *)
LEMMA QueuedDone ==
  ASSUME Queued, IInv, NEW i \in Ids, task[i] \in {"ready", "asking"}, Over(i),
         waiting' \in {waiting, waiting + 1}, starter' = starter
  PROVE  waiting' \in Nat /\ waiting' <= Asked'
<1>1. task' = [task EXCEPT ![i] = "replying"] /\ DOMAIN task = Ids
  BY DEF Over, IInv, Types
<1>2. DoneTasks' = DoneTasks \cup {i} /\ i \notin DoneTasks
  BY <1>1 DEF DoneTasks
<1>3. Cardinality(DoneTasks') = Cardinality(DoneTasks) + 1
  BY <1>2, DoneFinite, FS_AddElement
<1> QED
  BY <1>3, DoneFinite DEF Queued, Asked

(* So does the start when it is over; nothing else does.                    *)
LEMMA QueuedElse ==
  ASSUME Queued, DoneTasks' = DoneTasks,
         \/ waiting' = waiting /\ (starter' = starter \/ starter # "over")
         \/ waiting > 0 /\ waiting' = waiting - 1 /\ starter' = starter
         \/ waiting' \in {waiting, waiting + 1} /\ starter # "over" /\ starter' = "over"
  PROVE  waiting' \in Nat /\ waiting' <= Asked'
BY DoneFinite DEF Queued, Asked

(* Every step of the loop keeps it.                                         *)
LEMMA QueuedStep == Queued /\ IInv /\ [Next]_vars => Queued'
<1> SUFFICES ASSUME Queued, IInv, [Next]_vars PROVE Queued'
  OBVIOUS
<1> USE DEF startVars
<1>1. ASSUME NEW i \in Ids, cached(i) \/ auth_status(i) \/ kick_sync(i) PROVE Queued'
  <2>1. /\ task[i] = "ready" /\ Over(i) /\ waiting' \in {waiting, waiting + 1}
        /\ UNCHANGED <<closed, expired, running, holder, recovered, starter>>
    BY <1>1 DEF cached, auth_status, kick_sync, Ready, Beside, loopVars, clientVars, syncVars
  <2> QED
    BY <2>1, QueuedDone DEF Queued
<1>2. ASSUME NEW i \in Ids, SessionAnswered(i) PROVE Queued'
  <2>1. /\ task[i] = "asking" /\ Over(i) /\ waiting' \in {waiting, waiting + 1}
        /\ UNCHANGED <<closed, expired, running, recovered, starter>> /\ holder' = Nobody
    BY <1>2 DEF SessionAnswered, Beside, loopVars
  <2> QED
    BY <2>1, QueuedDone DEF Queued
<1>3. ASSUME NEW i \in Ids, LockClient(i) PROVE Queued'
  <2>1. /\ task' = [task EXCEPT ![i] = "asking"] /\ task[i] = "ready" /\ holder' = i
        /\ UNCHANGED <<closed, expired, running, recovered, waiting, starter>>
    BY <1>3 DEF LockClient, Ready, Beside, loopVars, syncVars
  <2>2. DoneTasks' = DoneTasks
    BY <2>1 DEF DoneTasks, IInv, Types
  <2> QED
    BY <2>1, <2>2, QueuedElse DEF Queued
<1>4. CASE ReadLine
  <2> DEFINE n == read + 1
  <2>1. n \in Ids
    BY <1>4, BoundsAssumption DEF ReadLine, IInv, Types, Ids
  <2>2. task[n] = "none"
    <3>1. Told(n) /\ ~(n <= read)
      BY <2>1 DEF IInv, Tasks, Types
    <3> QED
      BY <3>1 DEF Told
  <2>3. /\ task' = task \/ task' = [task EXCEPT ![n] = "ready"]
        /\ UNCHANGED <<closed, expired, running, holder, recovered, waiting, starter>>
    BY <1>4 DEF ReadLine, Elsewhere, clientVars, syncVars
  <2>4. DoneTasks' = DoneTasks
    BY <2>1, <2>2, <2>3 DEF DoneTasks, IInv, Types
  <2> QED
    BY <2>3, <2>4, QueuedElse DEF Queued
<1>5. CASE (\E kind \in Kinds : Send(kind)) \/ Close \/ ReadEof \/ Drained \/ DrainExpires
  <2>1. /\ closed' \in {closed, TRUE} /\ expired' \in {expired, TRUE}
        /\ UNCHANGED <<task, running, holder, recovered, waiting, starter>>
    BY <1>5 DEF Send, Close, ReadEof, Drained, DrainExpires, Elsewhere, loopVars, clientVars,
                syncVars
  <2>2. closed' \in BOOLEAN /\ expired' \in BOOLEAN
    BY <2>1, Zenon DEF Queued
  <2>3. DoneTasks' = DoneTasks
    BY <2>1 DEF DoneTasks
  <2> QED
    BY <2>1, <2>2, <2>3, QueuedElse DEF Queued
<1>6. CASE StartPass \/ PassOver
  <2>1. /\ running' \in {TRUE, FALSE}
        /\ UNCHANGED <<task, closed, expired, holder, recovered, starter>>
        /\ waiting' = waiting \/ (waiting > 0 /\ waiting' = waiting - 1)
    BY <1>6 DEF StartPass, PassOver, Beside, loopVars, clientVars
  <2>2. running' \in BOOLEAN
    BY <2>1, Zenon
  <2>3. DoneTasks' = DoneTasks
    BY <2>1 DEF DoneTasks
  <2> QED
    BY <2>1, <2>2, <2>3, QueuedElse DEF Queued
<1>7. CASE PassRequest \/ PassAnswered \/ PassRecovered \/ Ended \/ UNCHANGED vars
  <2>1. /\ holder' \in {holder, Nobody, Pass} /\ recovered' \in {recovered, recovered + 1}
        /\ UNCHANGED <<task, closed, expired, running, waiting, starter>>
    BY <1>7 DEF PassRequest, PassAnswered, PassRecovered, Ended, Beside, vars, loopVars,
                clientVars, syncVars
  <2>2. DoneTasks' = DoneTasks
    BY <2>1 DEF DoneTasks
  <2> QED
    BY <2>1, <2>2, QueuedElse DEF Queued
<1>8. CASE StartStep
  <2>1. /\ holder' \in {holder, Nobody, Starter} /\ recovered' \in {recovered, recovered + 1}
        /\ UNCHANGED <<task, closed, expired, running>> /\ starter # "over"
        /\ \/ waiting' = waiting
           \/ waiting' \in {waiting, waiting + 1} /\ starter' = "over"
    BY <1>8 DEF StartStep, StartTry, StartAnswered, StartAgain, StartReads, StartPublishes,
                Beside, loopVars, clientVars, syncVars
  <2>2. DoneTasks' = DoneTasks
    BY <2>1 DEF DoneTasks
  <2> QED
    BY <2>1, <2>2, QueuedElse DEF Queued
<1>9. ASSUME NEW i \in Ids, Reply(i) PROVE Queued'
  <2>1. /\ task' = [task EXCEPT ![i] = "done"] /\ task[i] = "replying"
        /\ UNCHANGED <<closed, expired, running, holder, recovered, waiting, starter>>
    BY <1>9 DEF Reply, loopVars, clientVars, syncVars
  <2>2. DoneTasks' = DoneTasks
    BY <2>1 DEF DoneTasks, IInv, Types
  <2> QED
    BY <2>1, <2>2, QueuedElse DEF Queued
<1> QED
  BY <1>1, <1>2, <1>3, <1>4, <1>5, <1>6, <1>7, <1>8, <1>9
     DEF Next, LoopStep, TaskStep, Quick, PassStep

(* The types of the request loop.                                           *)
LEMMA LoopTypesOK == IInv /\ Queued /\ Current => TypeOK
<1> SUFFICES ASSUME IInv, Queued, Current PROVE TypeOK
  OBVIOUS
<1>1. read \in Nat /\ read <= MaxLines
  BY BoundsAssumption DEF IInv, Types
<1>2. IsFiniteSet(1..read) /\ Cardinality(1..read) = read
  BY <1>1, FS_Interval
<1>3. Bad \subseteq 1..read
  BY DEF Bad
<1>4. Cardinality(Bad) \in Nat /\ Cardinality(Bad) <= read
  BY <1>2, <1>3, FS_Subset, FS_CardinalityType
<1>5. refusals \in 0..MaxLines
  BY <1>1, <1>4, BoundsAssumption DEF IInv, Refused
<1>6. waiting \in 0..(MaxLines + 1)
  BY DoneFinite, BoundsAssumption DEF Queued, Asked
<1>7. known \in 0..session
  BY DEF Current, Published
<1> QED
  BY <1>5, <1>6, <1>7 DEF IInv, Types, Queued, Current, Published, TypeOK

(* What ToastsInv leaves out: the setting, and the counters within bounds.  *)
Counted ==
  /\ enabled \in BOOLEAN /\ now \in 0..LastTick
  /\ edits \in 0..MaxEdits /\ renames \in 0..MaxRenames /\ crashes \in 0..MaxCrashes

(* Counters start at 0.                                                     *)
LEMMA CountedStart == Toasts!Init => Counted
<1> SUFFICES ASSUME Toasts!Init PROVE Counted
  OBVIOUS
<1>1. enabled \in BOOLEAN
  BY Zenon DEF Toasts!Init
<1> QED
  BY <1>1, PartsAssumption DEF Toasts!Init, Toasts!Bounds, Counted

(* Counters stop at their bounds.                                           *)
LEMMA CountedStep == Counted /\ [Toasts!Next]_(Toasts!vars) => Counted'
<1> SUFFICES ASSUME Counted, [Toasts!Next]_(Toasts!vars) PROVE Counted'
  OBVIOUS
<1>1. {LastTick, MaxEdits, MaxRenames, MaxCrashes} \subseteq Nat
  BY PartsAssumption DEF Toasts!Bounds
<1>2. /\ now' = now \/ (now < LastTick /\ now' = now + 1)
      /\ edits' = edits \/ (edits < MaxEdits /\ edits' = edits + 1)
      /\ renames' = renames \/ (renames < MaxRenames /\ renames' = renames + 1)
      /\ crashes' = crashes \/ (crashes < MaxCrashes /\ crashes' = crashes + 1)
  BY DEF Toasts!Next, Toasts!PollStep, Toasts!plan, Toasts!mark_notified, Toasts!Reply,
         Toasts!Tick, Toasts!set_settings, Toasts!Crash, Toasts!Edit, Toasts!replace_id,
         Toasts!vars, Toasts!history
<1>3. enabled' = enabled \/ enabled' = ~enabled
  BY DEF Toasts!Next, Toasts!PollStep, Toasts!plan, Toasts!mark_notified, Toasts!Reply,
         Toasts!Tick, Toasts!set_settings, Toasts!Crash, Toasts!Edit, Toasts!replace_id,
         Toasts!vars, Toasts!history
<1>4. enabled' \in BOOLEAN
  BY <1>3, Zenon DEF Counted
<1> QED
  BY <1>1, <1>2, <1>4 DEF Counted

(* The types of the notifications.                                          *)
LEMMA ToastsTypesOK == ToastsInv /\ Counted => Toasts!TypeOK
BY DEF ToastsInv, ToastsTyped, Counted, Toasts!TypeOK

(* The types of SidecarServer: no more passes wait than requests have asked *)
(* for and one more (server.rs, kick_sync), and no more lines are refused   *)
(* than are read.                                                           *)
THEOREM LoopTyped == Spec => []TypeOK
<1>1. Init => IInv /\ Queued /\ Current
  BY InitOK, QueuedStart, CurrentStart
<1>2. IInv /\ Queued /\ Current /\ [Next]_vars => (IInv /\ Queued /\ Current)'
  BY StepOK, QueuedStep, CurrentStep
<1> QED
  BY <1>1, <1>2, LoopTypesOK, PTL DEF Spec

(* The types of Notifications.                                              *)
THEOREM ToastsAreTyped == Toasts!Spec => []Toasts!TypeOK
<1>1. Toasts!Init => ToastsInv /\ Counted
  BY PartsAssumption, ToastsInit, CountedStart
<1>2. ToastsInv /\ Counted /\ [Toasts!Next]_(Toasts!vars) => (ToastsInv /\ Counted)'
  BY PartsAssumption, ToastsStep, CountedStep
<1> QED
  BY <1>1, <1>2, ToastsTypesOK, PTL DEF Toasts!Spec

(* In the sum, each part runs as it would alone: what is proved of a part   *)
(* holds wherever TLC checks it.                                            *)
THEOREM ServicePartsRun == ServiceSpec => Spec /\ Reader!Spec /\ Dates!Spec /\ Toasts!Spec
<1>1. ServiceInit => Init /\ Reader!Init /\ Dates!Init /\ Toasts!Init
  BY DEF ServiceInit
<1> USE DEF ServiceNext, LoopPart, ReaderPart, DatesPart, ToastsPart, allVars
<1>2. [ServiceNext]_allVars => [Next]_vars
  OBVIOUS
<1>3. [ServiceNext]_allVars => [Reader!Next]_(Reader!vars)
  BY DEF readerVars, Reader!vars
<1>4. [ServiceNext]_allVars => [Dates!Next]_(Dates!vars)
  BY DEF datesVars, Dates!vars
<1>5. [ServiceNext]_allVars => [Toasts!Next]_(Toasts!vars)
  BY DEF toastsVars, Toasts!vars, Toasts!history
<1> QED
  BY <1>1, <1>2, <1>3, <1>4, <1>5, PTL
     DEF ServiceSpec, Spec, Reader!Spec, Dates!Spec, Toasts!Spec

(* Whichever part is exercised, for as long as it may be, all four keep to  *)
(* their types.                                                             *)
THEOREM ServiceTyped == ServiceSpec => []TypesOK
<1>1. TypeOK /\ Reader!TypeOK /\ Dates!TypeOK /\ Toasts!TypeOK => TypesOK
  BY DEF TypesOK
<1> QED
  BY <1>1, ServicePartsRun, LoopTyped, ReaderTyped, DatesDoNotDrift, ToastsAreTyped, PTL

=============================================================================
