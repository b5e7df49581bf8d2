# A formal model of iCloud Reminders for Windows

TLA+ models of the parts of this program that are hard to test: the
synchronisation of a local SQLite cache with an iCloud account, while the user
edits, another device writes, answers get lost and the process dies; the session
with Apple and its codes; the storage of that session; and the loops and
conversions around them. TLC checks the models on small instances; TLAPS proves
every safety property for every size.

The repository holds the program twice. `src-windows/Reminders.Core` is the C#
library in use; `sidecar` is the Rust backend it replaced, kept as "a migration
reference" (`sidecar/README.md`). Both are modelled: the C# scheduling and
passes, which are what runs, and the whole of the Rust backend but its documents,
which is what the C# code is compared with. C# paths below are relative to
`src/src-windows/Reminders.Core`, Rust paths (`*.rs`) to `src/sidecar/src`.

## The system

```text
 MainWindow -- SyncClient -- ReminderService --+-- Cache (SQLite)
   events  <----------------- (gate, tasks)    +-- SyncEngine -- ICloudClient -- CloudKit -- iCloud
                                               |                     |
                                               +---------------------+-- AppleAuth -- Secrets
```

The Rust backend has the same parts in a process of its own, which the UI talks
to in lines of JSON over stdin and stdout (`main.rs`, `server.rs`).

| Component | State | Operations | Interacts by | What is hard |
|---|---|---|---|---|
| Sync scheduling (`SyncEngine.Sync`) | tickets `requested`/`completed`, the `fullRequested` flag, one semaphore | `Sync(full)` | called from background tasks by every edit, the timer, sign-in, "Sync now" | coalescing, failure of a shared pass, cancellation, a flag shared by all callers |
| Sync passes (`Push`, `Full`, `Delta`, `Recover`; `sync.rs`) | the pass's locals: head entry, downloaded records, sync token | one pass | calls the client under a lock and the cache one statement at a time | edits between any two statements, lost replies, crashes, conflicts, the order of token and download |
| Cache (`Cache.cs`; `cache.rs`) | tables `reminders`, `lists`, `tags`, `outbox`, `conflicts`, `meta` | `Edit`, `Upsert`, `Enqueue`, `Acknowledge`, `ReplaceId`, `ReplaceLists`, `Purge`, ... | one lock; `Transaction` for several statements (Rust: the lock anew for each) | what one statement guarantees and a pair of them does not |
| Service calls (`ReminderService.Dispatch`; `server.rs`) | none of their own | create, update, delete, restore, resolve conflict, settings, notifications | cache statements, then a queued sync | which version an edit was made against |
| CloudKit client (`ICloudClient`, `CloudKit`; `icloud.rs`, `cloudkit.rs`) | connection state, page guard | `Create`, `Update`, `Changes`, `Lists`, `Tags`, `Cursor` | HTTP | optimistic writes, refusals of several shapes, paging |
| Service lifecycle and account | `authSnapshot`, background tasks, `disposed` | start, login, `sign_out`, two-factor calls, disposal | a lock on the client, cancellation | start-up restore against user calls, account switch during a pass |
| Authentication (`AppleAuth`, `Srp`; `auth.rs`) | session data, pending challenge, routes that sent a code | sign-in, resume, request and submit a code | Apple's servers, the secret store | a challenge that a second request voids, two codes alive at once |
| Secret store (`Secrets.cs`; `secrets.rs`) | chunked credentials in two slots and a manifest | read, write, delete | Credential Manager | a crash between two credential writes |
| Due notifications | column `notified` | `due_notifications` | cache, UI timer | select and mark are separate; late and rescheduled reminders |
| Dates and documents (`TimeUtil`, `AppleDocument`; `timeutil.rs`, `document.rs`) | none | conversions | used by the client | floating dates across daylight saving |
| Request loop (`main.rs`, `server.rs`; Rust only) | the line in hand, tasks under way | serve, dispatch | lines over stdio | over-long lines, tasks at the end of the stream, calls that wait for Apple |
| WinUI client | view state, timers, dialogs | boot, background sync, code entry, conflict dialog | events from the service | events during an await |
| App updater | downloaded file, state of the button | check, download, verify, launch | GitHub | verify and launch are separate steps |

What makes each of them correct, in a sentence:

- Scheduling: whoever asked is served by a pass that began after they asked; a
  full request is never swallowed; every queued edit goes up.
- Passes and cache: no edit is lost, none is hidden by an older version, none
  overwrites a version its author had not seen, and cache and account agree in
  the end.
- CloudKit client: the records of a read and the token saved after it together
  miss nothing, and a read ends.
- Authentication: a good code is never called wrong; nothing but the user's own
  calls voids the code they are typing; the restore at start-up ends.
- Secret store: a reader finds one session, whole, or none.
- Notifications: each due reminder is told once, not before its alert.
- Dates: an upload keeps the instant, a download the clock time, an all-day date
  its day.
- Request loop: each request is answered once, those that need no answer of
  Apple do not wait for one, and a status is not older than what the UI knows.

## Modules

| Module | Models |
|---|---|
| `SyncTickets` | `SyncEngine.Sync`, with a pass as one step |
| `CacheOps` | the statements on `reminders` and `outbox`, as operators |
| `SyncCore` | the C# passes, over `CacheOps`, with the user, another device, iCloud and faults |
| `SidecarSync` | the Rust passes and calls, over `CacheOps`, statement by statement |
| `AuthSession` | sign-in, codes, restores and sign-out of the Rust backend |
| `SecretStore`, `SessionStore` | the chunked session and the atomic one it implements |
| `ZonePaging` | reads of the zone page by page |
| `SidecarServer` | the request loop, its tasks and the status snapshot |
| `LineReader` | the bounded reader of lines |
| `Notifications` | the due notifications |
| `DueDates` | due dates between instants, wall clocks and days |
| `Srp` | the proof of the password, in a small group |
| `SyncTicketsProofs`, `CacheOpsProofs` | theorems on the scheduling, and on the operators of the cache |
| `SyncCoreProofs`, `SyncCloudProofs` | theorems on the C# passes: types and edits; what a pass does to iCloud and takes from it |
| `SidecarSyncProofs` | theorems on the Rust passes and calls |
| `AuthSessionProofs` | theorems on the session and its codes |
| `SidecarServiceProofs` | theorems on the request loop, the reader of its lines, the notifications and the dates |
| `SidecarClientProofs` | theorems on the secret store, the paging and the SRP exchange |
| `MCSyncCore`, `MCSidecarSync`, `MCAuthSession` | instances for TLC |
| `MCSyncLive` | liveness: the scheduling, the C# passes and the Rust passes, as a sum |
| `MCSidecarService`, `MCSidecarClient` | instances of four parts each that share no state, as a sum |

### SyncTickets

Each caller of `Sync` is at a place in the method (`pc`). One action is one
statement that reads or writes shared state: `Request` raises `fullRequested`,
`Draw` increments `requested`, `Enter` waits for the semaphore, `Check` is the
coalescing test, `ReadGeneration` and `TakeForce` are the two reads before a
pass, `Push` and `Pull` the pass as seen from outside, `Complete`, `Again` and
`Drain` the bookkeeping after it, `Fail` the two `catch` clauses, `Release` the
`finally`. `CancelWait` is a token cancelled while waiting. `outbox` is only a
number, and `Batch` the most a pass uploads (100 in the code).

### CacheOps and SyncCore

A row keeps what the properties tell apart: one text for all synced fields but
the deletion mark, `deleted`, `change_tag`, `dirty`. An outbox entry has its
operation, reminder, patch and base tag. Entries are in order of `seq`.

`pc` is the next request or transaction of the pass. Every `await` and every
boundary between two statements of the cache is a boundary between two actions,
so the user's calls may happen there:

| Code | Actions |
|---|---|
| `create_reminder` | `CreateReminder` |
| `LocalChange` by update, delete, restore | `UpdateReminder`, `DeleteReminder`, `RestoreReminder` |
| `resolve_conflict` | `KeepLocal`, `KeepRemote` |
| `Push`, create | `PushCreate`, `CreateRefused`, `ReplaceId`, `Ack`, `UpsertReply` |
| `Push`, update or delete | `PushLookup`, `PushModify`, `PushRefused`, `Ack`, `UpsertReply` |
| `Push`, `CONFLICT` | `ReadLocal`, `Settle` |
| `Full` | `FullCursor`, `FullLists`, `FullQuery`, `ApplyLive`, `Save` |
| `Delta` | `Delta`, `ApplyLive`, `ReadTombstone`, `MarkTombstone`, `RefreshLists`, `Save` |
| exceptions, `Recover` | `Throw`, the lost replies of `PushCreate` and `PushModify` |

iCloud is external and modelled by how the code uses it: a write increments a
clock, whose value is the record's change tag; a sync token is a clock value and
the changes since it are the records with a later tag; a write with an outdated
tag is refused. `RaceReplies` says what a refusal may look like, because the
code handles three shapes: a record, a record's name alone
(`CloudKit.Reject`), or an HTTP 409 with any other text (`CloudKit.Post`), which
may also meet a create. An answer may hold no sync token, and then the saved one
stays.
`ListsInDelta` says whether the change stream reports lists, on which code and
notes disagree.

Abstractions, and what they leave out:

- one list stands for all, so `FullQuery` is one request where the code makes one
  per list; tags are not modelled;
- a pass uploads until the outbox is empty; the limit of 100 is in `SyncTickets`;
- `Recover` is a restart of the push or the pull from its start (`Throw` with the
  places `head` and `pull`);
- settling a conflict for this PC is one step, though the service queues the edit
  and marks the conflict in two;
- ids are never reused: a new record takes an id that no record had, and a local
  id is given out once, as GUIDs are.

### SidecarSync

The same tables and the same iCloud, cut where the Rust code can be
interrupted. `server.rs` takes the cache's lock anew for each statement, so a call
is `Begin` (it reads the base tag), `ApplyEdit`, `Reread` and `EnqueueEdit`, on one
of the tasks `Calls`, and a pass may go on between any two. Settling a conflict is
five statements (`ReadLocal`, `RecordConflict`, `ClearConflicting`, `TakeRemote`,
`Dequeue`), a tombstone two (`MarkDeleted`, `ClearDeleted`), an acknowledgement
three (`ReplaceId`, `AcknowledgePush`, `UpsertReply`). `Throw` is a request that
fails, with or without the restore of `recover_session` and a second try; `Crash`
a death of the process, which keeps the tables. `protocol` is the version mark
that makes the next pass a full one.

### AuthSession

Whoever drives the client holds its lock for a whole call, so the call in hand is
one record, `op`: who makes it (the user, the task of `start`, a pass), what it is
and at which request. Each request to Apple is an action, and Apple may answer it
in any way the code tells apart. What the code keeps is in `token`, `web` (the
verdict of the last `accountLogin`), `headers` (whose `scnt` and session id would
be sent), `route`, `sentOn`, `phones`, `optionsLoaded`, then the client's
`connected`, `pending`, `restoring`, `failure`, and the credential vault, any write
to which may fail and end the call (`Saves`, `SignOutFails`). Apple's side is the
set of codes it would accept, `live`; as history, `unseen` are those of them whose
delivery the client has not recorded, `typed` what Apple would have said of the
code last submitted. `Lossy` and `Unasked` switch on lost replies and codes Apple
pushes without being asked.

| Code | Actions |
|---|---|
| `login`, sign-in over SRP | `login`, `Handshake`, `CompleteTrusted`, `CompleteChallenged`, `AccountLogin`, `PrimeOptions`, `PrimeAccount` and their failures |
| `resume` | `Resume`, `ResumeUntrusted`, `ResumeFails` |
| `request_2fa` | `request_2fa`, `load_auth_options`, `request_sms_code`, `PushCode`, `RequestFails` |
| `submit_2fa` over the routes, trust | `submit_2fa`, `PostAccepted`, `PostRefused`, `Trust`, `Confirm`, `SubmitFails` |
| `Server::start` and its backoff | `StartRestore`, `StartCheck` |
| `recover_session` of a pass | `recover_session` |
| `sign_out` | `sign_out`, `SignOutFails` |

### The smaller modules

- `SecretStore`: each access to a credential is an action and may fail
  (`disturbed`), and the process may die before the next. `set_session` writes the
  chunks into the slot not in use, then the manifest, then removes the old slot;
  `delete_session` removes the manifest, then the chunks. Its abstract
  specification `SessionStore` has one variable and two steps; the mapping is
  `stored <- session`, what a reader would find.
- `ZonePaging`: `current_sync_token`, `sync_cursor`, `query` and `changes` ask for
  one page an action; `advance` is `PageGuard`. Pages are of any size, tokens may
  be missing or repeat, other devices write between pages.
- `SidecarServer`: a line is its kind, that is, what its call waits for. `ReadLine`
  reads the next; calls run on tasks (`cached`, `auth_status`, `kick_sync`,
  `LockClient`/`SessionAnswered`), and `Reply` sends the answer of a task in a step
  of its own, as threads of the runtime may overtake each other; `ReadEof`,
  `Drained`, `DrainExpires` are the end. The task of `start` takes the client as
  `StartTry` to `StartPublishes`, background passes as `StartPass` to `PassOver`.
  `session` counts the changes of the session and `snapshot` is the version last
  published, which status calls show while the client is held. Three things change
  the session without publishing it: `recover_session`, a restore in its first try,
  and a failed `request_2fa` or `sign_out`. `saw` is the version a status has read;
  `known` and `floor` are what the UI has been answered, and had been when it sent
  its request.
- `LineReader`: the loop of `read_bounded_line` over pieces of any size; a byte is
  a newline or not.
- `Notifications`: `plan` selects, `mark_notified` marks, `Reply` reaches the UI;
  edits, the switch, new ids and crashes fall between. `slipped` are the reminders
  that got their name between the two statements of a call that had found them,
  `moved` those the user edited after they were found. A due date that does not
  parse would end `plan` with an error (notifications.rs:36); none is stored, for
  what the UI sends goes through `normalize_due` and what iCloud sends is a number.
- `DueDates`: a zone is an offset that changes once; `anchor` and its reverse are
  checked at every unit of the clock, at gaps and repeats, also at midnight. A
  clock is less than a day from UTC, as in `chrono`, which has no other offset.
- `Srp`: `make_proof` and the server's side of the exchange, with powers modulo `N`
  and subtraction as unsigned numbers have it. TLC takes every hash in a set, every
  secret in a set and the group of 11.

### The sums

`MCSidecarService` and `MCSidecarClient` hold four parts each that share no
variable. `part` is chosen at the start; a behaviour takes the steps of that part
while the others rest, so TLC explores the sum of four state spaces, and each
property is about one of them. It is a way to check small modules in one run,
not a claim that the parts interact; where they do (a pass that needs the
session, a call that waits for the client), the interaction is an action of the
module itself. Each sum extends the module of its first part (`SidecarServer`,
`AuthSession`) and instantiates the others, and states what it assumes of their
constants in `PartsAssumption`.

`MCSyncLive` is the same for what must happen in the end: it extends `SyncTickets`
and instantiates `SyncCore` and `SidecarSync`. Both kinds of passes have the same
tables and the same iCloud, so their variables of the same name are shared, and
belong to the one that is exercised.

## Runs

| Run | Instance | Shows |
|---|---|---|
| `sync_core` | 3 records, 1 local id, every shape of refusal; any 4 of 3 edits, 1 write of another device to reminders or lists, 1 removal, 1 fault | all safety properties of the C# passes |
| `sync_live` | scheduling: 3 callers, batch 1, 2 requests before no new call starts, 1 fault; C#: 3 records, 2 edits, 1 write of another device to the reminders or the lists, 1 fault, refusals with the record; Rust: 2 records, 2 edits, 1 removal; fairness | `ServedOnReturn`, `FullNotForgotten`, `EveryCallEnds`, `EditsAreUploaded`; `Converges`; `DrainsOrStrands` |
| `sidecar_sync` | 3 records, 1 local id, 1 task, 2 edits, 1 write of another device or 1 removal for good, 1 fault or crash | `CursorSound`, `NothingDropped` |
| `auth_session` | 2 Apple IDs, 1 retry, lost answers, codes shown unasked, a vault that may refuse a write, crashes | `SeenCodeSignsIn`, `BackgroundKeepsCode` |
| `sidecar_service` | 2 lines and 2 sessions that passes change; streams of 7 bytes with lines of 2; days of 6 units and 3 zones; a reminder with 2 edits, 1 new id and 1 crash over 3 ticks; fairness | `OneAnswerEach`, `QuickCallsAnswered`, `StatusShowsOutcome`; `LinesAsSent`; `DueSurvivesUpload`, `SameClock`, `AllDayStaysOnDay`; `ToldOnceInTime`, `EachIsTold` |
| `sidecar_client` | sessions of 1 to 4 chunks where 3 fit; 1 Apple ID, lost replies, fairness; 3 records, 2 tokens per loop, 2 writes; the group of 11, 5 hashes, 3 exponents | `Implements`; `RestoreSettles`; `NothingMissed`, `PagesBounded`; `RightPasswordAgrees` |
| `tombstone_race` | 2 edits, 1 removal | violated: `PendingIsDirty` |
| `keep_this_pc` | 2 edits, 1 write of another device | violated: `KeepsThisPc` |
| `silent_overwrite` | 2 edits, 1 write of another device, a refusal without fields | violated: `NoSilentOverwrite` of `SyncCore` |
| `sidecar_overwrite` | 2 edits, 1 write of another device | violated: `NoSilentOverwrite` of `SidecarSync` |
| `good_code` | the instance of `auth_session` without lost answers | violated: `GoodCodeSignsIn` |
| `told_twice` | 1 reminder with 1 new id, no edit, no crash | violated: `ToldOnce` |

Each passing run also checks the types of a module of its own (`TypeOK`, `TypesOK`);
in `sync_live` that is `SyncTickets`, since the passes have runs of their own.

Why the bounds are enough for what the runs show. Three callers are one that
runs passes, one that is coalesced and one that overtakes; a batch of one makes
every second edit overflow the pass. Three edits are a create, an edit while it
is being uploaded and another while that one's acknowledgement is under way, or
a conflict followed by its resolution and one more edit; `MaxEvents` leaves room
for one event of the environment beside them, or for one of each kind beside one
edit. Three records are the existing one, the created one, and the second one a
lost reply leads to. One fault may strike at every step. In `SidecarSync` a call is
several steps and two of them meet every statement of a pass. Two Apple IDs are
what a switch takes; one retry is one more than none, and the counter's only test
is for zero. Three chunks let a longer, a shorter and an equal session follow each
other in a slot, and a session of four is refused. Two lines are a call that signs
in and a status asked for after its answer, or a slow call and a quick one or a
shutdown behind it; two changes by passes, or by another try of the restore at
start-up, go on either side of them. Seven bytes hold two lines of the limit and a
longer one, in every division into pieces. Of the zones of `DueDates` one skips a
midnight, one repeats a midnight and one keeps its offset, with records and PCs in
any two of them; `Horizon` lies beyond both changes. Two tokens a loop are a repeat,
the limit and the first token beyond it.

Deadlock is checked in all runs but `sync_live`, whose callers rest when no more
calls may be made, and `told_twice`, whose clock stops; modules that really end (a
read, an exchange, the process) say so with a step of their own that changes
nothing. The symmetry in the safety runs permutes records that do not exist at the
start, or Apple IDs; the runs that check liveness use none.

`DirtyMeansPending` names the two exceptions the code has: a record removed for good
between two statements (finding 1), and a refusal that names no record, after
which nothing clears the mark. `Converges` is checked where neither can happen, and
says nothing of the lists. `CursorSound` of `SidecarSync` speaks of rows that are
neither dirty nor waiting to be uploaded, and of behaviours without a crash: one
between an edit and its entry leaves a row dirty for ever, and one between a new id
and its acknowledgement leaves an entry that creates again.

### Fairness

- `SyncTickets`: each task that can take a step in `Sync` does (`WF` on `Step(c)`
  for each caller), as the thread pool guarantees. `SemaphoreSlim` promises no
  order; with finitely many calls, which the bound makes them, weak fairness is
  enough for each to be let in. Calls, cancellations and failures owe nothing.
- `SyncCore`: weak fairness on `EngineStep`, the fault-free steps of the engine.
  A pass that began goes on because its task is scheduled; a new one starts
  because edits, the timer of `MainWindow` and the start of the program request
  one, and `SyncTickets` shows that a request is served. Neither the user nor the
  other device nor any fault is fair, so liveness does not rest on them.
- `SidecarSync`: the same on `EngineStep`, and on `CallStep`, the tasks of calls
  that have begun.
- `AuthSession`: weak fairness on the steps of a call in hand, because every
  request is answered or times out after a minute; strong fairness on the two
  steps of the start task, because the lock it waits for is handed out in turn.
  Only without crashes (`Running`): a process that is killed again and again need
  not get anywhere. The user owes nothing.
- `SidecarServer`: weak fairness on the loop and on the tasks that wait for
  nobody. Apple owes nothing, so calls that need it may wait for ever.
- `Notifications`: weak fairness on the poll, which a timer repeats, and on the
  clock up to its bound.

## What the runs found

1. **An edit can lose its dirty mark** (`tombstone_race`). `Delta` reads the row
   and marks it deleted in two statements (SyncEngine.cs:91). An edit in between
   leaves its entry queued behind a row that is clean and marked deleted, against
   the comment in line 90. Running both in `cache.Transaction` closes it.
2. **"Keep this PC" does not bring a deletion back** (`keep_this_pc`).
   `LocalChange` ignores `deleted` in an update (ReminderService.cs:163-171), so
   keeping a version deleted on this PC uploads its text and leaves the reminder
   undeleted.
3. **The Rust backend can overwrite another device** (`sidecar_overwrite`). A call
   reads the base tag before it edits and queues. If the reminder is a new one
   whose create is being uploaded, it reads none, and its entry goes in under the
   new id without one; `update` compares only where there is a tag
   (icloud.rs:431), so a version another device wrote in between is overwritten,
   against `docs/protocol-findings.md:20-22`.
4. **The C# client can as well** (`silent_overwrite`). A refusal by
   `CloudKit.Reject` (CloudKit.cs:31-35) has the record's name and not its fields;
   `ToReminder` makes a blank version without a tag of it (SyncEngine.cs:119), the
   row takes that version, and its next edit has no base tag to compare
   (ICloudClient.cs:121). What does hold for every shape of refusal is
   `NoBlindOverwrite`: a version of another device is replaced by an edit made
   against it, or by one without a tag after such a conflict, and never by an edit
   of an older version.
5. **A good code can be called wrong** (`good_code`). Apple may show a device code
   with the challenge, before it is asked; `auth.rs:378-382` says that this cannot
   be observed and does not record it. If the user then asks for a text,
   `submit_2fa` tries the text route only (auth.rs:783), against the comment at
   `auth.rs:776-779` and `docs/protocol-findings.md:98-102`. `SeenCodeSignsIn` is what
   holds: a code whose delivery is recorded is never called wrong, whatever else is
   about.
6. **A reminder can be told twice** (`told_twice`). A pass replaces the local id of a
   created reminder between `due_unnotified` and `mark_notified` (server.rs:429),
   which then finds no row, against the test at `cache.rs:960-972`. Both statements
   under one hold of the cache's lock close it. `ToldOnceInTime` says that there is
   no other way.

## Divergences

Behaviours found while modelling, in which the code does not do what a comment, a
document or a test of the repository says. No run of the project expects them;
the formulas are in the last section of the MC modules, and each can be shown by
TLC with the constants given, all others as in the runs.

| Formula, module, constants | Behaviour |
|---|---|
| `ListsFollow`, `MCSyncCore` under `FairSpec`, `ListsInDelta = FALSE`, 1 change of the lists, nothing else, no symmetry | `docs/protocol-findings.md:13-14` says that list changes are not in the change stream and that every delta pass refreshes the lists; the code refreshes them only when the stream reports one (SyncEngine.cs:95). If the notes are right, only full passes refresh lists. |
| `QueuedStaysDirty`, `MCSidecarSync`, 2 edits, nothing else | The acknowledgement of one edit falls between the two statements of the next: it finds no entry queued and clears the dirty mark, then the entry arrives behind a clean row. `cache.rs:553` says "edits queued during the request stay dirty". |
| `ConflictIsGenuine`, `MCSidecarSync`, 2 edits, nothing else | An update reads its base tag before the reply of an earlier upload has put the new one there, and queues it afterwards: a conflict with a version this PC wrote itself. `icloud.rs:433` says "changed on another device". |
| `NoLostEdit`, `MCSidecarSync`, 2 edits, 1 write of another device | An edit of the row between the first and the last statement that settle a conflict is in neither of the versions kept; `README.md:99` says "Preserve local/remote versions for explicit resolution". |
| `NothingLeft`, `MCSidecarClient`, `SidecarClient.cfg` | A save of three chunks cut short, a shorter one over the same slot and one more into the other leave chunks behind a gap; `delete_session` stops at the gap (secrets.rs:238), so signing out leaves them. |
| `SignedOutStaysOut`, `MCAuthSession`, `AuthSession.cfg` | `sign_out` keeps the session token in memory (icloud.rs:227); the next pass that is refused restores from it, signs in and saves the session again. The test at `server.rs:690` expects a signed-out account not to be authenticated. |
| `RestoringIsTrue`, `MCAuthSession`, `AuthSession.cfg` | `start` says "restoring" while it waits; if the user signs in meanwhile, its next restore returns early and nothing takes the word back (server.rs:102). |
| `RoutesCoverLive`, `MCAuthSession`, `AuthSession.cfg` | When the answer to a request for a code is lost, the code that went out is not tried on its route (auth.rs:546), against `docs/protocol-findings.md:101-102`. |
| `SnapshotGoesForward`, `MCSidecarService`, `SidecarService.cfg` | `start` reads the status under the client's lock (server.rs:109) and publishes it after it has given the lock back (server.rs:110). A call that signs in between the two publishes the newer one first, and status calls that find the client held then show the older. |

One more was found by reading and needs no formula: `recover_session` changes the
status of the session and tells the UI by the event `auth_changed` (sync.rs:120,
131), but does not publish it, so that a status call that finds the client held
shows the older one (`PassRecovered` leaves `snapshot` as it is). `StatusShowsOutcome`
is therefore about what calls were answered, not about events.

## What is proved

Every invariant and every action property that a run checks and expects to hold is a
theorem: for every set of callers, ids, records, sessions, zones and lines, and every
value of the bounds, from the assumptions on constants stated in the modules. The
inductive
invariants were checked by TLC on the instances of the runs before they were proved.

**Scheduling** (`SyncTicketsProofs`): `TypeCorrect`, `NobodyIsShortChanged`
(`ServedOnReturn`), `FullRequestsSurvive` (`FullNotForgotten`). Neither property is
inductive. `IInv` adds what a running pass may vouch for: every caller whose
ticket it covers was waiting when it began (`Boarded`), each full request among
them has been taken by it (`BoardedFull`), and whoever's ticket is at most
`completed` has been served (`Served`).

**The cache's statements** (`CacheOpsProofs`): what each does to an outbox of any
length, to the last text of a reminder in it, and to each row. Both sets of passes
cite these lemmas.

**The C# passes.** `SyncCoreProofs` proves what becomes of the user's edits:

- `TypeCorrect`. The types are not inductive by themselves: `Upload` says that the
  entry in hand stays the first of the outbox and that the answer in hand is about
  its record, `Unborn` that what is downloaded exists.
- `DirtyExactlyWhilePending` (`DirtyMeansPending`), with its two exceptions and no
  other assumption. `CacheSteps` first reduces a step of the system to the few
  that touch rows or outbox; `Owned` is what they keep.
- `ShowsUnsentText` (`ReadYourWrites`) and `EditsAreKept` (`NoLostEdit`). Where records are removed, a row may be clean with an entry
  behind it (finding 1), so the proof cannot rest on dirty marks; `Kin` says instead
  what a pass and the cache know of each other: what is downloaded exists
  (`Downloaded`), an answer is about the record of the entry in hand (`Answered`),
  a record that does not exist has no row (`Known`), nothing is downloaded while a
  create that was sent before waits (`Recreated`), a pending reminder is there and
  is dirty or gone for good (`Shown`), and the last text queued for it is the one
  shown and the one typed (`Latest`). `Wishes` is the inductive form of
  `NoLostEdit`; it needs that deletes carry no text (`DeletesBare`), that what is
  acknowledged was written (`Sent`), and that the version saved for a conflict is
  not older than the entry that is dropped (`Kept`).

`SyncCloudProofs` proves what the passes do to iCloud and take from it:

- `TokenIsSound` (`CursorSound`). `Clocked`: no token is ahead of iCloud.
  `Answers`: what is in hand of a record is the record as it is, or the record has
  been written since the saved token and the next delta reads it again. `Fetched`:
  between applying and saving, each row already shows what the new token claims,
  or that is still among what was downloaded.
- `OverwritesKnowingly` (`NoBlindOverwrite`), for refusals of any shape. `Tagged` and
  `Untagged` say of a version without a tag that its create still waits, or that a
  conflict about it was settled from a refusal that told none.
- `ConflictsAreGenuine` (`ConflictIsGenuine`). `Quiet`: while this PC is alone and
  undisturbed, every row and every base tag follows the record.
- `CreatedOnce` (`OneRecordPerCreate`). `Births` counts the records that came of
  one create, `Waiting` says that while its entry still waits there is one less.

**The Rust passes** (`SidecarSyncProofs`), where a call is several steps and a pass
goes on between any two:

- `SyncIsTyped` (`TypeOK`), again with `Upload`.
- `NoEditIsDropped` (`NothingDropped`), crashes included: no entry leaves the outbox
  before its text is in iCloud or its conflict in the table. `Accounted` has the
  three reasons: deletes carry no text (`Bare`), whoever acknowledges has written
  (`Accepted`), whoever clears, takes over or drops has recorded (`Recorded`).
- `SavedTokenIsSound` (`CursorSound`: a row that is not dirty and has no entry
  waiting shows each record the saved token covers), for behaviours without a
  crash, as in the run. `Believed` has to follow a version on its whole way.
  `Minted` and `Once`: an entry that creates has a local id, and only one, until the
  id is replaced, so no create and no call brings a row under a record that a
  download holds (a crash between replacing the id and acknowledging the entry
  breaks this, hence the restriction). `Asked`, `Refused`, `Answered` and `Taken`:
  what is known of a record is its present state, or the next delta brings it.
  `Ahead`, `Fetched` and `Refetched`: the same of what is downloaded, for the saved
  token and the new one at once, since a full pass may be cut short before it saves.
  `Applied` and `Trusted`: the rows agree with both tokens from the application on,
  and with the saved one whenever the protocol mark is set.

**Session and codes** (`AuthSessionProofs`), whatever Apple answers, loses or shows
unasked, and whatever the vault refuses: `SessionIsTyped` (`TypeOK`),
`BackgroundLeavesCode` (`BackgroundKeepsCode`) and `SeenCodesSignIn`
(`SeenCodeSignsIn`). `Keeping` says when codes can be alive at all: only where a
challenge is pending and known to be, never while a call is past an accepted code.
`Judged` follows a submitted code through the routes: as long as it could be
accepted and its delivery is recorded, a route that accepts it is the present one
or still to be tried.

**Requests, lines, notifications, dates** (`SidecarServiceProofs`):

- `EachAnsweredOnce` (`OneAnswerEach`). `Tasks` ties the number of answers under an
  id to the place of its task, `Waited` says that the loop ends over unfinished
  tasks only when the drain is given up.
- `StatusIsCurrent` (`StatusShowsOutcome`). The snapshot alone may go back, so `Current`
  follows what a session call has come to from its publication to its answer and
  to the status that is read after it: what is published is no older than what the
  UI knows of a call begun after the start was over (`Published`), a call that holds
  the client will publish what it is to tell (`Holds`), what is about to be told is
  in the snapshot (`Tells`), and a status that has been read is not older than what
  was known when it was asked for (`Shows`).
- `LinesServedAsSent` (`LinesAsSent`) and `ReaderTyped`, for streams and lines of any
  length and any division into pieces. `Cut` says that what is in hand and what is to
  come is the end of the stream from a position on; `Serving` that every line that
  ends before that position has been returned, and that the buffer holds what
  follows the last newline before it, or nothing if that is too much already;
  `Ending` is the same once the text after the last newline has been returned too.
  The `k`-th line is the one that ends at the newline with `k - 1` before it, and
  `NextVerdict` says that the next to be returned is that of the first newline after
  the position; that there is a first one (`Least`) is an induction.
- `NoneToldTwice` (`ToldOnceInTime`). A reminder has been told, or is about to be, at
  most once, and once more if it has slipped (`Once`); while its row is unmarked,
  once less than that, unless the call in hand is about to mark it (`Unmarked`).
- `ClockTimesAreKept` (`SameClock`), `ChosenDatesSurvive` (`DueSurvivesUpload`) and
  `AllDayKeepsItsDay` (`AllDayStaysOnDay`). They assume `Bounds` of `DueDates`: no
  zone skips more than the 180 minutes that the code looks ahead, and the hour of
  an all-day alert and that search end within the day. Samoa skipped a whole day in
  2011; such a change is outside the theorem, and the code does not provide for it.
  The lemmas give `anchor` a closed form and divide the time line into days.
- `DatesDoNotDrift`: a date stays between eight days before the earliest date that may
  be given and two after the latest, however often it is edited, made all-day, uploaded and
  downloaded. This is not obvious, because an upload may move a date to the first of
  two equal clock times, and a date of a whole day then moves to the beginning of its
  day. `NoDrift`: after the first such move the date lies before the switch of the
  record's clock, where an upload moves nothing.
- `LoopTyped` and `ToastsAreTyped` give the remaining types. For the loop they need
  `Queued`: the passes that wait are at most as many as have been asked for by the
  tasks whose work is done and the start (`Asked`).
- `ServicePartsRun`: in the sum each part runs as it would alone, so the theorems on
  the parts hold of `ServiceSpec`, which the run checks. `ServiceTyped` (`TypesOK`)
  follows.

**Secret store, paging, SRP** (`SidecarClientProofs`):

- `SavesAtomically` (`Implements`), the refinement of `SessionStore`. The inductive
  `Readable` says that the manifest names a slot that holds all of one session; it
  is kept because a save writes only the slot the manifest does not name
  (`Writing`) and a removal begins with the manifest (`Wiping`). Each step is then
  shown to be a save, a removal or a stutter. `SecretsTyped` gives the types.
- `ReadsMissNothing` (`NothingMissed`) and `LoopsAreBounded` (`PagesBounded`).
  `Gathered` says what a half-done read has, by the token or the record name it
  has got to; `Past` that no token is ahead of the zone; `Guarded` that the guard
  has accepted a token for every page asked for but the last. `PagingTyped` gives
  the types.
- `RightPasswordIsLetIn` (`RightPasswordAgrees`) and `ExchangeTyped`, for any modulus,
  generator, hashes and exponents; that the modulus is a prime makes the exchange
  safe and is not needed for it to be right. `modpow` is a recursive function, so its
  laws come first: it has a value (`PowerExists`, `PowerUnique`), and powers multiply
  (`PowerPlus`), reduce (`PowerMod`) and nest (`PowerPower`) as they should modulo
  `N`. From them `BaseIsPower`: what `make_proof` raises is `g^b`; and `SecretsAgree`:
  both sides have `g^(b(a + ux))`. `Exchanged` is the invariant: each value is what its
  party computed from the others.
- `ClientPartsRun` and `ClientTyped` (`TypesOK`), the same for `ClientSpec`, with
  `SessionIsTyped` of `AuthSessionProofs` for the session.

Induction over numbers is a lemma of the project (`Induction`, in both modules that
need it): a set of numbers that holds 0 and with each number the next one holds
every number, since otherwise the numbers up to a missing one would be mapped into
fewer, against the pigeonhole principle for finite sets. The theorems of the library
that take the induction hypothesis as an operator are not available to the provers.

Only model-checked are the liveness properties: `EveryCallEnds`, `EditsAreUploaded`,
`Converges`, `DrainsOrStrands`, `QuickCallsAnswered`, `EachIsTold` and `RestoreSettles`. The prover handles neither fairness nor `ENABLED`.

## Not modelled, and why

- The C# code outside `SyncEngine`, the calls that change reminders and the
  statements of the cache they use: `AppleAuth`, `Srp`, `Secrets`, paging,
  `TimeUtil`, notifications, account switch and disposal. Most of it is a port of
  the Rust code that is modelled, but the two have not been compared line by line,
  and no result here is claimed of it.
- `document.rs`/`AppleDocument.cs`, `Json.cs`, `model.rs`: parsing of compressed
  protobuf and JSON; no state, and every byte of the input matters.
- In `auth.rs`, the salt with a leading zero byte that line 1206 calls a known
  divergence: it is about bytes, where `Srp` has numbers. In `cloudkit.rs` and
  `icloud.rs`, the checks of hosts and the codecs of fields other than dates.
- Tags, settings, read queries, schema migration, purge, progress events.
- The WinUI client and the updater, whose state is that of controls or of one task
  that runs from start to end; preferences, logging, demo data, build and
  packaging scripts.

`PROJECT.json` lists each component with its status and each hazard with the
properties about it.
