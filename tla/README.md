# A TLA+ verification of the MCP agent server

The repository is a local MCP server: TypeScript over one SQLite file
(`better-sqlite3`, WAL, `busy_timeout` 5 s), with daemons on interval timers, a
Python inbox worker, a Go and a Python terminal client and bridge scripts around it.
Every MCP client in stdio mode starts a server process of its own on the same file, so
several processes share the tables. That, and the fact that most operations are
several statements without a transaction, is what this project is about.

`PROJECT.json` maps every definition to the source lines it models, and lists the
runs, the properties with a mutant each, the hazards and the theorems.

## 1. The system

| component | state it keeps | operations | what is hard | what makes it correct |
|---|---|---|---|---|
| **task queue** (`src/storage.ts`, `src/tools/task.ts`) | `tasks`, `task_leases`, `task_events`; the daemon's `in_tick` and config | `task.create/claim/heartbeat/complete/fail/retry`, tick of `task.auto_retry` | heartbeat checks its owner before the transaction; the tick lists first and retries afterwards; leases expire | a lease exists exactly while its task runs and names its claimer; attempts keep to their budget; completed is for good; every failed task with attempts left is retried |
| **mutation journal** (`src/tools/mutation.ts`, `src/storage.ts`) | `mutation_journal` | begin, execute, complete, fail; `mutation.check` | a crash or a throw between effect and completion; two processes with one key; client retries | one effect per key, answers replay that effect, rows are final |
| **locks** (`src/tools/locks.ts`, `src/storage.ts`) | `locks` | `lock.acquire` (insert, renew, steal), `lock.release` (own, forced) | read, then write by key alone | one owner inside an unexpired lease |
| **TriChat turns** (`src/tools/trichat.ts`) | `trichat_turns`, artifacts, messages, chaos events | `turn_start/advance/orchestrate/artifact/get`, watchdog tick, `chaos` | chains of statements without a transaction; read-merge-write of a whole row; throws halfway | phases go forward, ends are final, evidence precedes outcome, stalled turns end |
| **autopilot** (`src/tools/trichat.ts`) | `*Runtime` (config, `in_tick`, error count), its row in `daemon_configs` | start, stop, run_once, tick: lock, claim, turn, council, gate, execution, verification, settlement, brake | the only asynchronous tick; keys made of a clock bucket or an attempt; the lock is never renewed | one tick at a time while leases last; commands once per session; task and run agree; nothing left behind |
| **transcripts, squish, retention** (`src/tools/transcript.ts`) | `transcript_lines`, `memories`, `transcripts` | log, append, squish, auto-squish, prune | read, insert, mark in three statements; a bounded number of runs per tick | what is marked is remembered, unsquished lines are not pruned, pending lines are squished in the end |
| **daemon lifecycle** (auto-squish, auto-retry, retention, watchdog, auto-snapshot) | five `*Runtime` objects, `daemon_configs` | initialize, start, stop, run_once, timers | persisted only after the first tick; each resolves and bounds its settings differently | what a call answered is what runs after a crash and a restart |
| **bus and threads** (`src/tools/trichat_bus.ts`, `src/server.ts`) | `trichat_bus_events`, `trichat_messages`, one socket per process on one path, subscriptions | publish, subscribe with replay, start, stop, `message_post`, retention | replay against live push; processes take the path from each other; consensus read before and after the post | a subscriber sees each event once, in order, without gaps; one alert per flip |
| **consensus** (`src/tools/trichat.ts`) | none | `trichat.consensus` | several answers, overlapping questions, pruned messages | a function of the newest answers |
| **novelty, adapter telemetry** | `trichat_adapter_*` tables | novelty, telemetry report | circuit state reported by several clients | - |
| **inbox worker** (`scripts/imprint_inbox_worker.py`) | task tables (second writer), files in `pending`, `processing`, `done`, `failed` | import, claim, heartbeat thread, complete, fail, orphan recovery | a heartbeat thread next to the work; files and rows move separately | a file becomes one task, a task ends once |
| **Go client** (`cmd/trichat-tui/main.go`) and **Python client** (`scripts/trichat.py`, `bridges/`) | bus cursor, circuit breakers, thread pools, key sequence | subscribe, fan-out, retries, turn calls | reconnection; retry of a timed-out call | cursors only rise; retries keep their key |
| **imprint profiles and snapshots** (`src/tools/imprint.ts`) | `imprint_profiles`, `imprint_snapshots`, files | profile_set, snapshot, its daemon | file, memory and row in three steps; read, then upsert | a row names only what exists; a profile keeps its birth |
| **memory, notes, knowledge, ADRs**, **runs, incidents, decisions, policy** | one table each | single inserts, updates, searches | little | - |
| **migrations** (`src/storage.ts`) | `schema_migrations`, `user_version`, the tables | apply pending migrations, replay of the schema | two processes starting together, on new, old or imported databases | a process that serves has the whole schema; versions never fall; all come up |
| **server, transports, scripts** | none | dispatch | I/O | - |

How they interact. Every mutating tool call goes through `runIdempotentMutation`, so
the journal wraps the queue, the locks and the turns. The autopilot tick takes a lock,
claims a task and drives a turn with such calls, from inside a server. The auto-retry
daemon feeds failed tasks back to whoever claims. The watchdog ends turns that the
clients or the autopilot left. A Node process runs one synchronous handler at a time;
handlers of one process interleave only at an `await` (journal, autopilot), handlers of
two processes at every statement that is not inside one `db.transaction`.

## 2. Modules

| module | models |
|---|---|
| `TaskBoard` | abstract: a task waits, has one holder, is left by its holder's signature, completes for good |
| `TaskQueue` | the task queue and the auto-retry tick, several processes, crashes, time |
| `MCTaskQueue` | symmetry for TLC |
| `TaskQueueProofs`, `MutationJournalProofs`, `LeaseLockProofs`, `TriChatTurnProofs`, `ServerProcessProofs`, `AutopilotProofs` | the theorems about the module they are named for |
| `TimelineStreamProofs`, `TimelineAlertProofs` | the theorems about `TriChatTimeline`: its types and the streams of events; its alerts |
| `SchemaMigrations`, `DaemonLifecycle`, `Transcripts`, `ImprintStore` | the parts of a server process named so |
| `ServerProcess` | their composition: processes from launch to crash on one database |
| `MCServerProcess` | the databases, daemons and bounds of the run |
| `Autopilot`, `MCAutopilot` | the autopilot's tick and daemon, with the journal keys it works under |
| `BusStream` | events, sockets, subscribers |
| `ThreadConsensus` | messages of a thread and their consensus |
| `TriChatTimeline`, `MCTriChatTimeline` | their composition: posts, alerts, publishing, retention |
| `MutationJournal` | idempotent calls, several processes, crashes, failing statements, retries |
| `LeaseLock` | one lock key, owners, several processes, expiry |
| `TriChatTurn` | turns, their handlers statement by statement, the watchdog, fault injection |
| `MCTriChatTurn` | symmetry and the sets of client changes for TLC |

Definitions whose comment begins with "Variant" are faulty forms of the definition
after them. No specification uses them; they show that a property can fail.

### TaskQueue

`tasks[t]`, `leases[t]` are the rows of `tasks` and `task_leases`. `timeline[t]` is the
`to_status` of the newest row of `task_events`. Time is relative: `wait` is the
distance to `available_at`, `left` to `lease_expires_at`, and `Tick` ages both; the
orders by `created_at` and `finished_at`, which the queries sort by, are
`createdAfter` and `failedAfter`. `forced` counts forced retries; the code does not
keep it, and only properties read it.

An operation that is one `db.transaction` is one action (SQLite serialises it, or
throws `SQLITE_BUSY`, which changes nothing): `CreateTask`, `ClaimTask`, `ClaimNext`
(both through `Grant`), `CompleteTask`, `FailTask` (both through `Finish`),
`RetryTask`. `heartbeatTaskLease` reads its lease before the transaction, so it is
`HeartbeatRead` and `HeartbeatWrite`, with what was read in `beat[p]`. The tick is
`AutoRetryList` and one `AutoRetryStep` per listed task, with the list in `batch[p]`;
its delay comes from the listed attempt count, its retry looks at the row as it is.
`Crash` drops what a process holds in memory. `Idle(p)` says that a handler is not
interrupted by another one of the same process.

Refinement: `Board == INSTANCE TaskBoard WITH phase <- status, holder <- lease owner,
attempt <- attempt_count, signedBy <- last_worker_id`. Heartbeats, listings, crashes
and the clock are stutters.

Left out: payloads, tags, artifacts; a retry that throws inside the tick (a failed
transaction, after which the tick goes on); writers outside the server (the Python
worker, see the plan).

### MutationJournal

`journal[k]` is the row of a key; `by` is the call that inserted it and stands for its
result. A `Request` is a tool name with a fingerprint. `beginMutation` is
`BeginMutation` (the SELECT and what follows from it) and `InsertMutation`, because
another process may insert in between; `Beginning(p)` says that one process does not
interleave there. `Execute` commits the effect; `ExecuteThrows` may leave it applied
(an execute of several steps) or not. `CompleteMutation` and `FailMutation` are the two
UPDATEs, and each may throw. `Crash` loses all calls of a process. A retry is another
call with the same key.

### LeaseLock

`row` is the row of one key; `pending[p]` is the write a process decided on after its
SELECT; `granted[o]` is what owner `o` was told and has left. The UPDATE and the DELETE
name only the key, and nobody looks at their change count, so they hit whatever row is
there.

### TriChatTurn

`turns[t]` keeps the columns the properties tell apart: status, phase, phase_status,
and whether `finished_at`, the decision, the verify summary and `auto_fail_finalize`
are set. `log[t]` holds the artifacts and the message. `job[p]` is the handler a
process is in: its `stage` (which update or artifact is next), the row it `seen`, and
the `draft` it is about to write. `updateTriChatTurn` is `Check` (validation on the row
seen, then a fresh read and the merge), `Write` (all columns) and `ReadBack`;
`AppendEvidence` is one artifact or message; `LeaveOut` the conditions that skip an
update; `Throw` a refused validation, which leaves earlier updates in place. A change may
set the summary or, with an empty string, clear it, also on a turn that ended. `stale`
is the set of turns whose `updated_at` is old: `Age` adds, every write removes.

Left out: novelty and ranking arithmetic (it only fills in the decision), bus and chaos
events, `turn_artifact`, and decision columns that a client sets itself through
`turn_advance`. The reading of a turn before novelty is computed is merged with the
entry of the handler, since the handler reads the row again and goes by that one.

### SchemaMigrations, DaemonLifecycle, Transcripts, ImprintStore, ServerProcess

`boot[p]` is how far a process is and the versions it read as applied; `recorded`,
`userVersion` and `tables` are the database. `ReadApplied` is one statement,
`ApplyMigration` one transaction, and a primary key conflict (`MigrationConflict`) kills
the process, whose next launch tries again. `ReplaySchema` is
`ensureRuntimeSchemaCompleteness`.

Of the five daemons that share one pattern a behaviour follows one (`daemon`): its row
`configRow`, and `runtime[p]` with config, running, timer. `Settings(d)` lists default
and bounds of every setting, `Stored` is what reading the row back yields (it is clamped
again, by other bounds than the call's), and `Givens` the values worth trying for the
settings in `focus`. A control call is the change in memory, the tick it may run, and
`Persist`, which may fail. `promised` is what the last answered call said, `unsettled`
the calls that changed something and got no answer; the code keeps neither. `Config(d)`
is what settings in force look like, fixpoints of bounding and of the order between two
delays; `DaemonState(d)` adds whether the daemon is enabled. A row (`DaemonRow(d)`) holds
any numbers, since old versions and other tools write it too, and `Runtime(d)` is what a
process has in memory.

`lines[l]` are transcript lines, `memoriesOf[l]` counts the memories made of a line;
`job[w]` is a process's squish or prune, with the ids it selected. `writing[k]` is the
snapshot or profile a process is writing. Each of the modules leaves the others'
variables alone and `ServerProcess` says when a process may start which: `Idle(p)` is
the event loop, `Ready(p)` a process that finished its launch.

Left out: the `transcripts` table and the note made of it, what a summary or a snapshot
says, and `in_tick` of the synchronous daemons (no timer can see it set).

### Autopilot

`tick[t]` is one call of `runAutopilotTick` with its place (the label of the key it is at),
its session and what it found out. A session is the attempt of the claimed task or the
heartbeat bucket; `journal[s][l]` is the row of the key that session and label make. A step
is `BeginKey`, the work, and `PutDone`; where nothing is followed of the work it is one
action, `Keyed`, that begins, replays, is refused or throws. `print` stands for the
fingerprint: labels whose payload holds the outcome so far are refused to a tick that fared
otherwise. The tick lock is read (`ReadTickLock`) and then inserted or stolen
(`InsertTickLock`, which fails on the primary key of a row that came in between;
`StealTickLock`, which updates by the key alone). `Release` reads whose it is and then
deletes by the key alone. A call about the lock may throw, before or after its write: in
`AcquireThrows` the tick rejects outside its `try`, in the last disjunct of `Release` the
error is swallowed, and either way the tick is `Stuck`: over, but perhaps with its lock
still held. `LeaseRunsOut` may come at any time. Only the council is awaited over a turn of
the event loop: a process takes calls (`Idle(p)`) and a tick goes on (`MayRun(t)`) while the
other ticks of the process wait there. An end of the run that was told, by `run.end` or
`run.end.error`, is marked `ended` in the row of its key, also when the step throws after
it. `overran` records that a lease ran out under a tick, `raced` that two ticks read an
expired row of the lock before either wrote, `belated` that a tick took the lock when the
bucket its keys are made of was already over; only properties read them.

Left out: `away_mode` safe and aggressive (they change which failure opens an incident
and which is braked), the follow-up tasks after their creation, and the answers
themselves: a council either reaches its quorum or does not, its decision is direct or
a fallback.

### BusStream, ThreadConsensus, TriChatTimeline

`events` are the rows in the order of `event_seq`; `path` says whose socket is at the
path, `bus[p]` whether the process counts itself as running and is really bound;
`link[c]` is a client's connection with its subscription and the frames on the wire;
`received[c]` is what the client read. `Drop` loses any tail of the wire. `cut`,
`foreign` and `unsent` mark the events a subscriber was never promised: beyond the
replay limit, published by a process it was not connected to, stored by a call that
then threw.

`messages` are the rows of a thread, of which the oldest `pruned` are gone;
`LatestTurn` is the `latest_turn` of `trichatConsensus`. A message's answer is its
canonical form. `call[p]` is the `message_post` or publish a process is in, statement
by statement; `flips` counts messages of `message_post` that brought disagreement, whoever
noticed, and `otherFlips` those that a bus event persisted.

Left out: several threads and subscriptions per client, `thread_open` and the thread's
status and `updated_at`, the limit of 300 messages a check looks at (longer threads
than the bound), and the Go client's channel, which drops events when the screen lags.

## 3. Runs

| run | instance | shows |
|---|---|---|
| `queue_two` | 2 tasks, 2 workers, 2 processes, 1 forced retry, 1 crash | `TypeOK`, `LeaseIffRunning`, `AttemptsWithinBudget`, and the refinement `ImplementsBoard`, under every interleaving of stale heartbeats, claims, retries and expiry |
| `queue_one` | 2 tasks, 2 workers, 1 process, batch 1, 1 crash | what one process adds: `TimelineAgrees`, `LeaseExtendedByOwner`, `BackoffIsDocumented`; and `FailedGetsRetried` |
| `queue_clamp` | 1 task, `max_delay_seconds` above the clamp | finding 1 |
| `journal` | 3 calls, 2 keys, 2 requests, 2 processes, 2 faults | `AtMostOnce`, `AnswersAgree`, `RowsAreFinal`, `ReservedCallSettles` |
| `journal_check` | 2 calls, 1 key, 1 process, no fault | finding 2 |
| `lock_one` | 3 owners, 1 process, leases of 1 to 3 | `SingleFlight`, `GrantMatchesRow` |
| `lock_two` | 3 owners, 2 processes | finding 3 |
| `turn_two` | 1 turn, 2 processes, 1 crash | `EvidenceComesFirst` at every interleaving of two handlers |
| `turn_one` | 2 turns, 1 process, batch 1, 1 crash | `TerminalIsFinal`, `PhasesGoForward`, `AutoFinalizationInvariants`, `StalledTurnsEnd` |
| `server` | 2 processes; 6 scenes of a database (new, old with `user_version` alone, imported, full) and a daemon; 2 lines, 2 runs, 1 job, 2 snapshots, 1 mishap; 338,137 states | `UpMeansComplete`, `VersionNeverFalls`, `EveryProcessComesUp`; `PromiseKept`; `MemoriesMatchMarks`, `NothingIsForgotten`, `SquishDrains`; `SnapshotsAreBacked`, `ProfileBirthStays` |
| `autopilot` | 2 processes, up to 3 ticks, 2 buckets, 2 attempts; two ticks with one call or mishap, three ticks of one bucket with a mishap, or two that overlap with an overrun lease; 2,657,673 states | `CommandsRunOnce`, `SingleFlight`, `RunAgreesWithTask`, `NothingLeftBehind` |
| `timeline` | 2 processes, 2 subscribers, 3 agents, 2 answers; 7 budgets of up to 4 messages or 3 events; 1,806,669 states | `SubscribersMissNothing`, `AlertPerFlip` |

Why the bounds are enough. A race needs two processes and, to go unnoticed, a second
worker or owner; a third adds the same stale read again. Two tasks make an order by
priority and by age and let one crowd out the other in a batch of one. `max_attempts`
of 2, with one forced retry, reaches "exhausted", "forced past it" and "exhausted
again"; in `queue_one` the delay of the first attempt is the base and that of the second the
doubled one, which is the cap; the clamp above it is `queue_clamp`'s. Leases and delays of one
unit give the three cases before, at, and after expiry. Three calls over two keys are a
winner, a loser or retry, and a bystander. A turn has no link to another one except
the watchdog's batch, which two turns fill. One crash is enough because every handler's
memory is lost with it and the tables are all that is left; a second one repeats it.
The client's changes are those the clients of the repository send, plus the jumps,
regressions and ends that validation has to judge.

In `server` two lines and a batch or limit of one already make a second tick necessary;
the old databases differ in what `user_version` and the records say; the settings in
`focus` are tried at, below and above their bounds, the other settings keep one value
since no setting but `base_delay_seconds` and `max_delay_seconds` looks at another. In
`autopilot` two ticks are enough to replay, to be refused, to overlap and to finish what
another left; a third one of the same bucket is needed for a task and its run to be ended
by different ticks after one that threw; two buckets and two attempts keep two sessions of
each kind apart. In
`timeline` four messages are a question and the three answers it takes to go from
incomplete to consensus to disagreement or to change an answer; three events exceed the
replay limit of two after a client lost its place. Each budget of a behaviour favours
one kind of event, because all at once are too many states; budgets are chosen in
`Init`, so that all are checked in one run.

One process or two. `TimelineAgrees`, `LeaseExtendedByOwner`, `SingleFlight`,
`GrantMatchesRow`, `TerminalIsFinal`, `PhasesGoForward` and `AutoFinalizationInvariants`
hold when one server process serves the database. With two each of them can be broken,
because the code checks a row before the statement that writes it: a late heartbeat appends
its event to a completed task; a heartbeat read under one holder extends the lease of the
next; two processes steal one expired lock; a client's update that was validated before the
watchdog's write lands after it and sets the failed turn running again. `README.md:34` names
"single-flight leases", which the autopilot of every server process takes through this lock,
so that one is a finding. The `SingleFlight` of `Autopilot`, which is checked with two
processes, excuses just this race (`raced`) and a tick that outlives its lease (`overran`).
The others are stated for one process, which is the single-server deployment, and the
comment of each says so. In the later modules the same distinction is part of the property:
`PromiseKept` and the first half of `AlertPerFlip` speak of one process (`Alone`,
`started`), and `SquishedOnce` lets two processes put a line in two memories.

Fairness. `WF` of a handler's next statement: Node runs a synchronous handler to its
end. `SF` of `AutoRetryList` and `WatchdogList`: they are served from interval timers,
between handlers, and other calls keep disabling them (a process in a handler cannot
start a tick), so weak fairness would assume less than the event loop gives. Both
daemons are assumed enabled; a crash loses the tick and the daemon is restored at
start. `WF` of `Serve(c)` in the journal: a promise that was awaited continues, unless
the process dies. `FairSpec` of `ServerProcess` adds to
the event loop (`WF` of `Proceed`) that timers fire (`WF` of `Timer`: handlers end, so an
enabled timer is disabled only by a call that a client makes, and calls are bounded) and
that a process that died is launched again (`WF` of `LaunchProcess`), which launchd's
KeepAlive does. No fairness is assumed of clients, clocks, or crashes: in
particular nobody is obliged to heartbeat or to complete.

## 4. Findings

1. **The backoff cap** (`queue_clamp`). `docs/CONNECT.md:329` says the delay is "capped by
   `max_delay_seconds`", which may be up to 604800 (`src/tools/task.ts:87`), but `retryTask`
   clamps every delay to 86400 (`src/storage.ts:2342`). With a cap above a day the retry
   comes earlier than documented.
2. **"replay-safe"** (`journal_check`). `mutation.check` reports `replay-safe` and
   `valid_for_execution` for any row of the same tool and fingerprint
   (`src/tools/idempotency.ts:24`), also one that is `in_progress` or `failed`, for
   which `beginMutation` throws.
3. **Two thefts** (`lock_two`). `acquireLock` reads and then updates by key
   (`src/storage.ts:4310`). Of two processes that both find the lease expired, both are
   told that they hold the lock: in the run's trace the first, which was the owner, that it
   renewed its lease, the second that it took it over (`stolen-expired`).

A fourth disagreement with the documents has no run of its own. **Unannounced flips**:
`src/README.md:24` promises "Automatic `consensus.alert` bus events when a thread flips into
disagreement", and `docs/CONNECT.md:240` that "When a thread flips into disagreement, the
server publishes `consensus.alert`". Only `message_post` checks the thread: a message that a
bus event persists (`persist_message`) and the messages of the autopilot's council are
appended without (`src/tools/trichat.ts:2635`). So with one process and nothing failing, a
third answer that a bus event persists may bring the thread into disagreement, and no alert
follows. `AlertPerFlip` therefore holds `message_post` alone to the promise, and of the other
flips (`otherFlips`) asks neither that there is an alert nor that there is none.

Also seen, without a document that says otherwise, and left to whoever maintains the
code:

- A running task whose worker died is never handed out again (claiming asks for
  `pending`, auto-retry for `failed`).
- With two processes, both may announce one flip, or neither; and two auto-squish ticks
  put one line into two memories.
- A process that starts or stops a daemon writes the whole configuration it restored at
  its own launch over what another process set since.
- The Go client drops the part of a line it has read when its deadline of two seconds
  passes.
- A tick that threw fails its task (`panic_fail`); a later tick of the same session replays
  what was done and may still record the run as succeeded. `RunAgreesWithTask` names this
  case.
- `run.end.error` records the run as failed whenever a tick threw, also after the tick had
  completed the task (`run.step` or `run.end` threw, or the completion of the key). So a run
  may be failed whose task is completed; `RunAgreesWithTask` speaks of `run.end` alone.
- An error of `releaseLock` is swallowed (`src/tools/trichat.ts:2479`), and `acquireLock` is
  called outside the `try` (1903), so that it may throw with its row written. In both cases a
  tick that is over holds the tick lock until its lease ends, and ticks are skipped meanwhile.
- After that, or after a crash, ticks of two processes may both take the expired tick lock and
  both work (finding 3 in the autopilot). Their commands still run once (`CommandsRunOnce`).
- A client can clear the verify summary of a turn, also of one that failed automatically:
  `verify_summary: ""` is accepted (`src/tools/trichat.ts:121`), validation returns early on
  an ended turn (4424), and the empty string is stored as NULL (`src/storage.ts:2939`). Then
  the check `verify_summary_on_failure` of `trichat.chaos` `verify_turn` (6688) fails.
- A tick makes its keys of the clock before it takes the lock. If the bucket is over by
  then (`belated`), it may come after a tick of the next bucket, under keys of the attempt
  before, and may settle the task that is running now.

## 5. Proofs

Every invariant and every action property that a passing run checks is proved, for every
value of the constants that satisfies the named assumptions. Most assumptions say that a
null value is no row, that a bound is a number and that a set is finite; those that say
more are named below. The runs evaluate all of them.

### The task queue

`TaskQueueProofs`, for any sets of tasks, workers and processes and any terms, delays and
limits. `QueueAssumption` asks for: `TaskIds` finite (the queries count), attempt limits
at least 1 (the clamp of `createTask`), natural numbers for terms and delays,
`BaseDelay <= MaxDelay` (which `resolveTaskAutoRetryConfig` enforces), and null values
that are not rows.

- `TypeCorrect`: `Spec => []TypeOK`.
- `LeaseSafety`, `AttemptBudget`: the two invariants of `queue_two`, through
  `QueueInv == TypeOK /\ LeaseIffRunning /\ AttemptsWithinBudget`. This is inductive
  because the only writes that go by stale data are `HeartbeatWrite`, which can
  neither create nor remove a lease row nor change its owner, and `AutoRetryStep`,
  which tests `Retryable` again on the current row. The "Effect" lemmas say what each
  action does to one task; `StepQueueInv` uses them action by action.
- `QueueImplementsBoard`: `Spec => ImplementsBoard`. The refinement needs
  `RefInv == QueueInv /\ AbsentIsBlank /\ NeverCancelled`: an absent task has no
  attempts and no last worker (so `CreateTask` maps to `Post`), and nothing writes
  `cancelled` (so every retry starts from `failed`). Each step maps to one board step
  or to a stutter; `Finish` maps to `Leave` because `LeaseIffRunning` identifies the
  caller with the holder.
- For one process (`Procs = {self}`), `TimelineTellsStatus` and `ExtendedByOwnerAlone`:
  `TimelineAgrees` and `LeaseExtendedByOwner`. `AloneInv` adds `BeatStands` to
  `QueueInv`: between the two halves of a heartbeat its process is in no batch, and the
  lease is still its worker's. So the event that a heartbeat appends finds its task
  running.
- For one process, `RetriesWaitAsDocumented`: `BackoffIsDocumented`. `BackoffInv` adds
  that a task that ran has an attempt (`RunnersWereClaimed`) and that the attempt counts
  a tick listed are still those of the tasks (`ListIsFresh`). The theorem asks for
  `MaxDelay <= DelayCap`, without which it is false (finding 1), and for
  `\A n \in Nat : 2 ^ n \in Nat`, a fact of arithmetic that takes an induction the
  provers cannot do.

### Journal, lock, turns

`MutationJournalProofs`, for any calls, keys, requests, processes and number of faults:

- `JournalTypeCorrect`; `OnceForAll`, `AnswersForAll`, `RowsStay`: `AtMostOnce`,
  `AnswersAgree` and `RowsAreFinal`. `JournalInv` ties the stages of calls to rows: a call
  that works owns the row of its key and that row is in progress; every effect belongs to
  the owner of its key's row; a done row's effect is committed. The loser of a race has no
  row, so it never gets to `Execute`.

`LeaseLockProofs`, for any owners and terms:

- `LockTypeCorrect`, for any number of processes; for one (`Procs = {p}`, which `lock_two`
  shows to be needed) `GrantsMatch` and `OneFlight`: `GrantMatchesRow` and `SingleFlight`.
  `LockInv` adds `DecisionStands`: what the process decided after its SELECT still holds
  when it writes. Time passing keeps it, because an expired lease stays expired.

`TriChatTurnProofs`, for any turns and client changes (`TurnAssumption`: finitely many
turns, clients that claim no decision or automatic failure, but may clear a summary;
`KeepAssumption`: a column left out is no value of a column):

- `TurnTypeCorrect`, `EvidenceFirst`: `TypeOK` and `EvidenceComesFirst`, for any number
  of processes. `TurnInv` adds `JobBacked`: no process reaches the stage that fails or
  decides a turn, and no draft claims a failure or a decision, before the log holds the
  artifact. Logs only grow, so stale drafts stay backed.
- `FailedTurnsEndWell`, `EndedTurnsStay`, `PhasesRise`: `AutoFinalizationInvariants`,
  `TerminalIsFinal` and `PhasesGoForward`, for one process. `AloneInv` adds `Stands`: a
  validating handler has seen the row as it still is, the turns a watchdog has yet to
  fail are different ones and running, and a draft `Follows` its row (it keeps an ended
  row, does not lower the phase, and is automatically failed only if it ends for good).
  Every write then puts in a row that follows the one before. Before the message is
  written, the row `failTurnWithEvidence` evaluates has the summary too; that is all that
  holds of the summary, which a client may clear later.

### A server process

`ServerProcessProofs`, for any processes and any scenes of databases and daemons
(`SameProcesses`: squishing and writing are done by server processes;
`ScenesAssumption`: a scene is a database and a daemon with a row of that daemon, whatever
numbers it holds). Each part's invariant is proved of the steps of that part; a lemma
(`NextIsSchemaStep`, `NextIsTranscriptStep`, `NextIsImprintStep`) shows that every step of
the composition is one of these or leaves the part alone.

- `ServerTypeCorrect`: `TypeOK` of all parts. Its content is in the settings: for each
  daemon, whatever a row or a call gives becomes, after bounding and ordering, a
  configuration that bounding and ordering leave alone. And `PendingRuns`, the rows by
  rank that a tick works on, is a sequence of runs: the ranks below their number are all
  taken (`RanksAreTaken`, by counting).
- `SchemaIsComplete`, `VersionOnlyRises`: `UpMeansComplete` and `VersionNeverFalls`.
  `SchemaInv` says that what a process took for applied is recorded or covered by
  `user_version` (`AppliedIsTrue`), and what `user_version` covers is recorded or known
  to whoever still migrates (`CoveredIsKnown`): a process that lost a race fails on the
  primary key instead of going on with an older number.
- `AnswersAreKept`: `PromiseKept`. `PromiseInv` says that processes not started are down
  and, while one alone was ever started: the row tells what was promised or what an
  unsettled call asked (`RowTells`), a process that is up runs by one of these
  (`Serves`), and a call under way is among the unsettled, already in force in memory,
  and in the row once that is written (`CallStands`). So a crash at any statement
  restores either the answer given or one that is still owed.
- `MarksAreBacked`, `LinesAreSquishedOnce`, `RetentionForgetsNothing`: the half
  `SquishedIsRemembered` of `MemoriesMatchMarks` that needs no single process, all of
  `MemoriesMatchMarks`, and `NothingIsForgotten`. `LineInv` says what each worker is about
  to mark or delete: it has made the memory, or found it made, and no other process undoes
  that. `OnceInv` counts: a line not logged is in no memory; only servers that are up
  work; and with one process ever started a line is in at most one memory more than there
  were mishaps, in none more if it is unmarked and no batch owes it the mark, and a batch
  whose memory is not yet inserted holds unmarked lines only.
- `SnapshotsHaveTheirParts`, `ProfilesKeepTheirBirth`: `SnapshotsAreBacked` and
  `ProfileBirthStays`. `ImprintInv` says what a writer between two steps has behind it.

### The autopilot

`AutopilotProofs`, for any ticks, processes, buckets, attempts and budgets
(`BoundsAssumption`: finitely many ticks, a task has at least one attempt):

- `CommandsOnceForAll`: `CommandsRunOnce`. The commands of a session have run at most
  once, and only if the row of the key `command` exists (`CommandInv`); the key is begun
  by one tick, and no tick that finds a row runs them.
- `TicksFlyAlone`: `SingleFlight`, with the lock read and written in separate statements of
  interleaving processes. `WorkersHoldLock`: while no tick outlived its lease and no two
  raced for an expired lock, whoever works is the owner in an unexpired row of the lock.
  `ThievesAlone`: then also at most one tick is about to steal, and the row is still expired,
  so nobody works. An INSERT needs no such thing, for it fails if a row came in between.
- `AutopilotTypeCorrect`: `TypeOK`. The bound on the error count, twice the ticks, is not of
  its own strength: `ErrorsCounted` ties it to the ticks that are over and those that failed.
- `TicksGiveBack`: `NothingLeftBehind`. `LeftInv`: the owner of the lock is a tick that
  works, died, or got stuck in the very call that took or released it (`LockOwned`);
  `in_tick` is set only while a tick of the process works (`InTickTells`); an attempt that a
  bucket or a tick knows of was made (`AttemptsMade`); an attempt that is settled does not
  run (`SettledIsOver`); and without mishaps a task that runs has a tick that claimed it and
  is still to settle it (`RunningIsHeld`).
- `RunsAndTasksAgree`: `RunAgreesWithTask`, which speaks of the ends that `run.end` told and
  not of `run.end.error`. `RunInv`, which holds while no tick overran, raced for the lock or
  was belated: the session that works is the newest (`BucketsInOrder`); whoever settles
  has claimed (`SettlersClaimed`); a tick past the verification carries the verdict its
  key recorded, however it got there (`VerdictStands`); the keys `complete` and `fail` are
  used as that verdict says, and nothing else ends a task but a tick that threw
  (`OneWay`); and a tick that is about to record an end, and a
  recorded end, tell what became of the task (`AgreesOnceSettled`). The verdict is what
  two ticks of a session share: the later one is refused at the verification, or at an
  end, unless it came to the same.

### Bus, messages and alerts

`TimelineStreamProofs` and `TimelineAlertProofs`, for any processes, clients, agents,
wants, answers and budgets (`ProcsAssumption`, `ThreadAssumption`: finitely many processes
and agents; `TypesAssumption`: the four event types the module speaks of):

- `TimelineTypeCorrect`: `TypeOK`, with what counting flips and messages takes (`TypeInv`).
- `NoEventIsMissed`: `SubscribersMissNothing`. `StreamInv` says of each client
  (`ClientInv`) that what it has read followed by the frames on its wire rises and, with
  the events its process has stored and is still to push, and with the excused ones, is
  every event it wants; what comes next is above what came before. A replay, a live push,
  a lost wire and a stolen path each keep this, and the lemmas on rising sequences say
  why.
- `AlertsMatchFlips`: `AlertPerFlip`. `AlertInv`: every process has no more alerts, with the
  one its call may still store, than there were flips (`Covered`); and while one process
  serves without mishaps, alerts and the one to come are as many as the flips of posts
  (`Alone`). The property promises less where a bus event persisted a flip: between the
  flips of posts and all flips. Answers come after their questions and pruning takes the
  oldest, so that pruning brings no disagreement and a flip is seen by the first check after
  it.

### What is only model-checked

All liveness (`FailedGetsRetried`, `ReservedCallSettles`, `StalledTurnsEnd`,
`EveryProcessComesUp`, `SquishDrains`), which under fairness is out of the prover's reach.
The powers of two in the backoff are natural numbers by induction, which it cannot do
either; `queue_one` computes them.

## 6. Plan

Modelled, checked and proved so far is what sections 2 to 5 say. What is left, in this
order.

1. Proofs: abstract specifications of the journal and of the streams, as `TaskBoard` is of
   the queue, and the steps that implement them; what of the `SingleFlight`
   of `LeaseLock` survives with several processes.
2. `InboxWorker`: the Python worker as a second writer of the task tables
   (`BEGIN IMMEDIATE`, a heartbeat thread) with its file directories, composed with
   `TaskQueue`: a file becomes one task, a task ends once.
3. The autopilot's `away_mode` safe and aggressive, and its follow-up tasks.
4. Several threads and subscriptions per client, and `thread_open`.
5. The circuit breakers of the Go client and the adapter telemetry they report.

## 7. Not modelled

- Text: similarity and novelty, summaries, rendering, search and ranking; the
  `transcripts` table and the notes made of lines; ADR files.
- Single-statement logs: runs, incidents, decisions, policy, telemetry, SLO snapshots,
  `updated_at` and titles of threads.
- Transports, schema validation, launch, smoke, soak and dogfood scripts, model calls by
  bridges: I/O.
- The inbox worker, follow-up tasks, `away_mode` safe and aggressive, and circuit
  breakers: see the plan.
- `in_tick` of the synchronous daemons: it is set and cleared within one handler of one
  event loop, where nobody can see it.
- The limit of 300 messages a consensus check looks at: the run's threads are shorter.
- The events the Go client drops when its screen lags.
- The disk losing committed data: SQLite is trusted to make a committed transaction
  durable and atomic.
