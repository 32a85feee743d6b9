------------------------------ MODULE TaskQueue ------------------------------
(***************************************************************************)
(* The task queue of src/src/storage.ts (tables tasks, task_leases and     *)
(* task_events) with the auto-retry tick of src/src/tools/task.ts.         *)
(*                                                                         *)
(* Several server processes may serve the same SQLite file.  A process     *)
(* runs one synchronous handler at a time.  An operation written as        *)
(* db.transaction is one step (SQLite serialises it or throws, which       *)
(* changes nothing); one that reads outside its transaction, and the tick  *)
(* that lists first and retries afterwards, is split at each statement so  *)
(* that other processes interleave.                                        *)
(*                                                                         *)
(* Time is relative: wait counts down to available_at, left counts down to *)
(* lease_expires_at, and Tick ages all of them.  Rows written in the same  *)
(* millisecond are taken to be ordered some way or other.                  *)
(***************************************************************************)
EXTENDS Integers, Sequences, FiniteSets

CONSTANTS
    TaskIds, Workers, Procs,
    NoLease,          \* no row in task_leases
    NoWorker,         \* last_worker_id is NULL
    NoBeat,           \* the process is not inside heartbeatTaskLease
    Priorities,       \* priorities a client passes (the code clamps to 0..100)
    AttemptLimits,    \* max_attempts a client passes (clamped to 1..20)
    LeaseTerms,       \* lease_seconds a client passes (clamped to 15..86400)
    Delays,           \* delays a client passes to task.create and task.retry
    BaseDelay,        \* base_delay_seconds of the auto-retry daemon
    MaxDelay,         \* max_delay_seconds of the auto-retry daemon, never below BaseDelay
    DelayCap,         \* the 86400 that retryTask clamps every delay to
    BatchLimit,       \* batch_limit of the auto-retry daemon
    MaxForced,        \* bound: forced retries of one task
    MaxCrashes        \* bound: process crashes in a behaviour

ASSUME QueueAssumption ==
    /\ NoLease \notin [owner : Workers, left : Nat]
    /\ IsFiniteSet(TaskIds)
    /\ NoWorker \notin Workers
    /\ NoBeat \notin [task : TaskIds, worker : Workers, left : Nat]
    /\ Priorities \subseteq Nat
    /\ AttemptLimits \subseteq Nat \ {0}
    /\ LeaseTerms \subseteq Nat
    /\ Delays \subseteq Nat
    /\ BaseDelay \in Nat
    /\ MaxDelay \in Nat
    /\ BaseDelay <= MaxDelay
    /\ DelayCap \in Nat
    /\ BatchLimit \in Nat \ {0}
    /\ MaxForced \in Nat
    /\ MaxCrashes \in Nat

VARIABLES
    tasks,          \* tasks[t]: the row of t in table tasks
    leases,         \* leases[t]: the row of t in table task_leases
    timeline,       \* timeline[t]: to_status of the newest task_events row of t
    createdAfter,   \* createdAfter[t]: the tasks with an earlier created_at
    failedAfter,    \* failedAfter[t]: failed tasks with an earlier finished_at
    beat,           \* beat[p]: what p read and has yet to write in a heartbeat
    batch,          \* batch[p]: what p's auto-retry tick listed and has left
    crashes         \* crashes so far

procVars == <<beat, batch, crashes>>
tables == <<tasks, leases, timeline, createdAfter, failedAfter>>
vars == <<tables, procVars>>

-----------------------------------------------------------------------------
(* Types *)

\* No operation of the repository writes "cancelled".
Statuses == {"absent", "pending", "running", "failed", "completed", "cancelled"}

TaskRow == [status : Statuses, priority : Nat, max_attempts : Nat,
            attempt_count : Nat, wait : Nat, last_worker_id : Workers \cup {NoWorker},
            forced : Nat]  \* forced: ghost, how often a retry was forced

LeaseRow == [owner : Workers, left : Nat]
Beat == [task : TaskIds, worker : Workers, left : Nat]
Listed == [task : TaskIds, attempts : Nat]

NoTask == [status |-> "absent", priority |-> 0, max_attempts |-> 1, attempt_count |-> 0,
           wait |-> 0, last_worker_id |-> NoWorker, forced |-> 0]

TypeOK ==
    /\ tasks \in [TaskIds -> TaskRow]
    /\ leases \in [TaskIds -> LeaseRow \cup {NoLease}]
    /\ timeline \in [TaskIds -> Statuses]
    /\ createdAfter \in [TaskIds -> SUBSET TaskIds]
    /\ failedAfter \in [TaskIds -> SUBSET TaskIds]
    /\ beat \in [Procs -> Beat \cup {NoBeat}]
    /\ batch \in [Procs -> Seq(Listed)]
    /\ crashes \in Nat

-----------------------------------------------------------------------------
(* What the queries ask *)

Idle(p) == beat[p] = NoBeat /\ batch[p] = <<>>

WithStatus(s) == {t \in TaskIds : tasks[t].status = s}

\* No lease row, or one whose lease_expires_at has come.
LeaseFree(t) == leases[t] # NoLease => leases[t].left = 0

Claimable(t) == tasks[t].status = "pending" /\ tasks[t].wait = 0 /\ LeaseFree(t)

\* ORDER BY priority DESC, created_at ASC
Outranks(t, u) ==
    \/ tasks[t].priority > tasks[u].priority
    \/ tasks[t].priority = tasks[u].priority /\ t \in createdAfter[u]

BestCandidate(t) ==
    /\ Claimable(t)
    /\ \A u \in TaskIds \ {t} : Claimable(u) => Outranks(t, u)

\* Variant: exhausted tasks are listed too.
EligibleOrExhausted == {t \in WithStatus("failed") : LeaseFree(t)}

Eligible ==
    {t \in WithStatus("failed") :
        tasks[t].attempt_count < tasks[t].max_attempts /\ LeaseFree(t)}

\* ORDER BY finished_at ASC LIMIT BatchLimit
OldestFirst(order) ==
    /\ \A i, j \in DOMAIN order : i < j => order[i] \in failedAfter[order[j]]
    /\ \A u \in Eligible : \A i \in DOMAIN order :
          u \in {order[j] : j \in DOMAIN order} \/ order[i] \in failedAfter[u]

BatchSize == IF Cardinality(Eligible) < BatchLimit THEN Cardinality(Eligible) ELSE BatchLimit

\* d, or hi when d lies above it.
CappedAt(d, hi) == IF d \in 0..hi THEN d ELSE hi

\* Variant: doubles once too often.
BackoffFromOne(attempts) == CappedAt(BaseDelay * 2 ^ attempts, MaxDelay)

\* computeRetryBackoffSeconds: a task that was never claimed counts as attempt 1.
Backoff(attempts) ==
    CappedAt(BaseDelay * 2 ^ (IF attempts = 0 THEN 0 ELSE attempts - 1), MaxDelay)

-----------------------------------------------------------------------------
(* Operations *)

Init ==
    /\ tasks = [t \in TaskIds |-> NoTask]
    /\ leases = [t \in TaskIds |-> NoLease]
    /\ timeline = [t \in TaskIds |-> "absent"]
    /\ createdAfter = [t \in TaskIds |-> {}]
    /\ failedAfter = [t \in TaskIds |-> {}]
    /\ beat = [p \in Procs |-> NoBeat]
    /\ batch = [p \in Procs |-> <<>>]
    /\ crashes = 0

AppendTaskEvent(t, to) == timeline' = [timeline EXCEPT ![t] = to]

\* A second create of the same task_id reports created: false and changes nothing.
CreateTask(p, t, priority, limit, delay) ==
    /\ Idle(p)
    /\ tasks[t].status = "absent"
    /\ tasks' = [tasks EXCEPT ![t] =
           [NoTask EXCEPT !.status = "pending", !.priority = priority,
                          !.max_attempts = limit, !.wait = delay]]
    /\ createdAfter' = [createdAfter EXCEPT ![t] = TaskIds \ WithStatus("absent")]
    /\ AppendTaskEvent(t, "pending")
    /\ UNCHANGED <<leases, failedAfter, procVars>>

\* Variant: the lease goes to the worker of the attempt before.
GrantToLastWorker(p, w, t, term) ==
    /\ Idle(p)
    /\ Claimable(t)
    /\ tasks' = [tasks EXCEPT ![t].status = "running",
                              ![t].attempt_count = @ + 1,
                              ![t].last_worker_id = w]
    /\ leases' = [leases EXCEPT ![t] = [owner |-> tasks[t].last_worker_id, left |-> term]]
    /\ AppendTaskEvent(t, "running")
    /\ UNCHANGED <<createdAfter, failedAfter, procVars>>

Grant(p, w, t, term) ==
    /\ Idle(p)
    /\ Claimable(t)
    /\ tasks' = [tasks EXCEPT ![t].status = "running",
                              ![t].attempt_count = @ + 1,
                              ![t].last_worker_id = w]
    /\ leases' = [leases EXCEPT ![t] = [owner |-> w, left |-> term]]
    /\ AppendTaskEvent(t, "running")
    /\ UNCHANGED <<createdAfter, failedAfter, procVars>>

\* task.claim with a task_id
ClaimTask(p, w, t, term) == Grant(p, w, t, term)

\* task.claim without one
ClaimNext(p, w, term) == \E t \in TaskIds : BestCandidate(t) /\ Grant(p, w, t, term)

\* Variant: no owner check.
HeartbeatReadAnyWorker(p, w, t, term) ==
    /\ Idle(p)
    /\ leases[t] # NoLease
    /\ beat' = [beat EXCEPT ![p] = [task |-> t, worker |-> w, left |-> term]]
    /\ UNCHANGED <<tables, batch, crashes>>

\* heartbeatTaskLease reads the lease before its transaction ...
HeartbeatRead(p, w, t, term) ==
    /\ Idle(p)
    /\ leases[t] # NoLease
    /\ leases[t].owner = w
    /\ beat' = [beat EXCEPT ![p] = [task |-> t, worker |-> w, left |-> term]]
    /\ UNCHANGED <<tables, batch, crashes>>

\* Variant: an upsert, which brings back the lease row of a finished task.
HeartbeatUpsert(p) ==
    /\ beat[p] # NoBeat
    /\ leases' = [leases EXCEPT ![beat[p].task] =
           [owner |-> beat[p].worker, left |-> beat[p].left]]
    /\ AppendTaskEvent(beat[p].task, "running")
    /\ beat' = [beat EXCEPT ![p] = NoBeat]
    /\ UNCHANGED <<tasks, createdAfter, failedAfter, batch, crashes>>

\* ... and writes by task_id alone: whoever's row is there by then is extended, and
\* the event is appended even when there is no row.
HeartbeatWrite(p) ==
    /\ beat[p] # NoBeat
    /\ leases' = [leases EXCEPT ![beat[p].task] =
           IF @ = NoLease THEN NoLease ELSE [owner |-> @.owner, left |-> beat[p].left]]
    /\ AppendTaskEvent(beat[p].task, "running")
    /\ beat' = [beat EXCEPT ![p] = NoBeat]
    /\ UNCHANGED <<tasks, createdAfter, failedAfter, batch, crashes>>

\* Variant: any worker may end the attempt.
FinishByAnyone(p, w, t, outcome) ==
    /\ Idle(p)
    /\ leases[t] # NoLease
    /\ tasks[t].status = "running"
    /\ tasks' = [tasks EXCEPT ![t].status = outcome, ![t].last_worker_id = w]
    /\ leases' = [leases EXCEPT ![t] = NoLease]
    /\ AppendTaskEvent(t, outcome)
    /\ UNCHANGED <<createdAfter, procVars>>

\* completeTask and failTask ask for the owner's name, not for an unexpired lease.
Finish(p, w, t, outcome) ==
    /\ Idle(p)
    /\ leases[t] # NoLease
    /\ leases[t].owner = w
    /\ tasks[t].status = "running"
    /\ tasks' = [tasks EXCEPT ![t].status = outcome, ![t].last_worker_id = w]
    /\ leases' = [leases EXCEPT ![t] = NoLease]
    /\ AppendTaskEvent(t, outcome)
    /\ UNCHANGED <<createdAfter, procVars>>

CompleteTask(p, w, t) == Finish(p, w, t, "completed") /\ UNCHANGED failedAfter

FailTask(p, w, t) ==
    /\ Finish(p, w, t, "failed")
    /\ failedAfter' = [failedAfter EXCEPT ![t] = WithStatus("failed")]

\* Variant: trusts the caller about attempts.
RetryableOnStatus(t, force) == tasks[t].status \in {"failed", "cancelled"}

Retryable(t, force) ==
    /\ tasks[t].status \in {"failed", "cancelled"}
    /\ force \/ tasks[t].attempt_count < tasks[t].max_attempts

\* Variant: no event for the retry.
RequeueUnlogged(t, delay, force) ==
    /\ tasks' = [tasks EXCEPT ![t].status = "pending",
                              ![t].wait = CappedAt(delay, DelayCap),
                              ![t].forced = @ + (IF force THEN 1 ELSE 0)]
    /\ leases' = [leases EXCEPT ![t] = NoLease]
    /\ failedAfter' = [u \in TaskIds |-> IF u = t THEN {} ELSE failedAfter[u] \ {t}]
    /\ UNCHANGED <<createdAfter, timeline>>

Requeue(t, delay, force) ==
    /\ tasks' = [tasks EXCEPT ![t].status = "pending",
                              ![t].wait = CappedAt(delay, DelayCap),
                              ![t].forced = @ + (IF force THEN 1 ELSE 0)]
    /\ leases' = [leases EXCEPT ![t] = NoLease]
    /\ failedAfter' = [u \in TaskIds |-> IF u = t THEN {} ELSE failedAfter[u] \ {t}]
    /\ AppendTaskEvent(t, "pending")
    /\ UNCHANGED createdAfter

RetryTask(p, t, delay, force) ==
    /\ Idle(p)
    /\ Retryable(t, force)
    /\ force => tasks[t].forced < MaxForced
    /\ Requeue(t, delay, force)
    /\ UNCHANGED procVars

\* The daemon's timer, or task.auto_retry with run_once, lists the failed tasks ...
AutoRetryList(p) ==
    /\ Idle(p)
    /\ Eligible # {}
    /\ \E order \in [1..BatchSize -> Eligible] :
          /\ OldestFirst(order)
          /\ batch' = [batch EXCEPT ![p] =
                 [i \in 1..BatchSize |->
                     [task |-> order[i], attempts |-> tasks[order[i]].attempt_count]]]
    /\ UNCHANGED <<tables, beat, crashes>>

\* ... and retries them one transaction at a time, each with a delay computed
\* from the attempt count that was listed.
AutoRetryStep(p) ==
    /\ batch[p] # <<>>
    /\ batch' = [batch EXCEPT ![p] = Tail(batch[p])]
    /\ LET item == Head(batch[p]) IN
       \/ Retryable(item.task, FALSE) /\ Requeue(item.task, Backoff(item.attempts), FALSE)
       \/ ~Retryable(item.task, FALSE) /\ UNCHANGED tables
    /\ UNCHANGED <<beat, crashes>>

\* A process dies between two statements; the database keeps what was committed.
Crash(p) ==
    /\ ~Idle(p)
    /\ crashes < MaxCrashes
    /\ crashes' = crashes + 1
    /\ beat' = [beat EXCEPT ![p] = NoBeat]
    /\ batch' = [batch EXCEPT ![p] = <<>>]
    /\ UNCHANGED tables

Less1(n) == IF n = 0 THEN 0 ELSE n - 1

\* One unit of time.  The expiry a heartbeat is about to write was fixed when it read.
Tick ==
    /\ \/ \E t \in TaskIds : tasks[t].wait > 0 \/ ~LeaseFree(t)
       \/ \E p \in Procs : beat[p] # NoBeat /\ beat[p].left > 0
    /\ tasks' = [t \in TaskIds |-> [tasks[t] EXCEPT !.wait = Less1(@)]]
    /\ leases' = [t \in TaskIds |->
           IF leases[t] = NoLease THEN NoLease ELSE [leases[t] EXCEPT !.left = Less1(@)]]
    /\ beat' = [p \in Procs |->
           IF beat[p] = NoBeat THEN NoBeat ELSE [beat[p] EXCEPT !.left = Less1(@)]]
    /\ UNCHANGED <<timeline, createdAfter, failedAfter, batch, crashes>>

ServeCall(p) ==
    \/ \E t \in TaskIds, priority \in Priorities, limit \in AttemptLimits, delay \in Delays :
          CreateTask(p, t, priority, limit, delay)
    \/ \E w \in Workers, t \in TaskIds, term \in LeaseTerms : ClaimTask(p, w, t, term)
    \/ \E w \in Workers, term \in LeaseTerms : ClaimNext(p, w, term)
    \/ \E w \in Workers, t \in TaskIds, term \in LeaseTerms : HeartbeatRead(p, w, t, term)
    \/ HeartbeatWrite(p)
    \/ \E w \in Workers, t \in TaskIds : CompleteTask(p, w, t)
    \/ \E w \in Workers, t \in TaskIds : FailTask(p, w, t)
    \/ \E t \in TaskIds, delay \in Delays, force \in BOOLEAN : RetryTask(p, t, delay, force)

AutoRetry(p) == AutoRetryList(p) \/ AutoRetryStep(p)

Next == Tick \/ \E p \in Procs : ServeCall(p) \/ AutoRetry(p) \/ Crash(p)

Spec == Init /\ [][Next]_vars

\* A synchronous handler runs to its end, and the interval timer of the daemon is
\* served between handlers however busy the process is.
Fairness ==
    \A p \in Procs :
        /\ WF_vars(HeartbeatWrite(p))
        /\ WF_vars(AutoRetryStep(p))
        /\ SF_vars(AutoRetryList(p))

FairSpec == Spec /\ Fairness

-----------------------------------------------------------------------------
(* Properties *)

\* A task is running exactly while a lease row names the worker that claimed it: no
\* late heartbeat, retry or second claim leaves a lease without a running task, or a
\* running task that nobody can complete.
LeaseIffRunning ==
    \A t \in TaskIds :
        /\ tasks[t].status = "running" <=> leases[t] # NoLease
        /\ leases[t] # NoLease => leases[t].owner = tasks[t].last_worker_id

\* Attempts stay within max_attempts plus the forced retries, and a pending task has
\* one left, although the auto-retry tick acts on counts other processes may have
\* outdated.
AttemptsWithinBudget ==
    \A t \in TaskIds :
        LET budget == tasks[t].max_attempts + tasks[t].forced IN
        /\ tasks[t].attempt_count <= budget
        /\ tasks[t].status = "pending" => tasks[t].attempt_count < budget

\* The queue implements the board: one holder at a time, left only by its holder's
\* signature, a new attempt per grant, completed for good.
Board == INSTANCE TaskBoard WITH
    phase <- [t \in TaskIds |-> tasks[t].status],
    holder <- [t \in TaskIds |-> IF leases[t] = NoLease THEN NoWorker ELSE leases[t].owner],
    attempt <- [t \in TaskIds |-> tasks[t].attempt_count],
    signedBy <- [t \in TaskIds |-> tasks[t].last_worker_id]

ImplementsBoard == Board!BoardSpec

\* Replaying a task's timeline gives its status: the newest event's to_status is the
\* row's.  With one server process; a late heartbeat of a second one breaks it.
TimelineAgrees == \A t \in TaskIds : timeline[t] = tasks[t].status

\* A running lease is extended only on behalf of the worker that holds it.  With one
\* server process; heartbeatTaskLease checks the owner before its transaction.
LeaseExtendedByOwner ==
    [][\A t \in TaskIds :
          leases[t] # NoLease /\ leases'[t] # NoLease /\ leases'[t] # leases[t] =>
              \/ leases'[t].left < leases[t].left
              \/ \E p \in Procs : beat[p] # NoBeat /\ beat[p].task = t
                                   /\ beat[p].worker = leases[t].owner]_vars

\* The tick of some process moves t from failed to pending.
AutoRetried(t) ==
    /\ tasks[t].status = "failed" /\ tasks'[t].status = "pending"
    /\ \E p \in Procs : batch[p] # <<>> /\ Head(batch[p]).task = t /\ batch'[p] # batch[p]

DocumentedDelay(attempts) ==
    LET d == BaseDelay * 2 ^ (attempts - 1) IN IF d < MaxDelay THEN d ELSE MaxDelay

\* docs/CONNECT.md:329: an automatic retry waits base * 2^(attempt_count - 1), capped
\* by max_delay_seconds, for the attempt count the task has when it is retried.
BackoffIsDocumented ==
    [][\A t \in TaskIds : AutoRetried(t) =>
          tasks'[t].wait = DocumentedDelay(tasks[t].attempt_count)]_vars

HasAttemptsLeft(t) ==
    tasks[t].status = "failed" /\ tasks[t].attempt_count < tasks[t].max_attempts

\* The daemon gets to every failed task that has attempts left, in whatever order the
\* tasks fail and however small its batch: exhausted tasks do not crowd it out.
FailedGetsRetried ==
    \A t \in TaskIds : HasAttemptsLeft(t) ~> ~HasAttemptsLeft(t)
=============================================================================
