--------------------------- MODULE TaskQueueProofs ---------------------------
(***************************************************************************)
(* The task queue for any number of tasks, workers and server processes.   *)
(***************************************************************************)
EXTENDS TaskQueue, FiniteSetTheorems, TLAPS

\* A capped amount lies between 0 and the cap.
LEMMA CappedAtBounds ==
    ASSUME NEW d, NEW hi \in Nat
    PROVE  CappedAt(d, hi) \in 0..hi
BY DEF CappedAt

\* The batch a tick lists has a natural length.
LEMMA BatchSizeType == BatchSize \in Nat
<1>1. IsFiniteSet(Eligible)
  <2>1. Eligible \subseteq TaskIds
    BY DEF Eligible, WithStatus
  <2>2. QED BY <2>1, QueueAssumption, FS_Subset DEF QueueAssumption
<1>2. Cardinality(Eligible) \in Nat
  BY <1>1, FS_CardinalityType
<1>3. QED BY <1>2, QueueAssumption DEF BatchSize, QueueAssumption

LEMMA InitTypeOK == Init => TypeOK
BY QueueAssumption DEF Init, TypeOK, NoTask, TaskRow, Statuses, QueueAssumption

\* Setting one column of a row to a value of its type leaves a row.
LEMMA RowEdits ==
    ASSUME NEW r \in TaskRow
    PROVE  /\ \A s \in Statuses : [r EXCEPT !.status = s] \in TaskRow
           /\ \A n \in Nat : [r EXCEPT !.attempt_count = n] \in TaskRow
           /\ \A n \in Nat : [r EXCEPT !.wait = n] \in TaskRow
           /\ \A n \in Nat : [r EXCEPT !.forced = n] \in TaskRow
           /\ \A w \in Workers : [r EXCEPT !.last_worker_id = w] \in TaskRow
<1>1. \A s \in Statuses : [r EXCEPT !.status = s] \in TaskRow
  BY DEF TaskRow
<1>2. \A n \in Nat : [r EXCEPT !.attempt_count = n] \in TaskRow
  BY DEF TaskRow
<1>3. \A n \in Nat : [r EXCEPT !.wait = n] \in TaskRow
  BY DEF TaskRow
<1>4. \A n \in Nat : [r EXCEPT !.forced = n] \in TaskRow
  BY DEF TaskRow
<1>5. \A w \in Workers : [r EXCEPT !.last_worker_id = w] \in TaskRow
  BY DEF TaskRow
<1>6. QED BY <1>1, <1>2, <1>3, <1>4, <1>5

LEMMA RequeueTypeOK ==
    ASSUME TypeOK, NEW t \in TaskIds, NEW delay, NEW force \in BOOLEAN,
           Requeue(t, delay, force)
    PROVE  /\ tasks' \in [TaskIds -> TaskRow]
           /\ leases' \in [TaskIds -> LeaseRow \cup {NoLease}]
           /\ timeline' \in [TaskIds -> Statuses]
           /\ createdAfter' \in [TaskIds -> SUBSET TaskIds]
           /\ failedAfter' \in [TaskIds -> SUBSET TaskIds]
<1>1. CappedAt(delay, DelayCap) \in Nat
  BY CappedAtBounds, QueueAssumption DEF QueueAssumption
<1>2. tasks' \in [TaskIds -> TaskRow]
  <2> DEFINE T1 == [tasks EXCEPT ![t].status = "pending"]
  <2> DEFINE T2 == [T1 EXCEPT ![t].wait = CappedAt(delay, DelayCap)]
  <2> DEFINE T3 == [T2 EXCEPT ![t].forced = @ + (IF force THEN 1 ELSE 0)]
  <2>1. tasks' = T3
    BY DEF Requeue
  <2>2. T1 \in [TaskIds -> TaskRow]
    BY RowEdits DEF TypeOK, Statuses
  <2> HIDE DEF T1
  <2>3. T2 \in [TaskIds -> TaskRow]
    BY <1>1, <2>2, RowEdits
  <2>4. T2[t].forced + (IF force THEN 1 ELSE 0) \in Nat
    BY <2>3 DEF TaskRow
  <2> HIDE DEF T2
  <2>5. T3 \in [TaskIds -> TaskRow]
    BY <2>3, <2>4, RowEdits
  <2>6. QED BY <2>1, <2>5
<1>3. failedAfter' \in [TaskIds -> SUBSET TaskIds]
  BY DEF TypeOK, Requeue
<1>4. QED BY <1>2, <1>3 DEF TypeOK, Requeue, AppendTaskEvent, Statuses

LEMMA ServeCallTypeOK ==
    ASSUME TypeOK, NEW p \in Procs, ServeCall(p)
    PROVE  TypeOK'
<1>1. ASSUME NEW t \in TaskIds, NEW priority \in Priorities, NEW limit \in AttemptLimits,
             NEW delay \in Delays, CreateTask(p, t, priority, limit, delay)
      PROVE  TypeOK'
  <2>1. priority \in Nat /\ limit \in Nat /\ delay \in Nat
    BY QueueAssumption DEF QueueAssumption
  <2>2. QED BY <1>1, <2>1, QueueAssumption
            DEF CreateTask, AppendTaskEvent, TypeOK, NoTask, TaskRow, Statuses, WithStatus,
                procVars, QueueAssumption
<1>2. ASSUME NEW w \in Workers, NEW t \in TaskIds, NEW term \in LeaseTerms, Grant(p, w, t, term)
      PROVE  TypeOK'
  <2>1. term \in Nat
    BY QueueAssumption DEF QueueAssumption
  <2>2. tasks' \in [TaskIds -> TaskRow]
    <3> DEFINE T1 == [tasks EXCEPT ![t].status = "running"]
    <3> DEFINE T2 == [T1 EXCEPT ![t].attempt_count = @ + 1]
    <3> DEFINE T3 == [T2 EXCEPT ![t].last_worker_id = w]
    <3>1. tasks' = T3
      BY <1>2 DEF Grant
    <3>2. T1 \in [TaskIds -> TaskRow]
      BY RowEdits DEF TypeOK, Statuses
    <3>3. T1[t].attempt_count + 1 \in Nat
      BY <3>2 DEF TaskRow
    <3> HIDE DEF T1
    <3>4. T2 \in [TaskIds -> TaskRow]
      BY <3>2, <3>3, RowEdits
    <3> HIDE DEF T2
    <3>5. T3 \in [TaskIds -> TaskRow]
      BY <3>4, RowEdits
    <3>6. QED BY <3>1, <3>5
  <2>3. QED BY <1>2, <2>1, <2>2
            DEF Grant, AppendTaskEvent, TypeOK, LeaseRow, Statuses, procVars
<1>3. ASSUME NEW w \in Workers, NEW t \in TaskIds, NEW term \in LeaseTerms,
             HeartbeatRead(p, w, t, term)
      PROVE  TypeOK'
  <2>1. term \in Nat
    BY QueueAssumption DEF QueueAssumption
  <2>2. QED BY <1>3, <2>1 DEF HeartbeatRead, TypeOK, Beat, tables
<1>4. ASSUME HeartbeatWrite(p)
      PROVE  TypeOK'
  <2>1. beat[p] \in Beat
    BY <1>4 DEF HeartbeatWrite, TypeOK
  <2>2. beat[p].task \in TaskIds /\ beat[p].left \in Nat
    BY <2>1 DEF Beat
  <2>3. leases' \in [TaskIds -> LeaseRow \cup {NoLease}]
    BY <1>4, <2>2 DEF HeartbeatWrite, TypeOK, LeaseRow
  <2>4. QED BY <1>4, <2>2, <2>3 DEF HeartbeatWrite, AppendTaskEvent, TypeOK, Statuses
<1>5. ASSUME NEW w \in Workers, NEW t \in TaskIds, NEW outcome \in {"completed", "failed"},
             Finish(p, w, t, outcome)
      PROVE  /\ tasks' \in [TaskIds -> TaskRow]
             /\ leases' \in [TaskIds -> LeaseRow \cup {NoLease}]
             /\ timeline' \in [TaskIds -> Statuses]
             /\ createdAfter' \in [TaskIds -> SUBSET TaskIds]
             /\ UNCHANGED procVars
  <2>1. tasks' \in [TaskIds -> TaskRow]
    <3> DEFINE T1 == [tasks EXCEPT ![t].status = outcome]
    <3> DEFINE T2 == [T1 EXCEPT ![t].last_worker_id = w]
    <3>1. tasks' = T2
      BY <1>5 DEF Finish
    <3>2. T1 \in [TaskIds -> TaskRow]
      BY RowEdits DEF TypeOK, Statuses
    <3> HIDE DEF T1
    <3>3. T2 \in [TaskIds -> TaskRow]
      BY <3>2, RowEdits
    <3>4. QED BY <3>1, <3>3
  <2>2. QED BY <1>5, <2>1 DEF Finish, AppendTaskEvent, TypeOK, Statuses, procVars
<1>6. ASSUME NEW t \in TaskIds, NEW delay \in Delays, NEW force \in BOOLEAN,
             RetryTask(p, t, delay, force)
      PROVE  TypeOK'
  BY <1>6, RequeueTypeOK DEF RetryTask, TypeOK, procVars
<1>7. ASSUME NEW w \in Workers, NEW t \in TaskIds, CompleteTask(p, w, t)
      PROVE  TypeOK'
  BY <1>5, <1>7 DEF CompleteTask, TypeOK, procVars
<1>8. ASSUME NEW w \in Workers, NEW t \in TaskIds, FailTask(p, w, t)
      PROVE  TypeOK'
  <2>1. failedAfter' \in [TaskIds -> SUBSET TaskIds]
    BY <1>8 DEF FailTask, TypeOK, WithStatus
  <2>2. QED BY <1>5, <1>8, <2>1 DEF FailTask, TypeOK, procVars
<1>9. QED BY <1>1, <1>2, <1>3, <1>4, <1>6, <1>7, <1>8 DEF ServeCall, ClaimTask, ClaimNext

LEMMA AutoRetryTypeOK ==
    ASSUME TypeOK, NEW p \in Procs, AutoRetry(p)
    PROVE  TypeOK'
<1>1. CASE AutoRetryList(p)
  <2>1. PICK order \in [1..BatchSize -> Eligible] :
            batch' = [batch EXCEPT ![p] =
                [i \in 1..BatchSize |->
                    [task |-> order[i], attempts |-> tasks[order[i]].attempt_count]]]
    BY <1>1 DEF AutoRetryList
  <2>2. \A i \in 1..BatchSize : order[i] \in TaskIds
    BY <2>1 DEF Eligible, WithStatus
  <2>3. \A i \in 1..BatchSize : tasks[order[i]].attempt_count \in Nat
    BY <2>2 DEF TypeOK, TaskRow
  <2>4. [i \in 1..BatchSize |->
            [task |-> order[i], attempts |-> tasks[order[i]].attempt_count]] \in Seq(Listed)
    BY <2>2, <2>3, BatchSizeType DEF Listed
  <2>5. QED BY <1>1, <2>1, <2>4 DEF AutoRetryList, TypeOK, tables
<1>2. CASE AutoRetryStep(p)
  <2>1. /\ batch[p] \in Seq(Listed)
        /\ batch[p] # <<>>
    BY <1>2 DEF AutoRetryStep, TypeOK, tables
  <2>2. Head(batch[p]) \in Listed /\ Tail(batch[p]) \in Seq(Listed)
    BY <2>1
  <2>3. Head(batch[p]).task \in TaskIds
    BY <2>2 DEF Listed
  <2>4. /\ tasks' \in [TaskIds -> TaskRow]
        /\ leases' \in [TaskIds -> LeaseRow \cup {NoLease}]
        /\ timeline' \in [TaskIds -> Statuses]
        /\ createdAfter' \in [TaskIds -> SUBSET TaskIds]
        /\ failedAfter' \in [TaskIds -> SUBSET TaskIds]
    BY <1>2, <2>3, RequeueTypeOK DEF AutoRetryStep, TypeOK, tables
  <2>5. QED BY <1>2, <2>2, <2>4 DEF AutoRetryStep, TypeOK, tables
<1>3. QED BY <1>1, <1>2 DEF AutoRetry

LEMMA TickTypeOK == TypeOK /\ Tick => TypeOK'
<1> SUFFICES ASSUME TypeOK, Tick PROVE TypeOK'
  OBVIOUS
<1>1. \A n \in Nat : Less1(n) \in Nat
  BY DEF Less1
<1>2. tasks' \in [TaskIds -> TaskRow]
  BY <1>1 DEF Tick, TypeOK, TaskRow
<1>3. leases' \in [TaskIds -> LeaseRow \cup {NoLease}]
  BY <1>1 DEF Tick, TypeOK, LeaseRow
<1>4. beat' \in [Procs -> Beat \cup {NoBeat}]
  BY <1>1 DEF Tick, TypeOK, Beat
<1>5. QED BY <1>2, <1>3, <1>4 DEF Tick, TypeOK

LEMMA CrashTypeOK ==
    ASSUME TypeOK, NEW p \in Procs, Crash(p)
    PROVE  TypeOK'
BY DEF Crash, TypeOK, tables

LEMMA TypePreserved == TypeOK /\ [Next]_vars => TypeOK'
<1> SUFFICES ASSUME TypeOK, [Next]_vars PROVE TypeOK'
  OBVIOUS
<1>1. CASE UNCHANGED vars
  BY <1>1 DEF vars, tables, procVars, TypeOK
<1>2. QED BY <1>1, ServeCallTypeOK, AutoRetryTypeOK, TickTypeOK, CrashTypeOK DEF Next

\* Every reachable state of the queue is well typed.
THEOREM TypeCorrect == Spec => []TypeOK
BY InitTypeOK, TypePreserved, PTL DEF Spec

-----------------------------------------------------------------------------
(* The inductive invariant: types, leases and budgets.  Each conjunct needs  *)
(* the types only, so the step lemmas show them task by task.                *)

QueueInv == TypeOK /\ LeaseIffRunning /\ AttemptsWithinBudget

\* What each kind of step leaves in the rows of the task it touches.

LEMMA GrantEffect ==
    ASSUME TypeOK, NEW p \in Procs, NEW w \in Workers, NEW t \in TaskIds, NEW term \in LeaseTerms,
           Grant(p, w, t, term)
    PROVE  /\ tasks'[t].status = "running"
           /\ tasks'[t].attempt_count = tasks[t].attempt_count + 1
           /\ tasks'[t].last_worker_id = w
           /\ tasks'[t].max_attempts = tasks[t].max_attempts
           /\ tasks'[t].forced = tasks[t].forced
           /\ leases'[t] = [owner |-> w, left |-> term]
           /\ \A u \in TaskIds \ {t} : tasks'[u] = tasks[u] /\ leases'[u] = leases[u]
BY DEF Grant, TypeOK, TaskRow

LEMMA FinishEffect ==
    ASSUME TypeOK, NEW p \in Procs, NEW w \in Workers, NEW t \in TaskIds,
           NEW outcome \in {"completed", "failed"}, Finish(p, w, t, outcome)
    PROVE  /\ tasks'[t].status = outcome
           /\ tasks'[t].attempt_count = tasks[t].attempt_count
           /\ tasks'[t].last_worker_id = w
           /\ tasks'[t].max_attempts = tasks[t].max_attempts
           /\ tasks'[t].forced = tasks[t].forced
           /\ leases'[t] = NoLease
           /\ \A u \in TaskIds \ {t} : tasks'[u] = tasks[u] /\ leases'[u] = leases[u]
BY DEF Finish, TypeOK, TaskRow

LEMMA RequeueEffect ==
    ASSUME TypeOK, NEW t \in TaskIds, NEW delay, NEW force \in BOOLEAN, Requeue(t, delay, force)
    PROVE  /\ tasks'[t].status = "pending"
           /\ tasks'[t].attempt_count = tasks[t].attempt_count
           /\ tasks'[t].last_worker_id = tasks[t].last_worker_id
           /\ tasks'[t].max_attempts = tasks[t].max_attempts
           /\ tasks'[t].forced \in {tasks[t].forced, tasks[t].forced + 1}
           /\ force => tasks'[t].forced = tasks[t].forced + 1
           /\ leases'[t] = NoLease
           /\ \A u \in TaskIds \ {t} : tasks'[u] = tasks[u] /\ leases'[u] = leases[u]
BY DEF Requeue, TypeOK, TaskRow

LEMMA CreateEffect ==
    ASSUME TypeOK, NEW p \in Procs, NEW t \in TaskIds, NEW priority \in Priorities,
           NEW limit \in AttemptLimits, NEW delay \in Delays,
           CreateTask(p, t, priority, limit, delay)
    PROVE  /\ tasks[t].status = "absent"
           /\ tasks'[t].status = "pending"
           /\ tasks'[t].attempt_count = 0
           /\ tasks'[t].max_attempts = limit
           /\ tasks'[t].forced = 0
           /\ tasks'[t].last_worker_id = NoWorker
           /\ leases' = leases
           /\ \A u \in TaskIds \ {t} : tasks'[u] = tasks[u]
BY DEF CreateTask, TypeOK, TaskRow, NoTask

LEMMA HeartbeatEffect ==
    ASSUME TypeOK, NEW p \in Procs, HeartbeatWrite(p)
    PROVE  /\ tasks' = tasks
           /\ \A u \in TaskIds : /\ leases'[u] = NoLease <=> leases[u] = NoLease
                                 /\ leases[u] # NoLease => leases'[u].owner = leases[u].owner
<1>1. beat[p].task \in TaskIds /\ beat[p].left \in Nat
  BY DEF HeartbeatWrite, TypeOK, Beat
<1>2. \A u \in TaskIds : leases[u] # NoLease =>
          [owner |-> leases[u].owner, left |-> beat[p].left] \in LeaseRow
  BY <1>1 DEF TypeOK, LeaseRow
<1>3. NoLease \notin LeaseRow
  BY QueueAssumption DEF QueueAssumption, LeaseRow
<1>4. QED BY <1>1, <1>2, <1>3 DEF HeartbeatWrite, TypeOK

LEMMA TickEffect ==
    ASSUME TypeOK, Tick, NEW u \in TaskIds
    PROVE  /\ tasks'[u].status = tasks[u].status
           /\ tasks'[u].attempt_count = tasks[u].attempt_count
           /\ tasks'[u].last_worker_id = tasks[u].last_worker_id
           /\ tasks'[u].max_attempts = tasks[u].max_attempts
           /\ tasks'[u].forced = tasks[u].forced
           /\ leases'[u] = NoLease <=> leases[u] = NoLease
           /\ leases[u] # NoLease => leases'[u].owner = leases[u].owner
<1>1. tasks'[u] = [tasks[u] EXCEPT !.wait = Less1(@)]
  BY DEF Tick
<1>2. tasks[u] \in TaskRow
  BY DEF TypeOK
<1>3. leases[u] # NoLease => /\ leases'[u] = [leases[u] EXCEPT !.left = Less1(@)]
                             /\ leases[u] \in LeaseRow
  BY DEF Tick, TypeOK
<1>4. leases[u] # NoLease => leases'[u] \in LeaseRow /\ leases'[u].owner = leases[u].owner
  BY <1>3 DEF LeaseRow, Less1
<1>5. leases[u] = NoLease => leases'[u] = NoLease
  BY DEF Tick
<1>6. NoLease \notin LeaseRow
  BY QueueAssumption DEF QueueAssumption, LeaseRow
<1>7. QED BY <1>1, <1>2, <1>4, <1>5, <1>6 DEF TaskRow

LEMMA InitQueueInv == Init => QueueInv
<1> SUFFICES ASSUME Init PROVE QueueInv
  OBVIOUS
<1>1. LeaseIffRunning /\ AttemptsWithinBudget
  BY DEF Init, LeaseIffRunning, AttemptsWithinBudget, NoTask
<1>2. QED BY <1>1, InitTypeOK DEF QueueInv

LEMMA StepQueueInv == QueueInv /\ [Next]_vars => QueueInv'
<1> SUFFICES ASSUME QueueInv, [Next]_vars, TypeOK'
             PROVE  LeaseIffRunning' /\ AttemptsWithinBudget'
  <2>1. TypeOK /\ [Next]_vars => TypeOK'
    BY TypePreserved
  <2>2. QED BY <2>1 DEF QueueInv
<1> USE DEF QueueInv
<1>1. NoLease \notin LeaseRow
  BY QueueAssumption DEF QueueAssumption, LeaseRow
<1>2. \A t \in TaskIds : tasks[t] \in TaskRow /\ tasks'[t] \in TaskRow
  BY DEF TypeOK
<1>3. ASSUME NEW p \in Procs, NEW t \in TaskIds, NEW priority \in Priorities,
             NEW limit \in AttemptLimits, NEW delay \in Delays,
             CreateTask(p, t, priority, limit, delay)
      PROVE  LeaseIffRunning' /\ AttemptsWithinBudget'
  <2>1. limit \in Nat \ {0}
    BY QueueAssumption DEF QueueAssumption
  <2>2. LeaseIffRunning'
    BY <1>3, CreateEffect DEF LeaseIffRunning
  <2>3. AttemptsWithinBudget'
    BY <1>2, <1>3, <2>1, CreateEffect DEF AttemptsWithinBudget
  <2>4. QED BY <2>2, <2>3
<1>4. ASSUME NEW p \in Procs, NEW w \in Workers, NEW t \in TaskIds, NEW term \in LeaseTerms,
             Grant(p, w, t, term)
      PROVE  LeaseIffRunning' /\ AttemptsWithinBudget'
  <2>1. [owner |-> w, left |-> term] \in LeaseRow
    BY QueueAssumption DEF QueueAssumption, LeaseRow
  <2>2. LeaseIffRunning'
    BY <1>1, <1>4, <2>1, GrantEffect DEF LeaseIffRunning
  <2>3. tasks[t].status = "pending"
    BY <1>4 DEF Grant, Claimable
  <2>4. AttemptsWithinBudget'
    <3>1. ASSUME NEW u \in TaskIds
          PROVE  LET budget == tasks'[u].max_attempts + tasks'[u].forced IN
                 /\ tasks'[u].attempt_count <= budget
                 /\ tasks'[u].status = "pending" => tasks'[u].attempt_count < budget
      <4>1. tasks[u].attempt_count \in Nat /\ tasks[u].max_attempts \in Nat /\ tasks[u].forced \in Nat
        BY <1>2 DEF TaskRow
      <4>2. CASE u = t
        <5>1. tasks[t].attempt_count < tasks[t].max_attempts + tasks[t].forced
          BY <2>3 DEF AttemptsWithinBudget
        <5>2. /\ tasks'[t].status = "running"
              /\ tasks'[t].attempt_count = tasks[t].attempt_count + 1
              /\ tasks'[t].max_attempts = tasks[t].max_attempts
              /\ tasks'[t].forced = tasks[t].forced
          BY <1>2, <1>4 DEF Grant, TypeOK, TaskRow
        <5>3. QED BY <4>1, <4>2, <5>1, <5>2
      <4>3. CASE u # t
        BY <1>4, <4>3, GrantEffect DEF AttemptsWithinBudget
      <4>4. QED BY <4>2, <4>3
    <3>2. QED BY <3>1 DEF AttemptsWithinBudget
  <2>5. QED BY <2>2, <2>4
<1>5. ASSUME NEW p \in Procs, NEW w \in Workers, NEW t \in TaskIds,
             NEW outcome \in {"completed", "failed"}, Finish(p, w, t, outcome)
      PROVE  LeaseIffRunning' /\ AttemptsWithinBudget'
  <2>1. LeaseIffRunning'
    BY <1>5, FinishEffect DEF LeaseIffRunning
  <2>2. AttemptsWithinBudget'
    BY <1>2, <1>5, FinishEffect DEF AttemptsWithinBudget
  <2>3. QED BY <2>1, <2>2
<1>6. ASSUME NEW t \in TaskIds, NEW delay, NEW force \in BOOLEAN,
             Retryable(t, force), Requeue(t, delay, force)
      PROVE  LeaseIffRunning' /\ AttemptsWithinBudget'
  <2>1. LeaseIffRunning'
    BY <1>6, RequeueEffect DEF LeaseIffRunning
  <2>2. AttemptsWithinBudget'
    <3>1. /\ tasks[t].attempt_count \in Nat
          /\ tasks[t].max_attempts \in Nat
          /\ tasks[t].forced \in Nat
      BY <1>2 DEF TaskRow
    <3>2. tasks[t].attempt_count <= tasks[t].max_attempts + tasks[t].forced
      BY DEF AttemptsWithinBudget
    <3>3. force \/ tasks[t].attempt_count < tasks[t].max_attempts
      BY <1>6 DEF Retryable
    <3>4. /\ tasks'[t].forced \in {tasks[t].forced, tasks[t].forced + 1}
          /\ force => tasks'[t].forced = tasks[t].forced + 1
          /\ tasks'[t].attempt_count = tasks[t].attempt_count
          /\ tasks'[t].max_attempts = tasks[t].max_attempts
      BY <1>6, RequeueEffect
    <3>5. tasks'[t].attempt_count < tasks'[t].max_attempts + tasks'[t].forced
      BY <3>1, <3>2, <3>3, <3>4
    <3>6. \A u \in TaskIds \ {t} : tasks'[u] = tasks[u]
      BY <1>6, RequeueEffect
    <3>7. ASSUME NEW u \in TaskIds
          PROVE  LET budget == tasks'[u].max_attempts + tasks'[u].forced IN
                 /\ tasks'[u].attempt_count <= budget
                 /\ tasks'[u].status = "pending" => tasks'[u].attempt_count < budget
      <4>1. CASE u = t
        BY <3>1, <3>4, <3>5, <4>1
      <4>2. CASE u # t
        BY <3>6, <4>2 DEF AttemptsWithinBudget
      <4>3. QED BY <4>1, <4>2
    <3>8. QED BY <3>7 DEF AttemptsWithinBudget
  <2>3. QED BY <2>1, <2>2
<1>7. ASSUME NEW p \in Procs, HeartbeatWrite(p)
      PROVE  LeaseIffRunning' /\ AttemptsWithinBudget'
  BY <1>7, HeartbeatEffect DEF LeaseIffRunning, AttemptsWithinBudget
<1>8. ASSUME Tick
      PROVE  LeaseIffRunning' /\ AttemptsWithinBudget'
  <2>1. LeaseIffRunning'
    BY <1>8, TickEffect DEF LeaseIffRunning
  <2>2. AttemptsWithinBudget'
    BY <1>8, TickEffect DEF AttemptsWithinBudget
  <2>3. QED BY <2>1, <2>2
<1>9. ASSUME UNCHANGED tables
      PROVE  LeaseIffRunning' /\ AttemptsWithinBudget'
  BY <1>9 DEF tables, LeaseIffRunning, AttemptsWithinBudget
<1>10. ASSUME NEW p \in Procs, AutoRetryStep(p)
       PROVE  LeaseIffRunning' /\ AttemptsWithinBudget'
  <2>1. Head(batch[p]) \in Listed
    BY <1>10 DEF AutoRetryStep, TypeOK
  <2>2. Head(batch[p]).task \in TaskIds
    BY <2>1 DEF Listed
  <2>3. QED BY <1>6, <1>9, <1>10, <2>2 DEF AutoRetryStep
<1>11. ASSUME NEW p \in Procs, ServeCall(p)
       PROVE  LeaseIffRunning' /\ AttemptsWithinBudget'
  BY <1>3, <1>4, <1>5, <1>6, <1>7, <1>9, <1>11
     DEF ServeCall, ClaimTask, ClaimNext, CompleteTask, FailTask, RetryTask, HeartbeatRead
<1>12. QED
  BY <1>8, <1>9, <1>10, <1>11
     DEF Next, AutoRetry, AutoRetryList, Crash, vars

\* In every reachable state a task runs exactly while its claimant holds the lease.
THEOREM LeaseSafety == Spec => []LeaseIffRunning
<1>1. QueueInv => LeaseIffRunning
  BY DEF QueueInv
<1>2. QED BY InitQueueInv, StepQueueInv, <1>1, PTL DEF Spec

\* Attempts never exceed what the client allowed and forced, although the auto-retry
\* tick works from a list that other processes outdate.
THEOREM AttemptBudget == Spec => []AttemptsWithinBudget
<1>1. QueueInv => AttemptsWithinBudget
  BY DEF QueueInv
<1>2. QED BY InitQueueInv, StepQueueInv, <1>1, PTL DEF Spec

-----------------------------------------------------------------------------
(* The queue implements the board.  An operation on t maps to the board's    *)
(* step on t; timers, heartbeats and the tick's bookkeeping are stutters.    *)

Phase == [t \in TaskIds |-> tasks[t].status]
Holder == [t \in TaskIds |-> IF leases[t] = NoLease THEN NoWorker ELSE leases[t].owner]
Attempt == [t \in TaskIds |-> tasks[t].attempt_count]
SignedBy == [t \in TaskIds |-> tasks[t].last_worker_id]

\* Steps that change no column the board shows are stutters of the board.
LEMMA BoardStutter ==
    ASSUME \A u \in TaskIds :
               /\ tasks'[u].status = tasks[u].status
               /\ tasks'[u].attempt_count = tasks[u].attempt_count
               /\ tasks'[u].last_worker_id = tasks[u].last_worker_id
               /\ leases'[u] = NoLease <=> leases[u] = NoLease
               /\ leases[u] # NoLease => leases'[u].owner = leases[u].owner
    PROVE  UNCHANGED Board!boardVars
<1>1. Phase' = Phase /\ Attempt' = Attempt /\ SignedBy' = SignedBy
  BY DEF Phase, Attempt, SignedBy
<1>2. Holder' = Holder
  BY DEF Holder
<1>3. QED BY <1>1, <1>2 DEF Board!boardVars, Phase, Attempt, SignedBy, Holder

LEMMA GrantTakes ==
    ASSUME TypeOK, LeaseIffRunning, NEW p \in Procs, NEW w \in Workers, NEW t \in TaskIds,
           NEW term \in LeaseTerms, Grant(p, w, t, term)
    PROVE  Board!Take(t, w)
<1>0. /\ tasks'[t].status = "running"
      /\ tasks'[t].attempt_count = tasks[t].attempt_count + 1
      /\ tasks'[t].last_worker_id = w
      /\ leases'[t] = [owner |-> w, left |-> term]
      /\ \A u \in TaskIds \ {t} : tasks'[u] = tasks[u] /\ leases'[u] = leases[u]
  BY GrantEffect
<1>1. tasks[t].status = "pending" /\ leases[t] = NoLease
  BY DEF Grant, Claimable, LeaseIffRunning
<1>2. leases'[t] # NoLease /\ leases'[t].owner = w
  <2>1. [owner |-> w, left |-> term] # NoLease
    BY QueueAssumption DEF QueueAssumption, LeaseRow
  <2>2. QED BY <1>0, <2>1
<1>3. Phase' = [Phase EXCEPT ![t] = "running"]
  BY <1>0 DEF Phase
<1>4. Holder' = [Holder EXCEPT ![t] = w]
  BY <1>0, <1>2 DEF Holder
<1>5. Attempt' = [Attempt EXCEPT ![t] = Attempt[t] + 1]
  BY <1>0 DEF Attempt
<1>6. SignedBy' = [SignedBy EXCEPT ![t] = w]
  BY <1>0 DEF SignedBy
<1>7. QED BY <1>1, <1>3, <1>4, <1>5, <1>6 DEF Board!Take, Phase, Holder, Attempt, SignedBy

LEMMA FinishLeaves ==
    ASSUME TypeOK, NEW p \in Procs, NEW w \in Workers, NEW t \in TaskIds,
           NEW outcome \in {"completed", "failed"}, Finish(p, w, t, outcome)
    PROVE  Board!Leave(t, outcome)
<1>0. /\ tasks'[t].status = outcome
      /\ tasks'[t].attempt_count = tasks[t].attempt_count
      /\ tasks'[t].last_worker_id = w
      /\ leases'[t] = NoLease
      /\ \A u \in TaskIds \ {t} : tasks'[u] = tasks[u] /\ leases'[u] = leases[u]
  BY FinishEffect
<1>1. tasks[t].status = "running" /\ leases[t] # NoLease /\ leases[t].owner = w
  BY DEF Finish
<1>2. w # NoWorker
  BY QueueAssumption DEF QueueAssumption
<1>3. Phase' = [Phase EXCEPT ![t] = outcome]
  BY <1>0 DEF Phase
<1>4. Holder' = [Holder EXCEPT ![t] = NoWorker]
  BY <1>0 DEF Holder
<1>5. Attempt' = Attempt
  BY <1>0 DEF Attempt
<1>6. SignedBy' = [SignedBy EXCEPT ![t] = w]
  BY <1>0 DEF SignedBy
<1>7. QED BY <1>1, <1>2, <1>3, <1>4, <1>5, <1>6
          DEF Board!Leave, Phase, Holder, Attempt, SignedBy

\* retryTask asks for "failed" or "cancelled"; a queue that never cancels requeues
\* failed tasks only.
LEMMA RetryRequeues ==
    ASSUME TypeOK, LeaseIffRunning, NEW t \in TaskIds, NEW delay, NEW force \in BOOLEAN,
           tasks[t].status = "failed", Requeue(t, delay, force)
    PROVE  Board!Requeue(t)
<1>0. /\ tasks'[t].status = "pending"
      /\ tasks'[t].attempt_count = tasks[t].attempt_count
      /\ tasks'[t].last_worker_id = tasks[t].last_worker_id
      /\ leases'[t] = NoLease
      /\ \A u \in TaskIds \ {t} : tasks'[u] = tasks[u] /\ leases'[u] = leases[u]
  BY RequeueEffect
<1>1. leases[t] = NoLease
  BY DEF LeaseIffRunning
<1>2. Phase' = [Phase EXCEPT ![t] = "pending"]
  BY <1>0 DEF Phase
<1>3. Holder' = Holder
  BY <1>0, <1>1 DEF Holder
<1>4. Attempt' = Attempt /\ SignedBy' = SignedBy
  BY <1>0 DEF Attempt, SignedBy
<1>5. QED BY <1>2, <1>3, <1>4 DEF Board!Requeue, Phase, Holder, Attempt, SignedBy

\* An absent task has no attempts and no signature.
AbsentIsBlank ==
    \A t \in TaskIds : tasks[t].status = "absent" =>
        tasks[t].attempt_count = 0 /\ tasks[t].last_worker_id = NoWorker

NeverCancelled == \A t \in TaskIds : tasks[t].status # "cancelled"

LEMMA CreatePosts ==
    ASSUME TypeOK, AbsentIsBlank, NEW p \in Procs, NEW t \in TaskIds, NEW priority \in Priorities,
           NEW limit \in AttemptLimits, NEW delay \in Delays,
           CreateTask(p, t, priority, limit, delay)
    PROVE  Board!Post(t)
<1>0. /\ tasks[t].status = "absent"
      /\ tasks'[t].status = "pending"
      /\ tasks'[t].attempt_count = 0
      /\ tasks'[t].last_worker_id = NoWorker
      /\ leases' = leases
      /\ \A u \in TaskIds \ {t} : tasks'[u] = tasks[u]
  BY CreateEffect
<1>1. Phase' = [Phase EXCEPT ![t] = "pending"]
  BY <1>0 DEF Phase
<1>2. Holder' = Holder
  BY <1>0 DEF Holder
<1>3. Attempt' = Attempt /\ SignedBy' = SignedBy
  BY <1>0 DEF Attempt, SignedBy, AbsentIsBlank
<1>4. QED BY <1>0, <1>1, <1>2, <1>3 DEF Board!Post, Phase, Holder, Attempt, SignedBy

RefInv == QueueInv /\ AbsentIsBlank /\ NeverCancelled

LEMMA StepRefInv == RefInv /\ [Next]_vars => RefInv'
<1> SUFFICES ASSUME RefInv, [Next]_vars
             PROVE  AbsentIsBlank' /\ NeverCancelled'
  BY StepQueueInv DEF RefInv
<1> USE DEF RefInv, QueueInv
<1>1. ASSUME NEW t \in TaskIds,
             tasks'[t].status \notin {"absent", "cancelled"},
             \A u \in TaskIds \ {t} : tasks'[u] = tasks[u]
      PROVE  AbsentIsBlank' /\ NeverCancelled'
  BY <1>1 DEF AbsentIsBlank, NeverCancelled
<1>2. ASSUME NEW p \in Procs, NEW t \in TaskIds, NEW priority \in Priorities,
             NEW limit \in AttemptLimits, NEW delay \in Delays,
             CreateTask(p, t, priority, limit, delay)
      PROVE  AbsentIsBlank' /\ NeverCancelled'
  BY <1>1, <1>2, CreateEffect
<1>3. ASSUME NEW p \in Procs, NEW w \in Workers, NEW t \in TaskIds, NEW term \in LeaseTerms,
             Grant(p, w, t, term)
      PROVE  AbsentIsBlank' /\ NeverCancelled'
  <2>1. /\ tasks'[t].status = "running"
        /\ \A u \in TaskIds \ {t} : tasks'[u] = tasks[u]
    BY <1>3 DEF Grant, TypeOK, TaskRow
  <2>2. QED BY <1>1, <2>1
<1>4. ASSUME NEW p \in Procs, NEW w \in Workers, NEW t \in TaskIds,
             NEW outcome \in {"completed", "failed"}, Finish(p, w, t, outcome)
      PROVE  AbsentIsBlank' /\ NeverCancelled'
  BY <1>1, <1>4, FinishEffect
<1>5. ASSUME NEW t \in TaskIds, NEW delay, NEW force \in BOOLEAN, Requeue(t, delay, force)
      PROVE  AbsentIsBlank' /\ NeverCancelled'
  <2>1. /\ tasks'[t].status = "pending"
        /\ \A u \in TaskIds \ {t} : tasks'[u] = tasks[u]
    BY <1>5, RequeueEffect
  <2>2. QED BY <1>1, <2>1
<1>6. ASSUME UNCHANGED tasks
      PROVE  AbsentIsBlank' /\ NeverCancelled'
  BY <1>6 DEF AbsentIsBlank, NeverCancelled
<1>7. CASE Tick
  BY <1>7, TickEffect DEF AbsentIsBlank, NeverCancelled
<1>8. ASSUME NEW p \in Procs, AutoRetry(p)
      PROVE  AbsentIsBlank' /\ NeverCancelled'
  <2>1. CASE AutoRetryList(p)
    BY <1>6, <2>1 DEF AutoRetryList, tables
  <2>2. CASE AutoRetryStep(p)
    <3>1. Head(batch[p]) \in Listed
      BY <2>2 DEF AutoRetryStep, TypeOK
    <3>2. Head(batch[p]).task \in TaskIds
      BY <3>1 DEF Listed
    <3>3. QED BY <1>5, <1>6, <2>2, <3>2 DEF AutoRetryStep, tables
  <2>3. QED BY <1>8, <2>1, <2>2 DEF AutoRetry
<1>9. ASSUME NEW p \in Procs, ServeCall(p)
      PROVE  AbsentIsBlank' /\ NeverCancelled'
  BY <1>2, <1>3, <1>4, <1>5, <1>6, <1>9
     DEF ServeCall, ClaimTask, ClaimNext, CompleteTask, FailTask, RetryTask,
         HeartbeatRead, HeartbeatWrite, tables
<1>10. QED BY <1>6, <1>7, <1>8, <1>9 DEF Next, Crash, vars, tables

LEMMA StepImplementsBoard ==
    RefInv /\ [Next]_vars => [Board!BoardNext]_(Board!boardVars)
<1> SUFFICES ASSUME RefInv, [Next]_vars
             PROVE  Board!BoardNext \/ UNCHANGED Board!boardVars
  OBVIOUS
<1> USE DEF RefInv, QueueInv
<1>1. ASSUME NEW p \in Procs, NEW t \in TaskIds, NEW priority \in Priorities,
             NEW limit \in AttemptLimits, NEW delay \in Delays,
             CreateTask(p, t, priority, limit, delay)
      PROVE  Board!BoardNext
  BY <1>1, CreatePosts DEF Board!BoardNext
<1>2. ASSUME NEW p \in Procs, NEW w \in Workers, NEW t \in TaskIds, NEW term \in LeaseTerms,
             Grant(p, w, t, term)
      PROVE  Board!BoardNext
  BY <1>2, GrantTakes DEF Board!BoardNext
<1>3. ASSUME NEW p \in Procs, NEW w \in Workers, NEW t \in TaskIds,
             NEW outcome \in {"completed", "failed"}, Finish(p, w, t, outcome)
      PROVE  Board!BoardNext
  BY <1>3, FinishLeaves DEF Board!BoardNext
<1>4. ASSUME NEW t \in TaskIds, NEW delay, NEW force \in BOOLEAN,
             Retryable(t, force), Requeue(t, delay, force)
      PROVE  Board!BoardNext
  <2>1. tasks[t].status = "failed"
    BY <1>4 DEF Retryable, NeverCancelled
  <2>2. Board!Requeue(t)
    BY <1>4, <2>1, RetryRequeues
  <2>3. QED BY <2>2 DEF Board!BoardNext
<1>5. ASSUME UNCHANGED tables
      PROVE  UNCHANGED Board!boardVars
  BY <1>5, BoardStutter DEF tables
<1>6. ASSUME NEW p \in Procs, HeartbeatWrite(p)
      PROVE  UNCHANGED Board!boardVars
  BY <1>6, HeartbeatEffect, BoardStutter
<1>7. ASSUME Tick
      PROVE  UNCHANGED Board!boardVars
  BY <1>7, TickEffect, BoardStutter
<1>8. ASSUME NEW p \in Procs, AutoRetry(p)
      PROVE  Board!BoardNext \/ UNCHANGED Board!boardVars
  <2>1. CASE AutoRetryList(p)
    BY <1>5, <2>1 DEF AutoRetryList
  <2>2. CASE AutoRetryStep(p)
    <3>1. Head(batch[p]) \in Listed
      BY <2>2 DEF AutoRetryStep, TypeOK
    <3>2. Head(batch[p]).task \in TaskIds
      BY <3>1 DEF Listed
    <3>3. QED BY <1>4, <1>5, <2>2, <3>2 DEF AutoRetryStep
  <2>3. QED BY <1>8, <2>1, <2>2 DEF AutoRetry
<1>9. ASSUME NEW p \in Procs, ServeCall(p)
      PROVE  Board!BoardNext \/ UNCHANGED Board!boardVars
  BY <1>1, <1>2, <1>3, <1>4, <1>5, <1>6, <1>9
     DEF ServeCall, ClaimTask, ClaimNext, CompleteTask, FailTask, RetryTask, HeartbeatRead
<1>10. QED BY <1>5, <1>7, <1>8, <1>9 DEF Next, Crash, vars

\* The queue implements the board: at most one holder, left by its holder alone, a
\* new attempt per grant, completed for good, for any number of processes.
THEOREM QueueImplementsBoard == Spec => ImplementsBoard
<1>1. Init => RefInv
  <2>1. Init => AbsentIsBlank /\ NeverCancelled
    BY DEF Init, AbsentIsBlank, NeverCancelled, NoTask
  <2>2. QED BY <2>1, InitQueueInv DEF RefInv
<1>2. Init => Board!BoardInit
  BY DEF Init, Board!BoardInit, NoTask
<1>3. QED
  BY <1>1, <1>2, StepRefInv, StepImplementsBoard, PTL
     DEF Spec, ImplementsBoard, Board!BoardSpec

-----------------------------------------------------------------------------
(* One server process: no other call comes between the two statements of a   *)
(* heartbeat.                                                                 *)

\* What process p read in its heartbeat still holds, and it is in nothing else.
BeatStands(p) ==
    beat[p] # NoBeat =>
        /\ batch[p] = <<>>
        /\ leases[beat[p].task] # NoLease /\ leases[beat[p].task].owner = beat[p].worker

AloneInv(p) == QueueInv /\ TimelineAgrees /\ BeatStands(p)

\* An operation on t by an idle process leaves the other timelines alone.
LEMMA EventAgrees ==
    ASSUME TypeOK, TimelineAgrees, NEW t \in TaskIds, NEW to, AppendTaskEvent(t, to),
           tasks'[t].status = to, \A u \in TaskIds \ {t} : tasks'[u].status = tasks[u].status
    PROVE  TimelineAgrees'
BY DEF TypeOK, TimelineAgrees, AppendTaskEvent

\* A process that is idle after a step is in no heartbeat.
LEMMA IdleStands ==
    ASSUME NEW p \in Procs, beat[p] = NoBeat, UNCHANGED beat
    PROVE  BeatStands(p)'
BY DEF BeatStands

LEMMA HeartbeatWriteAlone ==
    ASSUME NEW p \in Procs, AloneInv(p), HeartbeatWrite(p)
    PROVE  TimelineAgrees' /\ BeatStands(p)'
<1>1. beat[p].task \in TaskIds
  BY DEF AloneInv, QueueInv, HeartbeatWrite, TypeOK, Beat
<1>2. tasks[beat[p].task].status = "running" /\ tasks' = tasks
  BY <1>1 DEF AloneInv, QueueInv, BeatStands, LeaseIffRunning, HeartbeatWrite
<1>3. TimelineAgrees'
  BY <1>1, <1>2, EventAgrees DEF AloneInv, QueueInv, HeartbeatWrite
<1>4. beat'[p] = NoBeat
  BY DEF AloneInv, QueueInv, TypeOK, HeartbeatWrite
<1>5. QED BY <1>3, <1>4 DEF BeatStands

LEMMA HeartbeatReadAlone ==
    ASSUME NEW p \in Procs, AloneInv(p), NEW w \in Workers, NEW t \in TaskIds, NEW term \in LeaseTerms,
           HeartbeatRead(p, w, t, term)
    PROVE  TimelineAgrees' /\ BeatStands(p)'
<1>1. beat'[p] = [task |-> t, worker |-> w, left |-> term] /\ batch'[p] = <<>> /\ UNCHANGED tables
  BY DEF AloneInv, QueueInv, TypeOK, HeartbeatRead, Idle
<1>2. leases[t] # NoLease /\ leases[t].owner = w
  BY DEF HeartbeatRead
<1>3. QED BY <1>1, <1>2 DEF BeatStands, TimelineAgrees, AloneInv, tables

LEMMA TickAlone ==
    ASSUME NEW p \in Procs, AloneInv(p), Tick
    PROVE  TimelineAgrees' /\ BeatStands(p)'
<1>1. TypeOK
  BY DEF AloneInv, QueueInv
<1>2. TimelineAgrees'
  BY <1>1, TickEffect DEF AloneInv, TimelineAgrees, Tick
<1>3. ASSUME beat[p] = NoBeat PROVE BeatStands(p)'
  <2>1. beat'[p] = NoBeat
    BY <1>3 DEF Tick
  <2>2. QED BY <2>1 DEF BeatStands
<1>4. ASSUME beat[p] # NoBeat PROVE BeatStands(p)'
  <2> DEFINE b == beat[p]
  <2>1. b \in Beat /\ beat'[p] = [b EXCEPT !.left = Less1(b.left)] /\ batch' = batch
    BY <1>1, <1>4 DEF Tick, TypeOK
  <2>2. beat'[p].task = b.task /\ beat'[p].worker = b.worker /\ b.task \in TaskIds
    BY <2>1 DEF Beat
  <2>3. leases'[b.task] # NoLease /\ leases'[b.task].owner = b.worker
    BY <1>1, <1>4, <2>2, TickEffect DEF AloneInv, BeatStands
  <2>4. QED BY <1>4, <2>1, <2>2, <2>3 DEF AloneInv, BeatStands
<1>5. QED BY <1>2, <1>3, <1>4

LEMMA CallAlone ==
    ASSUME NEW p \in Procs, AloneInv(p), ServeCall(p)
    PROVE  TimelineAgrees' /\ BeatStands(p)'
<1> USE DEF AloneInv, QueueInv
<1>1. ASSUME NEW t \in TaskIds, NEW priority \in Priorities, NEW limit \in AttemptLimits,
             NEW delay \in Delays, CreateTask(p, t, priority, limit, delay)
      PROVE  TimelineAgrees' /\ BeatStands(p)'
  <2>1. AppendTaskEvent(t, "pending") /\ UNCHANGED beat /\ beat[p] = NoBeat
    BY <1>1 DEF CreateTask, procVars, Idle
  <2>2. tasks'[t].status = "pending" /\ \A u \in TaskIds \ {t} : tasks'[u].status = tasks[u].status
    BY <1>1, CreateEffect
  <2>3. QED BY <2>1, <2>2, EventAgrees, IdleStands
<1>2. ASSUME NEW w \in Workers, NEW t \in TaskIds, NEW term \in LeaseTerms, Grant(p, w, t, term)
      PROVE  TimelineAgrees' /\ BeatStands(p)'
  <2>1. AppendTaskEvent(t, "running") /\ UNCHANGED beat /\ beat[p] = NoBeat
    BY <1>2 DEF Grant, procVars, Idle
  <2>2. tasks'[t].status = "running" /\ \A u \in TaskIds \ {t} : tasks'[u].status = tasks[u].status
    BY <1>1, <1>2 DEF Grant, TypeOK, TaskRow
  <2>3. QED BY <2>1, <2>2, EventAgrees, IdleStands
<1>3. ASSUME NEW w \in Workers, NEW t \in TaskIds, NEW outcome \in {"completed", "failed"},
             Finish(p, w, t, outcome)
      PROVE  TimelineAgrees' /\ BeatStands(p)'
  <2>1. AppendTaskEvent(t, outcome) /\ UNCHANGED beat /\ beat[p] = NoBeat
    BY <1>3 DEF Finish, procVars, Idle
  <2>2. tasks'[t].status = outcome /\ \A u \in TaskIds \ {t} : tasks'[u].status = tasks[u].status
    BY <1>3, FinishEffect
  <2>3. QED BY <2>1, <2>2, EventAgrees, IdleStands
<1>4. ASSUME NEW t \in TaskIds, NEW delay \in Delays, NEW force \in BOOLEAN, RetryTask(p, t, delay, force)
      PROVE  TimelineAgrees' /\ BeatStands(p)'
  <2>1. AppendTaskEvent(t, "pending") /\ UNCHANGED beat /\ beat[p] = NoBeat
    BY <1>4 DEF RetryTask, Requeue, procVars, Idle
  <2>2. tasks'[t].status = "pending" /\ \A u \in TaskIds \ {t} : tasks'[u].status = tasks[u].status
    BY <1>4, RequeueEffect DEF RetryTask
  <2>3. QED BY <2>1, <2>2, EventAgrees, IdleStands
<1>5. QED BY <1>1, <1>2, <1>3, <1>4, HeartbeatReadAlone, HeartbeatWriteAlone
          DEF ServeCall, ClaimTask, ClaimNext, CompleteTask, FailTask

LEMMA AutoRetryAlone ==
    ASSUME NEW p \in Procs, AloneInv(p), AutoRetry(p)
    PROVE  TimelineAgrees' /\ BeatStands(p)'
<1> USE DEF AloneInv, QueueInv
<1>1. CASE AutoRetryList(p)
  BY <1>1, IdleStands DEF AutoRetryList, Idle, tables, TimelineAgrees
<1>2. CASE AutoRetryStep(p)
  <2>1. Head(batch[p]) \in Listed
    BY <1>2 DEF AutoRetryStep, TypeOK
  <2>2. Head(batch[p]).task \in TaskIds
    BY <2>1 DEF Listed
  <2>3. ASSUME NEW t \in TaskIds, NEW delay, Requeue(t, delay, FALSE) PROVE TimelineAgrees'
    <3>1. AppendTaskEvent(t, "pending")
      BY <2>3 DEF Requeue
    <3>2. tasks'[t].status = "pending" /\ \A u \in TaskIds \ {t} : tasks'[u].status = tasks[u].status
      BY <2>3, RequeueEffect
    <3>3. QED BY <3>1, <3>2, EventAgrees
  <2>4. TimelineAgrees'
    BY <1>2, <2>2, <2>3 DEF AutoRetryStep, tables, TimelineAgrees
  <2>5. QED BY <1>2, <2>4, IdleStands DEF AutoRetryStep, BeatStands
<1>3. QED BY <1>1, <1>2 DEF AutoRetry

LEMMA StepAloneInv ==
    ASSUME NEW p \in Procs, Procs = {p}, AloneInv(p), [Next]_vars
    PROVE  AloneInv(p)'
<1>1. QueueInv'
  BY StepQueueInv DEF AloneInv
<1>2. CASE Crash(p)
  <2>1. beat'[p] = NoBeat /\ UNCHANGED tables
    BY <1>2 DEF Crash, AloneInv, QueueInv, TypeOK
  <2>2. QED BY <1>1, <2>1 DEF AloneInv, BeatStands, TimelineAgrees, tables
<1>3. CASE UNCHANGED vars
  BY <1>1, <1>3 DEF AloneInv, BeatStands, TimelineAgrees, vars, tables, procVars
<1>4. QED BY <1>1, <1>2, <1>3, TickAlone, CallAlone, AutoRetryAlone DEF Next, AloneInv

LEMMA AloneInvHolds ==
    ASSUME NEW self \in Procs, Procs = {self}
    PROVE  Spec => []AloneInv(self)
<1>1. Init => AloneInv(self)
  BY InitQueueInv DEF Init, AloneInv, TimelineAgrees, BeatStands, NoTask
<1>2. AloneInv(self) /\ [Next]_vars => AloneInv(self)'
  BY StepAloneInv
<1>3. QED BY <1>1, <1>2, PTL DEF Spec

\* With one server process the newest event of a task gives its status: the event a
\* heartbeat appends finds the task running.
THEOREM TimelineTellsStatus ==
    ASSUME NEW self \in Procs, Procs = {self}
    PROVE  Spec => []TimelineAgrees
<1>1. AloneInv(self) => TimelineAgrees
  BY DEF AloneInv
<1>2. QED BY <1>1, AloneInvHolds, PTL

\* With one server process a lease is extended only for the worker that holds it.
THEOREM ExtendedByOwnerAlone ==
    ASSUME NEW self \in Procs, Procs = {self}
    PROVE  Spec => LeaseExtendedByOwner
<1> DEFINE Extended(t) ==
        leases[t] # NoLease /\ leases'[t] # NoLease /\ leases'[t] # leases[t] =>
            \/ leases'[t].left < leases[t].left
            \/ \E p \in Procs : beat[p] # NoBeat /\ beat[p].task = t /\ beat[p].worker = leases[t].owner
<1>1. ASSUME AloneInv(self), [Next]_vars, NEW t \in TaskIds PROVE Extended(t)
  <2>1. TypeOK
    BY <1>1 DEF AloneInv, QueueInv
  <2>2. ASSUME NEW w \in Workers, NEW u \in TaskIds, NEW term \in LeaseTerms, Grant(self, w, u, term)
        PROVE  Extended(t)
    <3>1. leases[u] = NoLease
      BY <1>1, <2>2 DEF Grant, Claimable, AloneInv, QueueInv, LeaseIffRunning
    <3>2. t # u => leases'[t] = leases[t]
      BY <2>1, <2>2 DEF Grant, TypeOK
    <3>3. QED BY <3>1, <3>2
  <2>3. CASE HeartbeatWrite(self)
    <3>1. t # beat[self].task => leases'[t] = leases[t]
      BY <2>1, <2>3 DEF HeartbeatWrite, TypeOK, Beat
    <3>2. beat[self] # NoBeat
      BY <2>3 DEF HeartbeatWrite
    <3>3. QED BY <1>1, <3>1, <3>2 DEF AloneInv, BeatStands
  <2>4. CASE Tick
    <3>1. leases[t] # NoLease => /\ leases'[t] = [leases[t] EXCEPT !.left = Less1(leases[t].left)]
                                 /\ leases[t] \in LeaseRow
      BY <2>1, <2>4 DEF Tick, TypeOK
    <3>2. leases[t] # NoLease => leases'[t].left < leases[t].left \/ leases'[t] = leases[t]
      BY <3>1 DEF LeaseRow, Less1
    <3>3. QED BY <3>2
  <2>5. ASSUME NEW u \in TaskIds, NEW delay, NEW force, Requeue(u, delay, force) PROVE Extended(t)
    BY <2>1, <2>5 DEF Requeue, TypeOK
  <2>6. CASE AutoRetry(self)
    <3>1. CASE AutoRetryList(self)
      BY <3>1 DEF AutoRetryList, tables
    <3>2. CASE AutoRetryStep(self)
      <4>1. Head(batch[self]) \in Listed
        BY <2>1, <3>2 DEF AutoRetryStep, TypeOK
      <4>2. Head(batch[self]).task \in TaskIds
        BY <4>1 DEF Listed
      <4>3. QED BY <2>5, <3>2, <4>2 DEF AutoRetryStep, tables
    <3>3. QED BY <2>6, <3>1, <3>2 DEF AutoRetry
  <2>7. CASE ServeCall(self)
    <3>1. ASSUME NEW w \in Workers, NEW u \in TaskIds, NEW outcome, Finish(self, w, u, outcome)
          PROVE  Extended(t)
      BY <2>1, <3>1 DEF Finish, TypeOK
    <3>2. QED BY <2>2, <2>3, <2>5, <2>7, <3>1
              DEF ServeCall, ClaimTask, ClaimNext, CompleteTask, FailTask, RetryTask, CreateTask,
                  HeartbeatRead, tables
  <2>8. CASE Crash(self) \/ UNCHANGED vars
    BY <2>8 DEF Crash, vars, tables
  <2>9. QED BY <1>1, <2>4, <2>6, <2>7, <2>8 DEF Next
<1> DEFINE Kept ==
        \A t \in TaskIds :
            leases[t] # NoLease /\ leases'[t] # NoLease /\ leases'[t] # leases[t] =>
                \/ leases'[t].left < leases[t].left
                \/ \E p \in Procs : beat[p] # NoBeat /\ beat[p].task = t
                                     /\ beat[p].worker = leases[t].owner
<1>2. ASSUME AloneInv(self), [Next]_vars PROVE [Kept]_vars
  BY <1>1, <1>2
<1>3. Spec => []AloneInv(self)
  BY AloneInvHolds, PTL
<1>4. QED BY <1>2, <1>3, PTL DEF Spec, LeaseExtendedByOwner

-----------------------------------------------------------------------------
(* The delay of an automatic retry *)

\* Whoever ran was claimed.
RunnersWereClaimed ==
    \A t \in TaskIds :
        tasks[t].status \in {"running", "completed", "failed"} => tasks[t].attempt_count >= 1

\* The attempts that a tick listed are the attempts its tasks still have.
ListIsFresh(p) ==
    \A i \in DOMAIN batch[p] : tasks[batch[p][i].task].attempt_count = batch[p][i].attempts

BackoffInv(p) == TypeOK /\ RunnersWereClaimed /\ ListIsFresh(p)

\* A step that gives no attempt leaves the list as fresh as it was.
LEMMA SameAttemptsKeepList ==
    ASSUME NEW p \in Procs, BackoffInv(p), UNCHANGED batch,
           \A u \in TaskIds : tasks'[u].attempt_count = tasks[u].attempt_count
    PROVE  ListIsFresh(p)'
<1>1. \A i \in DOMAIN batch[p] : batch[p][i].task \in TaskIds
  <2>1. batch[p] \in Seq(Listed)
    BY DEF BackoffInv, TypeOK
  <2>2. ASSUME NEW i \in DOMAIN batch[p] PROVE batch[p][i].task \in TaskIds
    <3>1. batch[p][i] \in Listed
      BY <2>1
    <3>2. QED BY <3>1 DEF Listed
  <2>3. QED BY <2>2
<1>2. QED BY <1>1 DEF BackoffInv, ListIsFresh

LEMMA EmptyListIsFresh ==
    ASSUME NEW p \in Procs, batch'[p] = <<>>
    PROVE  ListIsFresh(p)'
BY DEF ListIsFresh

LEMMA CallKeepsBackoff ==
    ASSUME NEW p \in Procs, BackoffInv(p), ServeCall(p)
    PROVE  RunnersWereClaimed' /\ ListIsFresh(p)'
<1>0. TypeOK /\ RunnersWereClaimed /\ \A u \in TaskIds : tasks[u].attempt_count \in Nat
  BY DEF BackoffInv, TypeOK, TaskRow
<1>1. ASSUME Idle(p), UNCHANGED procVars PROVE ListIsFresh(p)'
  BY <1>1, EmptyListIsFresh DEF Idle, procVars
<1>2. ASSUME NEW t \in TaskIds, NEW priority \in Priorities, NEW limit \in AttemptLimits,
             NEW delay \in Delays, CreateTask(p, t, priority, limit, delay)
      PROVE  RunnersWereClaimed' /\ ListIsFresh(p)'
  <2>1. RunnersWereClaimed'
    BY <1>0, <1>2, CreateEffect DEF RunnersWereClaimed
  <2>2. QED BY <1>1, <1>2, <2>1 DEF CreateTask
<1>3. ASSUME NEW w \in Workers, NEW t \in TaskIds, NEW term \in LeaseTerms, Grant(p, w, t, term)
      PROVE  RunnersWereClaimed' /\ ListIsFresh(p)'
  <2>1. /\ tasks'[t].attempt_count = tasks[t].attempt_count + 1
        /\ \A u \in TaskIds \ {t} : tasks'[u] = tasks[u]
    <3>1. TypeOK
      BY <1>0
    <3>2. tasks'[t].attempt_count = tasks[t].attempt_count + 1
      BY <3>1, <1>3, GrantEffect
    <3>3. \A u \in TaskIds \ {t} : tasks'[u] = tasks[u]
      BY <3>1, <1>3, GrantEffect
    <3>4. QED BY <3>2, <3>3
  <2>2. RunnersWereClaimed'
    BY <1>0, <2>1 DEF RunnersWereClaimed
  <2>3. QED BY <1>1, <1>3, <2>2 DEF Grant
<1>4. ASSUME NEW w \in Workers, NEW t \in TaskIds, NEW outcome \in {"completed", "failed"},
             Finish(p, w, t, outcome)
      PROVE  RunnersWereClaimed' /\ ListIsFresh(p)'
  <2>1. tasks[t].status = "running" /\ tasks'[t].attempt_count = tasks[t].attempt_count
        /\ \A u \in TaskIds \ {t} : tasks'[u] = tasks[u]
    <3>1. TypeOK /\ tasks[t].status = "running"
      BY <1>0, <1>4 DEF Finish
    <3>2. QED BY <3>1, <1>4, FinishEffect
  <2>2. RunnersWereClaimed'
    BY <1>0, <2>1 DEF RunnersWereClaimed
  <2>3. QED BY <1>1, <1>4, <2>2 DEF Finish
<1>5. ASSUME NEW t \in TaskIds, NEW delay \in Delays, NEW force \in BOOLEAN, RetryTask(p, t, delay, force)
      PROVE  RunnersWereClaimed' /\ ListIsFresh(p)'
  <2>1. tasks'[t].status = "pending" /\ \A u \in TaskIds \ {t} : tasks'[u] = tasks[u]
    BY <1>0, <1>5, RequeueEffect DEF RetryTask
  <2>2. RunnersWereClaimed'
    BY <1>0, <2>1 DEF RunnersWereClaimed
  <2>3. QED BY <1>1, <1>5, <2>2 DEF RetryTask
<1>6. ASSUME UNCHANGED <<tasks, batch>> PROVE RunnersWereClaimed' /\ ListIsFresh(p)'
  BY <1>6, <1>0, SameAttemptsKeepList DEF RunnersWereClaimed
<1>7. ASSUME NEW w \in Workers, NEW t \in TaskIds, NEW term \in LeaseTerms, HeartbeatRead(p, w, t, term)
      PROVE  UNCHANGED <<tasks, batch>>
  BY <1>7 DEF HeartbeatRead, tables
<1>8. HeartbeatWrite(p) => UNCHANGED <<tasks, batch>>
  BY DEF HeartbeatWrite
<1>9. QED BY <1>2, <1>3, <1>4, <1>5, <1>6, <1>7, <1>8
          DEF ServeCall, ClaimTask, ClaimNext, CompleteTask, FailTask

LEMMA AutoRetryKeepsBackoff ==
    ASSUME NEW p \in Procs, BackoffInv(p), AutoRetry(p)
    PROVE  RunnersWereClaimed' /\ ListIsFresh(p)'
<1>0. TypeOK /\ RunnersWereClaimed /\ batch[p] \in Seq(Listed)
  BY DEF BackoffInv, TypeOK
<1>1. CASE AutoRetryList(p)
  <2>1. PICK order \in [1 .. BatchSize -> Eligible] :
            batch' = [batch EXCEPT ![p] = [i \in 1 .. BatchSize |->
                         [task |-> order[i], attempts |-> tasks[order[i]].attempt_count]]]
    BY <1>1 DEF AutoRetryList
  <2> DEFINE list == [i \in 1 .. BatchSize |->
                         [task |-> order[i], attempts |-> tasks[order[i]].attempt_count]]
  <2>2. batch'[p] = list /\ UNCHANGED tasks
    BY <1>0, <1>1, <2>1 DEF AutoRetryList, tables, TypeOK
  <2>3. \A i \in DOMAIN list : list[i].attempts = tasks[list[i].task].attempt_count
    OBVIOUS
  <2> HIDE DEF list
  <2>4. QED BY <1>0, <2>2, <2>3 DEF RunnersWereClaimed, ListIsFresh
<1>2. CASE AutoRetryStep(p)
  <2>1. batch[p] # <<>> /\ batch'[p] = Tail(batch[p])
    BY <1>0, <1>2 DEF AutoRetryStep, TypeOK
  <2>2. Head(batch[p]).task \in TaskIds
    <3>1. Head(batch[p]) \in Listed
      BY <1>0, <2>1
    <3>2. QED BY <3>1 DEF Listed
  <2>3. /\ \A u \in TaskIds : tasks'[u].attempt_count = tasks[u].attempt_count
        /\ \A u \in TaskIds : tasks'[u].status \in {tasks[u].status, "pending"}
    <3>1. ASSUME NEW t \in TaskIds, NEW delay, Requeue(t, delay, FALSE), NEW u \in TaskIds
          PROVE  /\ tasks'[u].attempt_count = tasks[u].attempt_count
                 /\ tasks'[u].status \in {tasks[u].status, "pending"}
      BY <1>0, <3>1, RequeueEffect
    <3>2. QED BY <1>2, <2>2, <3>1 DEF AutoRetryStep, tables
  <2>4. RunnersWereClaimed'
    BY <1>0, <2>3 DEF RunnersWereClaimed
  <2>5. ASSUME NEW i \in DOMAIN Tail(batch[p])
        PROVE  /\ i + 1 \in DOMAIN batch[p] /\ Tail(batch[p])[i] = batch[p][i + 1]
               /\ batch[p][i + 1] \in Listed
    BY <1>0, <2>1
  <2>6. ASSUME NEW i \in DOMAIN batch'[p]
        PROVE  tasks'[batch'[p][i].task].attempt_count = batch'[p][i].attempts
    <3>1. i + 1 \in DOMAIN batch[p] /\ batch'[p][i] = batch[p][i + 1] /\ batch[p][i + 1] \in Listed
      BY <2>1, <2>5, <2>6
    <3>2. batch[p][i + 1].task \in TaskIds
      BY <3>1 DEF Listed
    <3>3. tasks[batch[p][i + 1].task].attempt_count = batch[p][i + 1].attempts
      BY <3>1 DEF BackoffInv, ListIsFresh
    <3>4. QED BY <2>3, <3>1, <3>2, <3>3
  <2>7. QED BY <2>4, <2>6 DEF ListIsFresh
<1>3. QED BY <1>1, <1>2 DEF AutoRetry

LEMMA StepBackoffInv ==
    ASSUME NEW p \in Procs, Procs = {p}, BackoffInv(p), [Next]_vars
    PROVE  BackoffInv(p)'
<1>1. TypeOK'
  BY TypePreserved DEF BackoffInv
<1>2. CASE Tick
  <2>1. \A u \in TaskIds : /\ tasks'[u].attempt_count = tasks[u].attempt_count
                           /\ tasks'[u].status = tasks[u].status
    BY <1>2, TickEffect DEF BackoffInv
  <2>2. UNCHANGED batch
    BY <1>2 DEF Tick
  <2>3. QED BY <1>1, <2>1, <2>2, SameAttemptsKeepList DEF BackoffInv, RunnersWereClaimed
<1>3. CASE Crash(p)
  <2>1. batch'[p] = <<>> /\ UNCHANGED tasks
    BY <1>3 DEF Crash, BackoffInv, TypeOK, tables
  <2>2. QED BY <1>1, <2>1, EmptyListIsFresh DEF BackoffInv, RunnersWereClaimed
<1>4. CASE UNCHANGED vars
  BY <1>1, <1>4, SameAttemptsKeepList DEF BackoffInv, RunnersWereClaimed, vars, tables, procVars
<1>5. QED BY <1>1, <1>2, <1>3, <1>4, CallKeepsBackoff, AutoRetryKeepsBackoff DEF Next, BackoffInv

\* The delay that the code computes and clamps twice is the documented one.
LEMMA BackoffMeetsDocument ==
    ASSUME \A n \in Nat : 2 ^ n \in Nat, MaxDelay <= DelayCap, NEW attempts \in Nat, attempts >= 1
    PROVE  CappedAt(Backoff(attempts), DelayCap) = DocumentedDelay(attempts)
<1> DEFINE power == 2 ^ (attempts - 1)
           d == BaseDelay * power
<1>1. power \in Nat
  <2>1. attempts - 1 \in Nat
    OBVIOUS
  <2>2. QED BY <2>1
<1>2. Backoff(attempts) = CappedAt(d, MaxDelay)
  BY DEF Backoff
<1>3. DocumentedDelay(attempts) = IF d < MaxDelay THEN d ELSE MaxDelay
  BY DEF DocumentedDelay
<1> HIDE DEF power
<1>4. d \in Nat
  BY <1>1, QueueAssumption DEF QueueAssumption
<1> HIDE DEF d
<1>5. QED BY <1>2, <1>3, <1>4, QueueAssumption DEF QueueAssumption, CappedAt

\* With one server process, and a cap that the clamp of retryTask does not cut, every
\* automatic retry waits as documented, for any delays, limits and batches.  That powers of
\* two are natural numbers is a hypothesis: the provers know no induction.
THEOREM RetriesWaitAsDocumented ==
    ASSUME NEW self \in Procs, Procs = {self}, MaxDelay <= DelayCap, \A n \in Nat : 2 ^ n \in Nat
    PROVE  Spec => BackoffIsDocumented
<1> DEFINE Waits(t) == AutoRetried(t) => tasks'[t].wait = DocumentedDelay(tasks[t].attempt_count)
<1>1. ASSUME BackoffInv(self), [Next]_vars, NEW t \in TaskIds, AutoRetried(t)
      PROVE  tasks'[t].wait = DocumentedDelay(tasks[t].attempt_count)
  <2>1. /\ tasks[t].status = "failed" /\ tasks'[t].status = "pending"
        /\ batch[self] # <<>> /\ Head(batch[self]).task = t /\ batch'[self] # batch[self]
    BY <1>1 DEF AutoRetried
  <2>2. AutoRetryStep(self)
    <3>1. ~Tick /\ ~UNCHANGED vars
      BY <2>1 DEF Tick, vars, procVars
    <3>2. ~ServeCall(self)
      BY <2>1 DEF ServeCall, CreateTask, ClaimTask, ClaimNext, Grant, HeartbeatRead, HeartbeatWrite,
         CompleteTask, FailTask, Finish, RetryTask, Idle
    <3>3. ~AutoRetryList(self) /\ ~Crash(self)
      BY <2>1 DEF AutoRetryList, Crash, Idle, tables
    <3>4. QED BY <1>1, <3>1, <3>2, <3>3 DEF Next, AutoRetry
  <2> DEFINE item == Head(batch[self])
  <2>3. Requeue(t, Backoff(item.attempts), FALSE)
    BY <2>1, <2>2 DEF AutoRetryStep, tables
  <2>4. item.attempts = tasks[t].attempt_count
    <3>1. batch[self] \in Seq(Listed)
      BY <1>1 DEF BackoffInv, TypeOK
    <3>2. 1 \in DOMAIN batch[self] /\ item = batch[self][1]
      BY <2>1, <3>1
    <3>3. QED BY <1>1, <2>1, <3>2 DEF BackoffInv, ListIsFresh
  <2> HIDE DEF item
  <2> DEFINE n == tasks[t].attempt_count
  <2>5. n \in Nat /\ n >= 1
    BY <1>1, <2>1 DEF BackoffInv, TypeOK, TaskRow, RunnersWereClaimed
  <2>6. tasks'[t].wait = CappedAt(Backoff(n), DelayCap)
    <3> DEFINE delay == Backoff(n)
    <3>1. Requeue(t, delay, FALSE)
      BY <2>3, <2>4
    <3> HIDE DEF delay
    <3>2. QED BY <1>1, <3>1 DEF Requeue, BackoffInv, TypeOK, TaskRow, delay
  <2> HIDE DEF n
  <2>7. QED BY <2>5, <2>6, BackoffMeetsDocument DEF n
<1>2. ASSUME BackoffInv(self), [Next]_vars
      PROVE  [\A t \in TaskIds : AutoRetried(t) =>
                  tasks'[t].wait = DocumentedDelay(tasks[t].attempt_count)]_vars
  BY <1>1, <1>2
<1>3. Init => BackoffInv(self)
  BY InitTypeOK DEF Init, BackoffInv, RunnersWereClaimed, ListIsFresh, NoTask
<1>4. BackoffInv(self) /\ [Next]_vars => BackoffInv(self)'
  BY StepBackoffInv
<1>5. QED BY <1>2, <1>3, <1>4, PTL DEF Spec, BackoffIsDocumented
=============================================================================
