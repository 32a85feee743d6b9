------------------------------- MODULE Autopilot -------------------------------
(***************************************************************************)
(* The TriChat autopilot of src/src/tools/trichat.ts: a daemon whose tick  *)
(* claims a task, asks a council of agents, passes a safety gate, runs     *)
(* commands, records and settles the outcome, and pauses itself when it    *)
(* fails too often.                                                        *)
(*                                                                         *)
(* A tick takes a lock for a fixed lease.  Everything it does goes through *)
(* the mutation journal under keys made of its session, which is the       *)
(* attempt of the claimed task, or else the heartbeat bucket of the clock: *)
(* another tick of the same session replays what is done and is refused    *)
(* what is begun, failed or differs.  The await of the council is the only *)
(* one that lets a process do anything else; processes interleave anywhere.*)
(*                                                                         *)
(* One task is followed, of priority above the follow-ups the autopilot    *)
(* creates; away_mode is the default (normal).                             *)
(* The lock is read and then written, as in LeaseLock; its keys are made   *)
(* of the tick, so that no other tick meets them.                          *)
(***************************************************************************)
EXTENDS Naturals, FiniteSets

CONSTANTS
    Procs,        \* server processes
    Ticks,
    MaxBucket,    \* bound: heartbeat buckets
    MaxAttempts,  \* bound: attempts of the task
    MaxErrors,    \* max_consecutive_errors
    Budgets,      \* bounds on buckets, ticks, control calls, mishaps, and leases a tick outlives
    NoTick, Ended, Stuck, Died, NoRow, Free  \* Stuck: over, but a call about its lock failed

VARIABLES
    bucket,       \* Date.now() in intervals of the daemon
    tickLock,     \* the row of lock trichat.autopilot.tick
    journal,      \* journal[s][l]: the row of the key made of session s and label l
    claimed,      \* claimed[b]: the attempt the claim of bucket b returned, 0 for no task
    task,         \* the task: status and attempt_count
    outcome,      \* outcome[a]: how attempt a was settled
    runtime,      \* runtime[p]: the daemon in the memory of process p
    enabled,      \* the flag of its row in daemon_configs
    tick,         \* tick[t]
    commands,     \* commands[s]: how often the commands of session s were run
    budget,       \* the bounds of this behaviour
    overran,      \* some tick outlived its lease
    raced,        \* two ticks read the expired row of the lock before either wrote
    belated,      \* some tick took the lock after the bucket of its keys was over
    calls,        \* start, stop and run_once calls so far
    mishaps

vars == <<bucket, tickLock, journal, claimed, task, outcome, runtime, enabled, tick,
          commands, budget, overran, raced, belated, calls, mishaps>>

Sessions == ({"heartbeat"} \X (0 .. MaxBucket)) \cup ({"attempt"} \X (1 .. MaxAttempts))

\* The labels of a tick's keys in the order of their steps.
Labels ==
    {"claim", "begin", "intake", "ask", "decide", "policy", "command", "create_task", "verify",
     "mentor", "adr", "incident", "complete", "fail", "end", "end_error", "panic_fail"}

\* What else a tick may be at.
Places ==
    Labels \cup {"lock", "insert", "steal", "judge", "execute", "settle", "finish",
                 "panic", "panic_incident", "panic_pause", "release"}

\* What a key's work found out or left; "ended" is the event of an end of the run.
Outs == {"none", "yes", "no", "direct", "fallback", "ended"}

Sound == <<"none", "">>
Reasons ==
    {Sound} \cup ({"confidence", "policy", "lock", "command"} \X {""})
    \cup ({"mismatch", "begun", "failed", "threw"} \X Labels)

Prints == Reasons \cup {<<"succeeded", "">>, <<"unsuccessful", "">>}

Row == [status : {"in_progress", "done", "failed"}, print : Prints, out : Outs]

Tick == [proc : Procs, timer : BOOLEAN, strict : BOOLEAN,
         bucket : 0 .. MaxBucket, session : Sessions, at : Places, busy : {"no", "work", "record"},
         quorum : BOOLEAN, failure : Reasons, braked : BOOLEAN]

\* The null values are no records, and differ.
ASSUME NullAssumption ==
    /\ NoRow \notin Row /\ Free \notin [owner : Ticks, expired : BOOLEAN]
    /\ {NoTick, Ended, Stuck, Died} \cap Tick = {}
    /\ NoTick # Ended /\ NoTick # Stuck /\ NoTick # Died
    /\ Ended # Stuck /\ Ended # Died /\ Stuck # Died

\* Bounds are numbers; a task has an attempt to begin with.
ASSUME BoundsAssumption ==
    /\ IsFiniteSet(Ticks)
    /\ MaxBucket \in Nat /\ MaxAttempts \in Nat \ {0} /\ MaxErrors \in Nat
    /\ \A b \in Budgets : /\ b.buckets \in 0 .. MaxBucket
                          /\ b.calls \in Nat /\ b.mishaps \in Nat

TypeOK ==
    /\ bucket \in 0 .. MaxBucket
    /\ tickLock = Free \/ (tickLock.owner \in Ticks /\ tickLock.expired \in BOOLEAN)
    /\ journal \in [Sessions -> [Labels -> Row \cup {NoRow}]]
    /\ claimed \in [0 .. MaxBucket -> 0 .. MaxAttempts]
    /\ task \in [status : {"pending", "running", "completed", "failed"}, attempts : 0 .. MaxAttempts]
    /\ outcome \in [1 .. MaxAttempts -> {"none", "completed", "failed"}]
    /\ runtime \in [Procs -> [running : BOOLEAN, in_tick : BOOLEAN, errors : 0 .. 2 * Cardinality(Ticks)]]
    /\ enabled \in BOOLEAN
    /\ tick \in [Ticks -> Tick \cup {NoTick, Ended, Stuck, Died}]
    /\ \A s \in Sessions : commands[s] \in 0 .. Cardinality(Ticks)
    /\ budget \in Budgets /\ overran \in BOOLEAN /\ raced \in BOOLEAN /\ belated \in BOOLEAN
    /\ calls \in 0 .. budget.calls /\ mishaps \in 0 .. budget.mishaps

\* The daemon was started before, and all processes have it.
Init ==
    /\ bucket = 0 /\ tickLock = Free
    /\ journal = [s \in Sessions |-> [l \in Labels |-> NoRow]]
    /\ claimed = [b \in 0 .. MaxBucket |-> 0]
    /\ task = [status |-> "pending", attempts |-> 0]
    /\ outcome = [a \in 1 .. MaxAttempts |-> "none"]
    /\ enabled = TRUE
    /\ runtime = [p \in Procs |-> [running |-> TRUE, in_tick |-> FALSE, errors |-> 0]]
    /\ tick = [t \in Ticks |-> NoTick]
    /\ commands = [s \in Sessions |-> 0]
    /\ budget \in Budgets /\ overran = FALSE /\ raced = FALSE /\ belated = FALSE
    /\ calls = 0 /\ mishaps = 0

-----------------------------------------------------------------------------

Underway(t) == tick[t] \notin {NoTick, Ended, Stuck, Died}

Acquiring == {"lock", "insert", "steal"}

\* Between the tick lock and its release.
Working(t) == Underway(t) /\ tick[t].at \notin Acquiring

TicksOf(p) == {t \in Ticks : Underway(t) /\ tick[t].proc = p}

\* A tick that waits for the council lets its process do something else.
Waits(t) == tick[t].at = "ask" /\ tick[t].busy = "work"

\* A process takes calls and fires timers while its ticks wait for the council.
Idle(p) == \A t \in TicksOf(p) : Waits(t)

\* And a tick goes on while the others of its process wait.
MayRun(t) == \A u \in TicksOf(tick[t].proc) \ {t} : Waits(u)

At(t, place) == Underway(t) /\ tick[t].at = place

Go(t, place) == tick' = [tick EXCEPT ![t].at = place]

Set(p, running, inTick) ==
    runtime' = [runtime EXCEPT ![p].running = running, ![p].in_tick = inTick]

ghosts == <<budget, overran, raced, belated, calls, mishaps>>

\* A statement fails: all ghosts but the count of mishaps.
Mishap == mishaps < budget.mishaps /\ mishaps' = mishaps + 1 /\ UNCHANGED <<budget, overran, raced, belated, calls>>

storeVars == <<journal, claimed, task, outcome, commands>>

\* A new tick in the bucket of the clock; ticks are numbered by CHOOSE.
NewTick(p, timer, strict) ==
    LET fresh == {t \in Ticks : tick[t] = NoTick} IN
    /\ fresh # {} /\ Cardinality(Ticks \ fresh) < budget.ticks
    /\ tick' = [tick EXCEPT ![CHOOSE t \in fresh : TRUE] =
           [proc |-> p, timer |-> timer, strict |-> strict, bucket |-> bucket,
            session |-> <<"heartbeat", bucket>>, at |-> "lock", busy |-> "no", quorum |-> FALSE,
            failure |-> Sound, braked |-> FALSE]]

\* startAutopilotDaemon: in_tick is cleared whatever runs, the error count stays.
StartAutopilotDaemon(p) == Set(p, TRUE, FALSE)

StopAutopilotDaemon(p) == Set(p, FALSE, FALSE)

\* trichat.autopilot start: with or without a first tick.
Start(p) ==
    /\ Idle(p)
    /\ StartAutopilotDaemon(p)
    /\ enabled' = TRUE
    /\ NewTick(p, FALSE, FALSE) \/ UNCHANGED tick
    /\ calls < budget.calls /\ calls' = calls + 1
    /\ UNCHANGED <<bucket, tickLock, storeVars, budget, overran, raced, belated, mishaps>>

Stop(p) ==
    /\ Idle(p)
    /\ StopAutopilotDaemon(p)
    /\ enabled' = FALSE
    /\ calls < budget.calls /\ calls' = calls + 1
    /\ UNCHANGED <<bucket, tickLock, storeVars, tick, budget, overran, raced, belated, mishaps>>

\* run_once ticks with a configuration of its own, here another confidence threshold.
RunOnce(p) ==
    /\ Idle(p)
    /\ \E strict \in BOOLEAN : NewTick(p, FALSE, strict)
    /\ calls < budget.calls /\ calls' = calls + 1
    /\ UNCHANGED <<bucket, tickLock, storeVars, runtime, enabled, budget, overran, raced, belated, mishaps>>

TrichatAutopilotControl(p) == Start(p) \/ Stop(p) \/ RunOnce(p)

TimerFires(p) ==
    /\ Idle(p) /\ runtime[p].running
    /\ NewTick(p, TRUE, FALSE)
    /\ UNCHANGED <<bucket, tickLock, storeVars, runtime, enabled, ghosts>>

-----------------------------------------------------------------------------
(* Keys of the journal. *)

RowOf(t, l) == journal[tick[t].session][l]

PutRow(t, l, row) == journal' = [journal EXCEPT ![tick[t].session][l] = row]

Replays(t, l, print) ==
    RowOf(t, l) # NoRow /\ RowOf(t, l).status = "done" /\ RowOf(t, l).print = print

\* Why the key of label l refuses the tick.
Refusal(t, l, print) ==
    IF RowOf(t, l).print # print THEN <<"mismatch", l>>
    ELSE IF RowOf(t, l).status = "failed" THEN <<"failed", l>>
    ELSE <<"begun", l>>

Throw(t, reason) ==
    tick' = [tick EXCEPT ![t].at = "panic", ![t].busy = "no", ![t].failure = reason]

\* beginMutation for the step the tick is at: it goes on to the work, or throws.
BeginKey(t, l, print) ==
    /\ At(t, l) /\ tick[t].busy = "no"
    /\ ~Replays(t, l, print)
    /\ IF RowOf(t, l) = NoRow
       THEN /\ PutRow(t, l, [status |-> "in_progress", print |-> print, out |-> "none"])
            /\ tick' = [tick EXCEPT ![t].busy = "work"]
       ELSE Throw(t, Refusal(t, l, print)) /\ UNCHANGED journal
    /\ UNCHANGED <<bucket, tickLock, claimed, task, outcome, commands, runtime, enabled, ghosts>>

elsewhere == <<bucket, tickLock, runtime, enabled, ghosts>>

Advance(t, place) == tick' = [tick EXCEPT ![t].at = place, ![t].busy = "no"]

\* The step was done by an earlier tick of the session.
Skips(t, l, print, place) ==
    /\ At(t, l) /\ tick[t].busy = "no" /\ Replays(t, l, print)
    /\ Go(t, place)
    /\ UNCHANGED <<storeVars, elsewhere>>

\* The work of the step is committed before its row is completed.
Works(t, l) == At(t, l) /\ tick[t].busy = "work" /\ tick' = [tick EXCEPT ![t].busy = "record"]

\* completeMutation.
PutDone(t, l, out) == PutRow(t, l, [RowOf(t, l) EXCEPT !.status = "done", !.out = out])

\* A step whose work is nothing that is followed here but the event of an end, from
\* beginMutation to completeMutation.  Its statements may throw, before or after its work.
Keyed(t, l, print, outs, place) ==
    /\ At(t, l)
    /\ \/ /\ RowOf(t, l) = NoRow
          /\ \E out \in outs : PutRow(t, l, [status |-> "done", print |-> print, out |-> out])
          /\ Go(t, place) /\ UNCHANGED ghosts
       \/ Replays(t, l, print) /\ Go(t, place) /\ UNCHANGED <<journal, ghosts>>
       \/ /\ RowOf(t, l) # NoRow /\ ~Replays(t, l, print)
          /\ Throw(t, Refusal(t, l, print)) /\ UNCHANGED <<journal, ghosts>>
       \/ /\ RowOf(t, l) = NoRow /\ Mishap
          /\ \E out \in {"none"} \cup (outs \cap {"ended"}) :
                PutRow(t, l, [status |-> "failed", print |-> print, out |-> out])
          /\ Throw(t, <<"threw", l>>)
    /\ UNCHANGED <<claimed, task, outcome, commands, bucket, tickLock, runtime, enabled>>

-----------------------------------------------------------------------------
(* The tick. *)

\* acquireLock reads the row of the lock; the clock was read before.
ReadTickLock(t) ==
    /\ At(t, "lock")
    /\ tickLock # Free => tickLock.expired
    /\ Go(t, IF tickLock = Free THEN "insert" ELSE "steal")
    /\ raced' = (raced \/ (tickLock # Free /\ \E u \in Ticks : At(u, "steal")))
    /\ UNCHANGED <<bucket, tickLock, storeVars, runtime, enabled, budget, overran, belated, calls, mishaps>>

\* runAutopilotOverlapSkip: a tick that finds the lock held counts as a success.
OverlapSkip(t) ==
    /\ At(t, "lock")
    /\ tickLock # Free /\ ~tickLock.expired
    /\ runtime' = [runtime EXCEPT ![tick[t].proc].errors = 0]
    /\ tick' = [tick EXCEPT ![t] = Ended]
    /\ UNCHANGED <<bucket, tickLock, storeVars, enabled, ghosts>>

\* The tick was told that it has the lock.
TakeOff(t) ==
    /\ Set(tick[t].proc, runtime[tick[t].proc].running, TRUE)
    /\ Go(t, "claim")
    /\ belated' = (belated \/ tick[t].bucket # bucket)
    /\ UNCHANGED <<bucket, storeVars, enabled, budget, overran, raced, calls, mishaps>>

\* The callback of the timer counts a tick that rejects.
CountRejection(t) ==
    runtime' = [runtime EXCEPT ![tick[t].proc].errors = IF tick[t].timer THEN @ + 1 ELSE @]

\* The tick rejects before it has the lock, and before its finally.
Rejects(t, last) ==
    /\ CountRejection(t)
    /\ tick' = [tick EXCEPT ![t] = last]
    /\ UNCHANGED <<bucket, storeVars, enabled>>

\* Variant: the INSERT replaces a row that came in between.
InsertOrReplace(t) ==
    At(t, "insert") /\ tickLock' = [owner |-> t, expired |-> FALSE] /\ TakeOff(t)

\* The INSERT, which fails on the primary key of a row that came in between.
InsertTickLock(t) ==
    /\ At(t, "insert")
    /\ IF tickLock = Free
       THEN tickLock' = [owner |-> t, expired |-> FALSE] /\ TakeOff(t)
       ELSE Rejects(t, Ended) /\ UNCHANGED <<tickLock, ghosts>>

\* The UPDATE by key alone: of whatever row is there, or of none.
StealTickLock(t) ==
    /\ At(t, "steal")
    /\ tickLock' = IF tickLock = Free THEN Free ELSE [owner |-> t, expired |-> FALSE]
    /\ TakeOff(t)

\* A statement of the call throws, before or after its write.
AcquireThrows(t) ==
    /\ tick[t].at \in Acquiring /\ Mishap
    /\ Rejects(t, Stuck)
    /\ \/ UNCHANGED tickLock
       \/ /\ tick[t].at = IF tickLock = Free THEN "insert" ELSE "steal"
          /\ tickLock' = [owner |-> t, expired |-> FALSE]

AcquireTickLock(t) ==
    ReadTickLock(t) \/ OverlapSkip(t) \/ InsertTickLock(t) \/ StealTickLock(t) \/ AcquireThrows(t)

\* Variant: the session is made of the attempt even when nothing was claimed.
ClaimedAlways(t, a) ==
    tick' = [tick EXCEPT ![t].at = "begin", ![t].busy = "no", ![t].session = <<"attempt", a>>]

\* The session of the tick once the claim of its bucket returned attempt a, or 0.
Claimed(t, a) ==
    tick' = [tick EXCEPT ![t].at = "begin", ![t].busy = "no",
                         ![t].session = IF a = 0 THEN @ ELSE <<"attempt", a>>]

\* The claim of the bucket; the attempt it returned is part of its row.
GoalClaim(t) ==
    \/ BeginKey(t, "claim", Sound)
    \/ /\ Works(t, "claim")
       /\ IF task.status = "pending"
          THEN /\ task' = [status |-> "running", attempts |-> task.attempts + 1]
               /\ claimed' = [claimed EXCEPT ![tick[t].bucket] = task.attempts + 1]
          ELSE UNCHANGED <<task, claimed>>
       /\ UNCHANGED <<journal, outcome, commands, elsewhere>>
    \/ /\ At(t, "claim") /\ tick[t].busy = "record"
       /\ PutDone(t, "claim", "none") /\ Claimed(t, claimed[tick[t].bucket])
       /\ UNCHANGED <<claimed, task, outcome, commands, elsewhere>>
    \/ /\ At(t, "claim") /\ tick[t].busy = "no" /\ Replays(t, "claim", Sound)
       /\ Claimed(t, claimed[tick[t].bucket])
       /\ UNCHANGED <<storeVars, elsewhere>>

RunBegin(t) == Keyed(t, "begin", Sound, {"none"}, "intake")

\* Thread, message and turn.
GoalIntake(t) == Keyed(t, "intake", Sound, {"none"}, "ask")

\* runAutopilotBridgeAsk starts the agents.
BridgeAsk(t) ==
    /\ At(t, "ask") /\ RowOf(t, "ask") = NoRow
    /\ BeginKey(t, "ask", Sound)

Heard(t, quorum) == tick' = [tick EXCEPT ![t].at = "decide", ![t].busy = "no", ![t].quorum = quorum]

\* A round is over when enough agents answered, or all are done, timed out or aborted.
CouncilRound(t) ==
    /\ At(t, "ask") /\ tick[t].busy = "work"
    /\ \E out \in {"yes", "no"} : PutDone(t, "ask", out) /\ Heard(t, out = "yes")
    /\ UNCHANGED <<claimed, task, outcome, commands, elsewhere>>

\* An agent whose key is refused counts as one that did not answer.
CouncilHeard(t) ==
    /\ At(t, "ask") /\ tick[t].busy = "no" /\ RowOf(t, "ask") # NoRow
    /\ Heard(t, RowOf(t, "ask").status = "done" /\ RowOf(t, "ask").out = "yes")
    /\ UNCHANGED <<storeVars, elsewhere>>

\* The decision is recorded; every tick judges for itself whether it is confident in it.
Council(t) ==
    \/ BridgeAsk(t) \/ CouncilRound(t) \/ CouncilHeard(t)
    \/ Keyed(t, "decide", Sound, {"direct", "fallback"}, "judge")
    \/ LET confident == tick[t].quorum /\ ~tick[t].strict IN
          /\ At(t, "judge")
          /\ tick' = [tick EXCEPT ![t].at = "policy",
                                  ![t].failure = IF confident THEN Sound ELSE <<"confidence", "">>,
                                  ![t].braked = ~confident]
          /\ UNCHANGED <<storeVars, elsewhere>>

\* evaluateAutopilotSafetyGate: away_mode normal asks the policy alone.
SafetyGate(t) == Keyed(t, "policy", Sound, {"yes", "no"}, "execute")

Fails(t, reason) ==
    tick' = [tick EXCEPT ![t].at = "verify", ![t].busy = "no", ![t].failure = IF @ = Sound THEN reason ELSE @]

\* What the gate and the command plan let the tick do.  Someone else may hold the
\* execution lock.
ChooseExecution(t) ==
    LET may == tick[t].failure = Sound /\ RowOf(t, "policy").out = "yes"
        plan == RowOf(t, "decide").out
    IN
    /\ At(t, "execute")
    /\ \/ ~may /\ Fails(t, <<"policy", "">>)
       \/ may /\ plan = "fallback" /\ Go(t, "create_task")
       \/ may /\ plan = "direct" /\ (Go(t, "command") \/ Fails(t, <<"lock", "">>))
    /\ UNCHANGED <<storeVars, elsewhere>>

Ran(t, ok) == IF ok THEN Advance(t, "verify") ELSE Fails(t, <<"command", "">>)

\* Variant: the commands run without a key of their own.
RunUnkeyed(t) ==
    /\ At(t, "command")
    /\ commands' = [commands EXCEPT ![tick[t].session] = @ + 1]
    /\ Advance(t, "verify")
    /\ UNCHANGED <<journal, claimed, task, outcome, elsewhere>>

\* runAutopilotShellCommand under its key.
RunCommand(t) ==
    \/ BeginKey(t, "command", Sound)
    \/ /\ Works(t, "command")
       /\ commands' = [commands EXCEPT ![tick[t].session] = @ + 1]
       /\ UNCHANGED <<journal, claimed, task, outcome, elsewhere>>
    \/ /\ At(t, "command") /\ tick[t].busy = "record"
       /\ \E out \in {"yes", "no"} : PutDone(t, "command", out) /\ Ran(t, out = "yes")
       /\ UNCHANGED <<claimed, task, outcome, commands, elsewhere>>
    \/ /\ At(t, "command") /\ tick[t].busy = "no" /\ Replays(t, "command", Sound)
       /\ Ran(t, RowOf(t, "command").out = "yes")
       /\ UNCHANGED <<storeVars, elsewhere>>

CreateFollowUp(t) == Keyed(t, "create_task", Sound, {"none"}, "verify")

Execution(t) == ChooseExecution(t) \/ RunCommand(t) \/ CreateFollowUp(t)

VerifyFinalize(t) == Keyed(t, "verify", tick[t].failure, {"none"}, "mentor")

\* Transcript lines, note and memory.
Mentorship(t) == Keyed(t, "mentor", tick[t].failure, {"none"}, "adr")

\* The record of the decision, unless the tick failed or its lock is held.
Governance(t) ==
    \/ tick[t].failure = Sound /\ Keyed(t, "adr", Sound, {"none"}, "incident")
    \/ At(t, "adr") /\ Go(t, "incident") /\ UNCHANGED <<storeVars, elsewhere>>

\* away_mode normal opens an incident for every failure.
OpenIncident(t) ==
    \/ tick[t].failure # Sound /\ Keyed(t, "incident", tick[t].failure, {"none"}, "settle")
    \/ At(t, "incident") /\ tick[t].failure = Sound /\ Go(t, "settle") /\ UNCHANGED <<storeVars, elsewhere>>

\* Variant: the claimed task is completed, however the tick went.
CompleteAlways(t) ==
    /\ At(t, "settle")
    /\ Go(t, IF tick[t].session[1] = "heartbeat" THEN "end" ELSE "complete")
    /\ UNCHANGED <<storeVars, elsewhere>>

ChooseSettlement(t) ==
    /\ At(t, "settle")
    /\ Go(t, IF tick[t].session[1] = "heartbeat" THEN "end"
             ELSE IF tick[t].failure = Sound THEN "complete" ELSE "fail")
    /\ UNCHANGED <<storeVars, elsewhere>>

\* completeTask and failTask: of a running task only, by its id and the one worker name
\* that all autopilots share.
SettleTask(status) ==
    IF task.status = "running"
    THEN task' = [task EXCEPT !.status = status] /\ outcome' = [outcome EXCEPT ![task.attempts] = status]
    ELSE UNCHANGED <<task, outcome>>

Settle(t, l, status) ==
    \/ BeginKey(t, l, Sound)
    \/ Works(t, l) /\ SettleTask(status) /\ UNCHANGED <<journal, claimed, commands, elsewhere>>
    \/ /\ At(t, l) /\ tick[t].busy = "record"
       /\ PutDone(t, l, "none") /\ Advance(t, "end")
       /\ UNCHANGED <<claimed, task, outcome, commands, elsewhere>>
    \/ Skips(t, l, Sound, "end")

CompleteTask(t) == Settle(t, "complete", "completed")

FailTask(t) == Settle(t, "fail", "failed")

Ending(t) == IF tick[t].failure = Sound THEN <<"succeeded", "">> ELSE <<"unsuccessful", "">>

RunEnd(t) == Keyed(t, "end", Ending(t), {"ended"}, "finish")

ErrorsAfter(t) ==
    IF tick[t].failure = Sound THEN 0 ELSE runtime[tick[t].proc].errors + 1

\* pauseAutopilotDaemon if the brake was pulled or too many ticks failed in a row, and
\* finalizeAutopilotRuntimeFromTick.  The pause may throw when it writes its row.
Finish(t) ==
    LET p == tick[t].proc
        pause == tick[t].failure # Sound /\ (tick[t].braked \/ runtime[p].errors + 1 >= MaxErrors)
    IN
    /\ At(t, "finish")
    /\ \/ /\ runtime' = [runtime EXCEPT ![p] =
                [running |-> @.running /\ ~pause, in_tick |-> @.in_tick /\ ~pause, errors |-> ErrorsAfter(t)]]
          /\ enabled' = (enabled /\ ~pause)
          /\ Go(t, "release") /\ UNCHANGED ghosts
       \/ /\ pause /\ Mishap /\ StopAutopilotDaemon(p)
          /\ Throw(t, <<"threw", "end">>) /\ UNCHANGED enabled
    /\ UNCHANGED <<bucket, tickLock, storeVars>>

-----------------------------------------------------------------------------
(* A tick that threw. *)

\* A key of the panic path whose failure is ignored: as it stands, done, or failed after a
\* part of its work or before it was begun.
PanicKey(t, l, print, out) ==
    \/ RowOf(t, l) # NoRow /\ UNCHANGED <<journal, ghosts>>
    \/ RowOf(t, l) = NoRow /\ PutRow(t, l, [status |-> "done", print |-> print, out |-> out]) /\ UNCHANGED ghosts
    \/ /\ RowOf(t, l) = NoRow /\ Mishap
       /\ \/ UNCHANGED journal
          \/ \E o \in {"none", out} : PutRow(t, l, [status |-> "failed", print |-> print, out |-> o])

\* run.end.error and the counters.
Panic(t) ==
    /\ At(t, "panic")
    /\ PanicKey(t, "end_error", tick[t].failure, "ended")
    /\ runtime' = [runtime EXCEPT ![tick[t].proc].errors = @ + 1]
    /\ Go(t, IF tick[t].session[1] = "attempt" THEN "panic_fail" ELSE "panic_incident")
    /\ UNCHANGED <<bucket, tickLock, claimed, task, outcome, commands, enabled>>

\* Variant: a tick that threw leaves its task alone.
PanicLeaveTask(t) == At(t, "panic_fail") /\ Go(t, "panic_incident") /\ UNCHANGED <<storeVars, elsewhere>>

\* The claimed task is failed, once per session.
PanicFailTask(t) ==
    /\ At(t, "panic_fail")
    /\ PanicKey(t, "panic_fail", Sound, "none")
    /\ \/ journal' # journal /\ SettleTask("failed")
       \/ (journal' = journal \/ mishaps' # mishaps) /\ UNCHANGED <<task, outcome>>
    /\ Go(t, "panic_incident")
    /\ UNCHANGED <<bucket, tickLock, claimed, commands, runtime, enabled>>

\* The incident of the session: when its key is refused or throws the tick rejects, the
\* pause is left out, and the callback of the timer counts the error again.
PanicIncident(t) ==
    LET l == "incident"
        print == tick[t].failure
    IN
    /\ At(t, "panic_incident")
    /\ \/ /\ RowOf(t, l) = NoRow /\ PutRow(t, l, [status |-> "done", print |-> print, out |-> "none"])
          /\ Go(t, "panic_pause") /\ UNCHANGED <<runtime, ghosts>>
       \/ Replays(t, l, print) /\ Go(t, "panic_pause") /\ UNCHANGED <<journal, runtime, ghosts>>
       \/ /\ RowOf(t, l) # NoRow /\ ~Replays(t, l, print)
          /\ CountRejection(t) /\ Go(t, "release") /\ UNCHANGED <<journal, ghosts>>
       \/ /\ RowOf(t, l) = NoRow /\ Mishap
          /\ PutRow(t, l, [status |-> "failed", print |-> print, out |-> "none"])
          /\ CountRejection(t) /\ Go(t, "release")
    /\ UNCHANGED <<bucket, tickLock, claimed, task, outcome, commands, enabled>>

\* Again the pause may throw when it writes its row.
PanicPause(t) ==
    LET p == tick[t].proc
        pause == runtime[p].errors >= MaxErrors
    IN
    /\ At(t, "panic_pause") /\ Go(t, "release")
    /\ \/ /\ Set(p, runtime[p].running /\ ~pause, runtime[p].in_tick /\ ~pause)
          /\ enabled' = (enabled /\ ~pause) /\ UNCHANGED ghosts
       \/ /\ pause /\ Mishap
          /\ runtime' = [runtime EXCEPT ![p] = [running |-> FALSE, in_tick |-> FALSE,
                                              errors |-> IF tick[t].timer THEN @.errors + 1 ELSE @.errors]]
          /\ UNCHANGED enabled
    /\ UNCHANGED <<bucket, tickLock, storeVars>>

\* The end of the finally: in_tick is cleared whatever became of the lock.
Ends(t, last) ==
    /\ Set(tick[t].proc, runtime[tick[t].proc].running, FALSE)
    /\ tick' = [tick EXCEPT ![t] = last]
    /\ UNCHANGED <<bucket, storeVars, enabled>>

\* Variant: the lock is released on the way of success alone.
ReleaseOnSuccess(t) ==
    /\ At(t, "release")
    /\ tickLock' = IF tick[t].failure = Sound THEN Free ELSE tickLock
    /\ Ends(t, Ended) /\ UNCHANGED ghosts

\* The finally of the tick.  releaseLock reads whose the lock is and deletes it by its key
\* alone; what it throws is ignored.  If that comes after the DELETE, it changes nothing.
Release(t) ==
    LET holds == tickLock # Free /\ tickLock.owner = t IN
    /\ At(t, "release")
    /\ \/ /\ tick[t].busy = "no" /\ holds
          /\ tick' = [tick EXCEPT ![t].busy = "work"]
          /\ UNCHANGED <<bucket, tickLock, storeVars, runtime, enabled, ghosts>>
       \/ tick[t].busy = "no" /\ ~holds /\ Ends(t, Ended) /\ UNCHANGED <<tickLock, ghosts>>
       \/ tick[t].busy = "work" /\ tickLock' = Free /\ Ends(t, Ended) /\ UNCHANGED ghosts
       \/ Mishap /\ Ends(t, Stuck) /\ UNCHANGED tickLock

RunAutopilotTick(t) ==
    /\ Underway(t) /\ MayRun(t)
    /\ \/ AcquireTickLock(t)
       \/ GoalClaim(t) \/ RunBegin(t) \/ GoalIntake(t) \/ Council(t) \/ SafetyGate(t)
       \/ Execution(t) \/ VerifyFinalize(t) \/ Mentorship(t) \/ Governance(t) \/ OpenIncident(t)
       \/ ChooseSettlement(t) \/ CompleteTask(t) \/ FailTask(t) \/ RunEnd(t) \/ Finish(t)
       \/ Panic(t) \/ PanicFailTask(t) \/ PanicIncident(t) \/ PanicPause(t)
       \/ Release(t)

-----------------------------------------------------------------------------
(* What happens to ticks. *)

NextBucket ==
    /\ bucket < budget.buckets
    /\ bucket' = bucket + 1
    /\ UNCHANGED <<tickLock, storeVars, runtime, enabled, tick, ghosts>>

\* lock_lease_seconds after it was taken: no tick renews its lease.
LeaseRunsOut ==
    /\ tickLock # Free /\ ~tickLock.expired
    /\ Working(tickLock.owner) => budget.overrun /\ ~overran
    /\ tickLock' = [tickLock EXCEPT !.expired = TRUE]
    /\ overran' = (overran \/ Working(tickLock.owner))
    /\ UNCHANGED <<bucket, storeVars, runtime, enabled, tick, budget, raced, belated, calls, mishaps>>

\* task.retry or the auto-retry daemon.
RetryTask ==
    /\ task.status = "failed" /\ task.attempts < MaxAttempts
    /\ task' = [task EXCEPT !.status = "pending"]
    /\ UNCHANGED <<bucket, tickLock, journal, claimed, outcome, commands, runtime, enabled, tick, ghosts>>

\* The work of a step, or its completeMutation, throws.
StatementFails(t) ==
    /\ Underway(t) /\ MayRun(t) /\ Mishap
    /\ tick[t].busy # "no" /\ tick[t].at \notin {"ask", "release"}
    /\ PutRow(t, tick[t].at, [RowOf(t, tick[t].at) EXCEPT !.status = "failed"])
    /\ Throw(t, <<"threw", tick[t].at>>)
    /\ UNCHANGED <<bucket, tickLock, claimed, task, outcome, commands, runtime, enabled>>

\* A process dies, and starts again with what the row of its daemon says.
Crash(p) ==
    /\ Mishap
    /\ runtime' = [runtime EXCEPT ![p] = [running |-> enabled, in_tick |-> FALSE, errors |-> 0]]
    /\ tick' = [t \in Ticks |-> IF t \in TicksOf(p) THEN Died ELSE tick[t]]
    /\ UNCHANGED <<bucket, tickLock, storeVars, enabled>>

Next ==
    \/ \E t \in Ticks : RunAutopilotTick(t) \/ StatementFails(t)
    \/ \E p \in Procs : TrichatAutopilotControl(p) \/ TimerFires(p) \/ Crash(p)
    \/ NextBucket \/ LeaseRunsOut \/ RetryTask

Spec == Init /\ [][Next]_vars

-----------------------------------------------------------------------------

\* The commands of a session run once, whatever is replayed, retried or restarted in its
\* bucket, also by another process and after a lease that ran out.
CommandsRunOnce == \A s \in Sessions : commands[s] <= 1

\* Single flight: two ticks work at once only when one outlived its lease, or when two
\* processes read the lock that a tick left behind, which died or could not release it, and
\* both took it: the UPDATE of acquireLock names only its key.
SingleFlight ==
    \A t, u \in Ticks : Working(t) /\ Working(u) /\ t # u => overran \/ raced

\* What the run of attempt a was told by key l: it ended so.
Said(a, l, print) ==
    LET row == journal[<<"attempt", a>>][l] IN row # NoRow /\ row.out = "ended" /\ row.print = print

\* What run.end told of the run of an attempt is what became of the task: completed if the
\* run succeeded and failed if not, also when a later tick of the session finished what an
\* earlier one left; and a task is completed only where the verification was recorded as
\* passed.  There is one exception: a tick that threw fails the task, and a later tick of
\* the session may still end the run as succeeded.  Of run.end.error no such thing is said:
\* a tick may throw after it completed the task, and then ends the run as failed.
\* This is as long as ticks do not overlap and each takes the lock in the bucket it made its
\* keys of: a belated one may come under the attempt before and settle the one that runs.
RunAgreesWithTask ==
    ~overran /\ ~raced /\ ~belated =>
        \A a \in 1 .. MaxAttempts :
            LET rows == journal[<<"attempt", a>>] IN
            /\ Said(a, "end", <<"succeeded", "">>) =>
                  \/ outcome[a] = "completed"
                  \/ outcome[a] = "failed" /\ rows["panic_fail"] # NoRow
            /\ Said(a, "end", <<"unsuccessful", "">>) => outcome[a] = "failed"
            /\ outcome[a] = "completed" => rows["verify"] # NoRow /\ rows["verify"].print = Sound

\* A tick that died or got stuck leaves its lock until the lease is over.
LockIsReleased == tickLock # Free => tick[tickLock.owner] # Ended

RunningTaskHasItsTick ==
    task.status = "running" /\ mishaps = 0 =>
        \E t \in Ticks : Working(t) /\ tick[t].at \notin {"finish", "panic_incident", "panic_pause", "release"}

InTickTells == \A p \in Procs : runtime[p].in_tick => \E t \in TicksOf(p) : Working(t)

\* What a tick took it gives back, whether it succeeds, fails or throws: a tick that is over
\* does not hold the lock, unless the very call that took or released it failed; in_tick is
\* shown only while a tick is under way; and a running task is in the hands of a tick that
\* will still settle it, short of a crash or a failed statement.
NothingLeftBehind == LockIsReleased /\ RunningTaskHasItsTick /\ InTickTells
=============================================================================
