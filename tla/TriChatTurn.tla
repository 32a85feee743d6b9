----------------------------- MODULE TriChatTurn -----------------------------
(***************************************************************************)
(* The turn state machine of src/src/tools/trichat.ts over the table       *)
(* trichat_turns of src/src/storage.ts: turn_start, turn_advance,          *)
(* turn_orchestrate (decide and verify_finalize), the stale-turn watchdog  *)
(* and the two fault injections of trichat.chaos.                          *)
(*                                                                         *)
(* None of these handlers is a transaction.  Each is a chain of statements *)
(* on one turn: it checks the row it last read, reads the row again inside *)
(* updateTriChatTurn, merges its change into that and writes every column  *)
(* back.  A process runs one handler at a time, so with one process a      *)
(* chain is cut only by a crash; a second process interleaves anywhere.    *)
(*                                                                         *)
(* A phase is its index in TURN_PHASE_ORDER.                               *)
(***************************************************************************)
EXTENDS Naturals, Sequences, FiniteSets

CONSTANTS
    TurnIds,          \* turns, one per user message
    Procs,            \* server processes on the same database
    Advances,         \* the changes clients ask for through turn_advance
    BatchLimit,       \* batch_limit of the watchdog
    Keep,             \* a column the change leaves as it is
    NoJob,            \* the process is not inside a handler
    MaxCrashes        \* bound: process crashes in a behaviour

VARIABLES
    turns,            \* turns[t]: the row of t in table trichat_turns
    stale,            \* the turns whose updated_at the watchdog finds old enough
    log,              \* log[t]: types of the artifacts of t, and "message"
    job,              \* job[p]: the handler p is inside
    crashes           \* crashes so far

vars == <<turns, stale, log, job, crashes>>

-----------------------------------------------------------------------------
(* Types *)

Plan == 0
Propose == 1
Critique == 2
Merge == 3
Execute == 4
Verify == 5
Summarize == 6

Terminal == {"completed", "failed", "cancelled"}
Statuses == {"absent", "running"} \cup Terminal
PhaseStatuses == {"running", "completed", "failed", "skipped"}

\* finished: finished_at is set.  decided: orchestrateDecision wrote its decision.
\* summary: verify_summary is set.  auto_fail: failTurnWithEvidence wrote its
\* metadata.auto_fail_finalize.
TurnRow == [status : Statuses, phase : 0..6, phase_status : PhaseStatuses,
            finished : BOOLEAN, decided : BOOLEAN, summary : BOOLEAN, auto_fail : BOOLEAN]

NoTurn == [status |-> "absent", phase |-> Plan, phase_status |-> "running",
           finished |-> FALSE, decided |-> FALSE, summary |-> FALSE, auto_fail |-> FALSE]

\* skip: metadata.allow_phase_skip of the call.  summary: an empty verify_summary clears it.
Change == [status : (Statuses \ {"absent"}) \cup {Keep}, phase : 0..6 \cup {Keep},
           phase_status : PhaseStatuses \cup {Keep}, skip : BOOLEAN,
           decided : BOOLEAN, summary : BOOLEAN \cup {Keep}, auto_fail : BOOLEAN]

Artifacts == {"decision", "verifier_result", "watchdog_timeout", "chaos_fault", "message"}

Stages == {"apply", "propose", "critique", "merge", "decision", "execute", "verify",
           "result", "verdict", "finish", "seed", "evidence", "fail", "message", "end"}

\* seen: the row the handler goes by; draft: the row it is about to write (NoTurn while
\* there is none); input: the change a client asked for; listed: the turns a watchdog
\* tick has left.  failTurnWithEvidence goes by no row: of the snapshot it is given it
\* uses the status, which whoever calls it has checked, and words for the evidence.
Job == [op : {"advance", "decide", "finalize", "watchdog", "chaos"}, turn : TurnIds,
        stage : Stages, at : {"read", "check", "write"}, seen : TurnRow, draft : TurnRow,
        input : Change, listed : Seq(TurnIds)]

TypeOK ==
    /\ turns \in [TurnIds -> TurnRow]
    /\ stale \in SUBSET TurnIds
    /\ log \in [TurnIds -> SUBSET Artifacts]
    /\ job \in [Procs -> Job \cup {NoJob}]
    /\ crashes \in Nat

ASSUME TurnAssumption ==
    /\ NoJob \notin Job
    /\ IsFiniteSet(TurnIds)
    /\ Advances \subseteq {c \in Change : ~c.decided /\ ~c.auto_fail}
    /\ BatchLimit \in Nat \ {0}
    /\ MaxCrashes \in Nat

\* A column left as it is differs from every value a column may have.
ASSUME KeepAssumption ==
    Keep \notin Statuses /\ Keep \notin PhaseStatuses /\ Keep \notin 0..6 /\ Keep \notin BOOLEAN

-----------------------------------------------------------------------------
(* What a handler does next *)

\* Variant: the turn goes to execute before its decision is stored.
NextStageExecutesFirst ==
    [apply |-> "end",
     propose |-> "critique", critique |-> "merge", merge |-> "execute",
     execute |-> "decision", decision |-> "end",
     verify |-> "result", result |-> "verdict", verdict |-> "finish", finish |-> "end",
     seed |-> "evidence", evidence |-> "fail", fail |-> "message", message |-> "end"]

NextStage ==
    [apply |-> "end",
     propose |-> "critique", critique |-> "merge", merge |-> "decision",
     decision |-> "execute", execute |-> "end",
     verify |-> "result", result |-> "verdict", verdict |-> "finish", finish |-> "end",
     seed |-> "evidence", evidence |-> "fail", fail |-> "message", message |-> "end"]

\* The stages that append an artifact or a message, and what they append.
Appends(j) ==
    CASE j.stage = "decision" -> {"decision"}
      [] j.stage = "result" -> {"verifier_result"}
      [] j.stage = "evidence" ->
            {IF j.op = "watchdog" THEN "watchdog_timeout" ELSE "chaos_fault"}
      [] j.stage = "message" -> {"message"}
      [] OTHER -> {}

\* The stages orchestrateDecision and orchestrateVerifyFinalize leave out, by the phase
\* they read.
Unneeded(j) ==
    \/ j.stage = "propose" /\ j.seen.phase \notin {Plan, Propose}
    \/ j.stage = "critique" /\ j.seen.phase # Critique
    \/ j.stage = "merge" /\ j.seen.phase = Merge
    \/ j.stage = "verify" /\ j.seen.phase = Verify

To(status, phase, phase_status, skip) ==
    [status |-> status, phase |-> phase, phase_status |-> phase_status, skip |-> skip,
     decided |-> FALSE, summary |-> Keep, auto_fail |-> FALSE]

\* The changes a stage may make; critique depends on whether critiques were recorded.
\* verify_finalize carries its verdict in input.status.
Changes(j) ==
    LET skip == j.input.skip
        rejected == j.input.status = "failed" IN
    CASE j.stage = "apply" -> {j.input}
      [] j.stage = "propose" -> {To("running", Propose, "completed", skip)}
      [] j.stage = "critique" ->
            {To("running", Critique, ps, skip) : ps \in {"completed", "skipped"}}
      [] j.stage = "merge" -> {To("running", Merge, "running", skip)}
      [] j.stage = "execute" ->
            {[To("running", Execute, "running", skip) EXCEPT !.decided = TRUE]}
      [] j.stage = "verify" -> {To("running", Verify, "running", skip)}
      [] j.stage = "verdict" ->
            {[To("running", Verify, IF rejected THEN "failed" ELSE "completed", skip)
                 EXCEPT !.summary = TRUE]}
      [] j.stage = "finish" ->
            {[To(j.input.status, Summarize, "completed", skip) EXCEPT !.summary = TRUE]}
      [] j.stage = "seed" -> {To("running", Execute, "running", TRUE)}
      [] j.stage = "fail" ->
            {[To("failed", Summarize, "failed", TRUE)
                 EXCEPT !.summary = TRUE, !.auto_fail = TRUE]}
      [] OTHER -> {}

Or(new, old) == IF new = Keep THEN old ELSE new

\* Variant: a column the caller left out is written as it came.
UpdatedNoDefault(r, c) ==
    [r EXCEPT !.status = c.status, !.phase = c.phase, !.phase_status = c.phase_status]

\* Variant: a failed turn is not taken for finished.
UpdatedUnfinished(r, c) ==
    [status |-> Or(c.status, r.status), phase |-> Or(c.phase, r.phase),
     phase_status |-> Or(c.phase_status, r.phase_status),
     finished |-> r.finished, decided |-> r.decided \/ c.decided,
     summary |-> Or(c.summary, r.summary), auto_fail |-> r.auto_fail \/ c.auto_fail]

\* updateTriChatTurn: the row after change c to row r.
Updated(r, c) ==
    LET status == Or(c.status, r.status)
        phase == Or(c.phase, r.phase)
        phase_status == Or(c.phase_status, r.phase_status) IN
    [status |-> status, phase |-> phase, phase_status |-> phase_status,
     finished |-> \/ r.finished
                  \/ status # "running"
                  \/ phase = Summarize /\ phase_status = "completed",
     decided |-> r.decided \/ c.decided,
     summary |-> Or(c.summary, r.summary),
     auto_fail |-> r.auto_fail \/ c.auto_fail]

\* Variant: looks at the status alone.
KeepsStatus(r, c) == Or(c.status, r.status) = r.status

LeavesAsIs(r, c) ==
    /\ Or(c.status, r.status) = r.status
    /\ Or(c.phase, r.phase) = r.phase
    /\ Or(c.phase_status, r.phase_status) = r.phase_status

\* Variant: only the jump ahead is refused.
NoJump(r, c) == c.skip \/ Or(c.phase, r.phase) <= r.phase + 1

MovesForward(r, c) ==
    LET phase == Or(c.phase, r.phase) IN
    phase >= r.phase /\ (c.skip \/ phase <= r.phase + 1)

EndsProperly(r, c) ==
    LET status == Or(c.status, r.status) IN
    /\ status = "completed" => Or(c.phase, r.phase) = Summarize \/ c.skip
    /\ ~(status = "cancelled" /\ Or(c.phase_status, r.phase_status) = "completed")

\* validateTurnAdvance
Valid(r, c) ==
    IF r.status \in Terminal THEN LeavesAsIs(r, c) ELSE MovesForward(r, c) /\ EndsProperly(r, c)

\* The chaos and watchdog handlers do not validate.
Accepted(j, c) == j.op \in {"watchdog", "chaos"} \/ Valid(j.seen, c)

-----------------------------------------------------------------------------
(* Handlers *)

Init ==
    /\ turns = [t \in TurnIds |-> NoTurn]
    /\ stale = {}
    /\ log = [t \in TurnIds |-> {}]
    /\ job = [p \in Procs |-> NoJob]
    /\ crashes = 0

Nothing == To(Keep, Keep, Keep, FALSE)

Enter(p, op, t, stage, at, seen, input, listed) ==
    job' = [job EXCEPT ![p] =
        [op |-> op, turn |-> t, stage |-> stage, at |-> at, seen |-> seen,
         draft |-> NoTurn, input |-> input, listed |-> listed]]

\* A second turn_start for the same user message returns the turn there is.
TurnStart(p, t) ==
    /\ job[p] = NoJob
    /\ turns[t].status = "absent"
    /\ turns' = [turns EXCEPT ![t].status = "running"]
    /\ UNCHANGED <<stale, log, job, crashes>>

TurnAdvance(p, t, c) ==
    /\ job[p] = NoJob
    /\ turns[t].status # "absent"
    /\ Enter(p, "advance", t, "apply", "check", turns[t], c, <<>>)
    /\ UNCHANGED <<turns, stale, log, crashes>>

\* A terminal turn ends these handlers before they change anything.
EnterRunning(p, t, op, stage, at, seen, input) ==
    /\ job[p] = NoJob
    /\ turns[t].status = "running"
    /\ Enter(p, op, t, stage, at, seen, input, <<>>)
    /\ UNCHANGED <<turns, stale, log, crashes>>

\* orchestrateDecision evaluates novelty and critiques, then reads the turn again.
OrchestrateDecision(p, t, skip) ==
    EnterRunning(p, t, "decide", "propose", "read", NoTurn, To(Keep, Keep, Keep, skip))

OrchestrateVerifyFinalize(p, t, skip, verdict) ==
    EnterRunning(p, t, "finalize", "verify", "check", turns[t],
                 To(verdict, Keep, Keep, skip))

\* Variant: turns still in discussion are let be.
CandidatesInExecution == {t \in stale : turns[t].status = "running" /\ turns[t].phase >= Execute}

\* listStaleRunningTriChatTurns, in any order (the code's is by updated_at).
Candidates == {t \in stale : turns[t].status = "running"}

CandidateCount ==
    IF Cardinality(Candidates) < BatchLimit THEN Cardinality(Candidates) ELSE BatchLimit

WatchdogList(p) ==
    /\ job[p] = NoJob
    /\ Candidates # {}
    /\ \E order \in [1..CandidateCount -> Candidates] :
          /\ \A i, j \in 1..CandidateCount : order[i] = order[j] => i = j
          /\ Enter(p, "watchdog", order[1], "evidence", "check", NoTurn, Nothing, Tail(order))
    /\ UNCHANGED <<turns, stale, log, crashes>>

\* trichat.chaos inject_turn_failure
ChaosInject(p, t) == EnterRunning(p, t, "chaos", "evidence", "check", NoTurn, Nothing)

\* trichat.chaos run_once makes a turn of its own, puts it into execute and fails it.
ChaosRunOnce(p, t) ==
    /\ job[p] = NoJob
    /\ turns[t].status = "absent"
    /\ turns' = [turns EXCEPT ![t].status = "running"]
    /\ Enter(p, "chaos", t, "seed", "check", NoTurn, Nothing, <<>>)
    /\ UNCHANGED <<stale, log, crashes>>

-----------------------------------------------------------------------------
(* The statements of a handler *)

\* The job after its current stage: the next stage, the next listed turn, or none.
Proceed(p, at) ==
    LET j == job[p]
        next == NextStage[j.stage] IN
    job' = [job EXCEPT ![p] =
        CASE next # "end" -> [j EXCEPT !.stage = next, !.at = at, !.draft = NoTurn]
          [] next = "end" /\ j.listed # <<>> ->
                [j EXCEPT !.turn = Head(j.listed), !.listed = Tail(j.listed),
                          !.stage = "evidence", !.at = "check", !.draft = NoTurn]
          [] OTHER -> NoJob]

Checking(p) == job[p] # NoJob /\ job[p].at = "check"

LeaveOut(p) ==
    /\ Checking(p)
    /\ Unneeded(job[p])
    /\ Proceed(p, "check")
    /\ UNCHANGED <<turns, stale, log, crashes>>

AppendEvidence(p) ==
    /\ Checking(p)
    /\ Appends(job[p]) # {}
    /\ log' = [log EXCEPT ![job[p].turn] = @ \cup Appends(job[p])]
    /\ Proceed(p, "check")
    /\ UNCHANGED <<turns, stale, crashes>>

\* The row the handler goes by passes validation; updateTriChatTurn reads it afresh.
Check(p) ==
    /\ Checking(p)
    /\ ~Unneeded(job[p])
    /\ \E c \in Changes(job[p]) :
          /\ Accepted(job[p], c)
          /\ job' = [job EXCEPT ![p].at = "write", ![p].seen = NoTurn,
                                ![p].draft = Updated(turns[job[p].turn], c)]
    /\ UNCHANGED <<turns, stale, log, crashes>>

\* validateTurnAdvance throws: the handler ends, what it wrote before stays.
Throw(p) ==
    /\ Checking(p)
    /\ ~Unneeded(job[p])
    /\ \E c \in Changes(job[p]) : ~Accepted(job[p], c)
    /\ job' = [job EXCEPT ![p] = NoJob]
    /\ UNCHANGED <<turns, stale, log, crashes>>

Write(p) ==
    /\ job[p] # NoJob
    /\ job[p].at = "write"
    /\ turns' = [turns EXCEPT ![job[p].turn] = job[p].draft]
    /\ stale' = stale \ {job[p].turn}
    /\ Proceed(p, IF job[p].op = "chaos" \/ job[p].op = "watchdog" THEN "check" ELSE "read")
    /\ UNCHANGED <<log, crashes>>

\* updateTriChatTurn returns the row as it is read back.
ReadBack(p) ==
    /\ job[p] # NoJob
    /\ job[p].at = "read"
    /\ job' = [job EXCEPT ![p].at = "check", ![p].seen = turns[job[p].turn]]
    /\ UNCHANGED <<turns, stale, log, crashes>>

\* The process dies between two statements.
Crash(p) ==
    /\ job[p] # NoJob
    /\ crashes < MaxCrashes
    /\ crashes' = crashes + 1
    /\ job' = [job EXCEPT ![p] = NoJob]
    /\ UNCHANGED <<turns, stale, log>>

\* Nobody updated t for stale_after_seconds.
Age(t) ==
    /\ turns[t].status = "running"
    /\ t \notin stale
    /\ stale' = stale \cup {t}
    /\ UNCHANGED <<turns, log, job, crashes>>

Call(p) ==
    \E t \in TurnIds :
        \/ TurnStart(p, t)
        \/ \E c \in Advances : TurnAdvance(p, t, c)
        \/ \E skip \in BOOLEAN : OrchestrateDecision(p, t, skip)
        \/ \E skip \in BOOLEAN, verdict \in {"completed", "failed"} :
              OrchestrateVerifyFinalize(p, t, skip, verdict)
        \/ ChaosInject(p, t)
        \/ ChaosRunOnce(p, t)

Statement(p) ==
    \/ LeaveOut(p) \/ AppendEvidence(p)
    \/ Check(p) \/ Throw(p) \/ Write(p) \/ ReadBack(p)

Next ==
    \/ \E t \in TurnIds : Age(t)
    \/ \E p \in Procs : Call(p) \/ WatchdogList(p) \/ Statement(p) \/ Crash(p)

Spec == Init /\ [][Next]_vars

\* A handler runs to its end, and the timer of the watchdog, which is enabled and
\* restored after a restart, is served between handlers.
FairSpec == Spec /\ \A p \in Procs : WF_vars(Statement(p)) /\ SF_vars(WatchdogList(p))
-----------------------------------------------------------------------------
(* Properties *)

\* Whatever interleaves, a turn is not marked as failed automatically, and not as
\* decided, before the artifact that documents it is stored: a crash between the two
\* statements leaves evidence without a failure, never a failure without evidence.
EvidenceComesFirst ==
    \A t \in TurnIds :
        /\ turns[t].auto_fail => log[t] \cap {"watchdog_timeout", "chaos_fault"} # {}
        /\ turns[t].decided => "decision" \in log[t]
        /\ turns[t].status \in Terminal => turns[t].finished

\* "Cannot mutate terminal turn": once a turn has ended, neither a late client, nor an
\* orchestration, nor the watchdog moves it.  With one server process.
TerminalIsFinal ==
    [][\A t \in TurnIds : turns[t].status \in Terminal =>
          /\ turns'[t].status = turns[t].status
          /\ turns'[t].phase = turns[t].phase
          /\ turns'[t].phase_status = turns[t].phase_status]_vars

\* "Invalid phase regression": phases only go forward, although orchestration is called
\* in any phase and aborts halfway.  With one server process.
PhasesGoForward ==
    [][\A t \in TurnIds : turns'[t].phase >= turns[t].phase]_vars

\* The checks of evaluateTurnAutoFinalizationInvariants on a turn that failTurnWithEvidence
\* ended: all of them hold of the row it evaluates, the one its own update returned, and all
\* but the summary's hold for good, whatever clients ask for: trichat.chaos verify_turn
\* evaluates them again at any time, and a client may clear the summary of an ended turn.
\* With one server process.
AutoFinalizationInvariants ==
    /\ \A t \in TurnIds : turns[t].auto_fail =>
          /\ turns[t].status \in Terminal
          /\ turns[t].phase = Summarize
          /\ turns[t].phase_status \in {"failed", "completed"}
          /\ turns[t].finished
          /\ log[t] \cap {"watchdog_timeout", "chaos_fault", "verifier_result"} # {}
    /\ \A p \in Procs : job[p] # NoJob /\ job[p].stage = "message" =>
          turns[job[p].turn].auto_fail /\ turns[job[p].turn].summary

\* A stalled turn does not stay running: it is touched again or the watchdog ends it,
\* although a crash may cut the watchdog off and its batch may be full of others.
StalledTurnsEnd ==
    \A t \in TurnIds :
        turns[t].status = "running" /\ t \in stale
            ~> ~(turns[t].status = "running" /\ t \in stale)
=============================================================================
