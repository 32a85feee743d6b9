-------------------------- MODULE TriChatTurnProofs --------------------------
(***************************************************************************)
(* Turns for any number of turns and server processes, interleaved at      *)
(* every statement.                                                        *)
(***************************************************************************)
EXTENDS TriChatTurn, FiniteSetTheorems, TLAPS

Failures == {"watchdog_timeout", "chaos_fault"}

\* The stages that update the row; the others append to the log.
UpdateStages == {"apply", "propose", "critique", "merge", "execute", "verify", "verdict",
                 "finish", "seed", "fail"}

\* The artifacts hold what row r claims, and an ended row has its finished_at.
Backed(r, artifacts) ==
    /\ r.auto_fail => artifacts \cap Failures # {}
    /\ r.decided => "decision" \in artifacts
    /\ r.status \in Terminal => r.finished

\* A process does not reach the stage that claims something before the logs hold it.
JobBacked(j, logs) ==
    /\ j.stage # "end"
    /\ j.at = "write" => j.stage \in UpdateStages
    /\ ~j.input.auto_fail /\ ~j.input.decided
    /\ j.stage \in {"fail", "message"} => logs[j.turn] \cap Failures # {}
    /\ j.stage = "execute" => "decision" \in logs[j.turn]
    /\ Backed(j.draft, logs[j.turn])

TurnInv ==
    /\ TypeOK
    /\ \A t \in TurnIds : Backed(turns[t], log[t])
    /\ \A p \in Procs : job[p] # NoJob => JobBacked(job[p], log)

-----------------------------------------------------------------------------
(* What the operators return *)

\* Every stage but the last has one that follows it.
LEMMA NextStageType ==
    ASSUME NEW s \in Stages, s # "end"
    PROVE  /\ NextStage[s] \in Stages
           /\ NextStage[s] \in {"fail"} <=> s = "evidence"
           /\ NextStage[s] = "message" <=> s = "fail"
           /\ NextStage[s] = "execute" <=> s = "decision"
BY DEF NextStage, Stages

\* The merge of a change into a row is a row.
LEMMA UpdatedType ==
    ASSUME NEW r \in TurnRow, NEW c \in Change
    PROVE  /\ Updated(r, c) \in TurnRow
           /\ Updated(r, c).auto_fail <=> r.auto_fail \/ c.auto_fail
           /\ Updated(r, c).decided <=> r.decided \/ c.decided
           /\ Updated(r, c).status \in Terminal => Updated(r, c).finished
BY DEF Updated, Or, TurnRow, Change, Statuses, PhaseStatuses, Terminal, Summarize

LEMMA ToType ==
    ASSUME NEW status \in (Statuses \ {"absent"}) \cup {Keep}, NEW phase \in 0..6 \cup {Keep},
           NEW ps \in PhaseStatuses \cup {Keep}, NEW skip \in BOOLEAN
    PROVE  /\ To(status, phase, ps, skip) \in Change
           /\ ~To(status, phase, ps, skip).auto_fail
           /\ ~To(status, phase, ps, skip).decided
BY DEF To, Change

\* Setting a claim of a change leaves a change.
LEMMA ClaimType ==
    ASSUME NEW c \in Change
    PROVE  /\ [c EXCEPT !.decided = TRUE] \in Change
           /\ [c EXCEPT !.decided = TRUE].auto_fail = c.auto_fail
           /\ [c EXCEPT !.summary = TRUE] \in Change
           /\ [c EXCEPT !.summary = TRUE].auto_fail = c.auto_fail
           /\ [c EXCEPT !.summary = TRUE].decided = c.decided
           /\ [c EXCEPT !.summary = TRUE, !.auto_fail = TRUE] \in Change
           /\ [c EXCEPT !.summary = TRUE, !.auto_fail = TRUE].decided = c.decided
BY DEF Change

\* Only the stages "fail" and "execute" claim anything.
LEMMA ChangesType ==
    ASSUME NEW j \in Job, ~j.input.auto_fail, ~j.input.decided, NEW c \in Changes(j)
    PROVE  /\ c \in Change
           /\ j.stage \in UpdateStages
           /\ c.auto_fail => j.stage = "fail"
           /\ c.decided => j.stage = "execute"
<1> USE DEF UpdateStages
<1>1. /\ j.stage \in Stages /\ j.input \in Change /\ j.input.skip \in BOOLEAN
      /\ j.input.status \in (Statuses \ {"absent"}) \cup {Keep}
  BY DEF Job, Change
<1>2. /\ {"running", "failed"} \subseteq Statuses \ {"absent"}
      /\ {"running", "failed", "completed", "skipped"} \subseteq PhaseStatuses
      /\ {Propose, Critique, Merge, Execute, Verify, Summarize} \subseteq 0..6
  BY DEF Statuses, Terminal, PhaseStatuses, Propose, Critique, Merge, Execute, Verify, Summarize
<1>3. CASE j.stage = "apply"
  BY <1>1, <1>3 DEF Changes
<1>4. CASE j.stage = "propose"
  <2>1. c = To("running", Propose, "completed", j.input.skip)
    BY <1>4 DEF Changes
  <2>2. QED BY <1>1, <1>2, <1>4, <2>1, ToType
<1>5. CASE j.stage = "critique"
  <2>1. PICK ps \in {"completed", "skipped"} : c = To("running", Critique, ps, j.input.skip)
    BY <1>5 DEF Changes
  <2>2. QED BY <1>1, <1>2, <1>5, <2>1, ToType
<1>6. CASE j.stage = "merge"
  <2>1. c = To("running", Merge, "running", j.input.skip)
    BY <1>6 DEF Changes
  <2>2. QED BY <1>1, <1>2, <1>6, <2>1, ToType
<1>7. CASE j.stage = "execute"
  <2> DEFINE d == To("running", Execute, "running", j.input.skip)
  <2>1. c = [d EXCEPT !.decided = TRUE]
    BY <1>7 DEF Changes
  <2>2. d \in Change /\ ~d.auto_fail
    BY <1>1, <1>2, ToType
  <2> HIDE DEF d
  <2>3. QED BY <1>7, <2>1, <2>2, ClaimType
<1>8. CASE j.stage = "verify"
  <2>1. c = To("running", Verify, "running", j.input.skip)
    BY <1>8 DEF Changes
  <2>2. QED BY <1>1, <1>2, <1>8, <2>1, ToType
<1>9. CASE j.stage = "verdict"
  <2> DEFINE ps == IF j.input.status = "failed" THEN "failed" ELSE "completed"
             d == To("running", Verify, ps, j.input.skip)
  <2>1. c = [d EXCEPT !.summary = TRUE]
    BY <1>9 DEF Changes
  <2>2. ps \in PhaseStatuses
    BY <1>2
  <2> HIDE DEF ps
  <2>3. d \in Change /\ ~d.auto_fail /\ ~d.decided
    BY <1>1, <1>2, <2>2, ToType
  <2> HIDE DEF d
  <2>4. QED BY <1>9, <2>1, <2>3, ClaimType
<1>10. CASE j.stage = "finish"
  <2> DEFINE d == To(j.input.status, Summarize, "completed", j.input.skip)
  <2>1. c = [d EXCEPT !.summary = TRUE]
    BY <1>10 DEF Changes
  <2>2. d \in Change /\ ~d.auto_fail /\ ~d.decided
    BY <1>1, <1>2, ToType
  <2> HIDE DEF d
  <2>3. QED BY <1>10, <2>1, <2>2, ClaimType
<1>11. CASE j.stage = "seed"
  <2>1. c = To("running", Execute, "running", TRUE)
    BY <1>11 DEF Changes
  <2>2. QED BY <1>2, <1>11, <2>1, ToType
<1>12. CASE j.stage = "fail"
  <2> DEFINE d == To("failed", Summarize, "failed", TRUE)
  <2>1. c = [d EXCEPT !.summary = TRUE, !.auto_fail = TRUE]
    BY <1>12 DEF Changes
  <2>2. d \in Change /\ ~d.decided
    BY <1>2, ToType
  <2> HIDE DEF d
  <2>3. QED BY <1>12, <2>1, <2>2, ClaimType
<1>13. CASE j.stage \in {"decision", "result", "evidence", "message", "end"}
  BY <1>13 DEF Changes
<1>14. QED
  BY <1>1, <1>3, <1>4, <1>5, <1>6, <1>7, <1>8, <1>9, <1>10, <1>11, <1>12, <1>13 DEF Stages

-----------------------------------------------------------------------------
(* What the steps do to a job *)

\* A statement replaces its own job, and no log shrinks.
LEMMA OthersStay ==
    ASSUME TurnInv, NEW p \in Procs, NEW j \in Job \cup {NoJob},
           job' = [job EXCEPT ![p] = j], j # NoJob => JobBacked(j, log'),
           \A t \in TurnIds : log[t] \subseteq log'[t]
    PROVE  /\ job' \in [Procs -> Job \cup {NoJob}]
           /\ \A q \in Procs : job'[q] # NoJob => JobBacked(job'[q], log')
<1>1. job' \in [Procs -> Job \cup {NoJob}] /\ job'[p] = j
  BY DEF TurnInv, TypeOK
<1>2. ASSUME NEW q \in Procs, job'[q] # NoJob, q # p PROVE JobBacked(job'[q], log')
  <2>1. job'[q] = job[q] /\ JobBacked(job[q], log) /\ job[q] \in Job
    BY <1>2 DEF TurnInv, TypeOK
  <2>2. job[q].turn \in TurnIds
    BY <2>1 DEF Job
  <2>3. log[job[q].turn] \subseteq log'[job[q].turn]
    BY <2>2
  <2> HIDE DEF TurnInv
  <2>4. QED BY <2>1, <2>3 DEF JobBacked, Backed
<1>3. QED BY <1>1, <1>2

\* NoTurn, which stands for no draft, claims nothing.
LEMMA NoTurnType ==
    NoTurn \in TurnRow /\ \A artifacts : Backed(NoTurn, artifacts)
BY DEF NoTurn, TurnRow, Statuses, PhaseStatuses, Plan, Terminal, Backed

\* A handler's first job: it claims nothing yet.
LEMMA EnterEffect ==
    ASSUME TurnInv, NEW p \in Procs, NEW t \in TurnIds,
           NEW op \in {"advance", "decide", "finalize", "watchdog", "chaos"},
           NEW stage \in {"apply", "propose", "verify", "evidence", "seed"},
           NEW at \in {"read", "check"}, NEW seen \in TurnRow, NEW input \in Change,
           ~input.auto_fail, ~input.decided, NEW listed \in Seq(TurnIds),
           Enter(p, op, t, stage, at, seen, input, listed), log' = log
    PROVE  /\ job' \in [Procs -> Job \cup {NoJob}]
           /\ \A q \in Procs : job'[q] # NoJob => JobBacked(job'[q], log')
<1> DEFINE j == [op |-> op, turn |-> t, stage |-> stage, at |-> at, seen |-> seen,
                 draft |-> NoTurn, input |-> input, listed |-> listed]
<1>1. j \in Job
  BY NoTurnType DEF Job, Stages
<1>2. job' = [job EXCEPT ![p] = j]
  BY DEF Enter
<1>3. JobBacked(j, log')
  BY NoTurnType DEF JobBacked
<1> HIDE DEF j
<1>4. QED BY <1>1, <1>2, <1>3, OthersStay

\* Going on to the next stage, or to the next listed turn.
LEMMA ProceedEffect ==
    ASSUME TurnInv, NEW p \in Procs, job[p] # NoJob, NEW at \in {"read", "check"},
           Proceed(p, at), \A t \in TurnIds : log[t] \subseteq log'[t],
           job[p].stage = "evidence" => log'[job[p].turn] \cap Failures # {},
           job[p].stage = "decision" => "decision" \in log'[job[p].turn]
    PROVE  /\ job' \in [Procs -> Job \cup {NoJob}]
           /\ \A q \in Procs : job'[q] # NoJob => JobBacked(job'[q], log')
<1> DEFINE j == job[p]
           next == NextStage[j.stage]
           onward == [j EXCEPT !.stage = next, !.at = at, !.draft = NoTurn]
           another == [j EXCEPT !.turn = Head(j.listed), !.listed = Tail(j.listed),
                                !.stage = "evidence", !.at = "check", !.draft = NoTurn]
<1>1. /\ j \in Job /\ JobBacked(j, log) /\ j.stage \in Stages /\ j.stage # "end"
      /\ j.turn \in TurnIds /\ j.listed \in Seq(TurnIds)
  BY DEF TurnInv, TypeOK, Job, JobBacked
<1>2. /\ next \in Stages
      /\ next = "fail" <=> j.stage = "evidence"
      /\ next = "message" <=> j.stage = "fail"
      /\ next = "execute" <=> j.stage = "decision"
  BY <1>1, NextStageType
<1>3. log[j.turn] \subseteq log'[j.turn]
  BY <1>1
<1> HIDE DEF next
<1>4. CASE next # "end"
  <2>1. job' = [job EXCEPT ![p] = onward]
    BY <1>4 DEF Proceed, next
  <2>2. onward \in Job
    BY <1>1, <1>2, NoTurnType DEF Job
  <2>3. /\ onward.stage = next /\ onward.at = at /\ onward.draft = NoTurn
        /\ onward.input = j.input /\ onward.turn = j.turn
    BY <1>1 DEF Job
  <2> HIDE DEF onward
  <2>4. JobBacked(onward, log')
    BY <1>1, <1>2, <1>3, <1>4, <2>3, NoTurnType DEF JobBacked
  <2>5. QED BY <2>1, <2>2, <2>4, OthersStay
<1>5. CASE next = "end" /\ j.listed # <<>>
  <2>1. job' = [job EXCEPT ![p] = another]
    BY <1>5 DEF Proceed, next
  <2>2. Head(j.listed) \in TurnIds /\ Tail(j.listed) \in Seq(TurnIds)
    BY <1>1, <1>5
  <2>3. another \in Job
    BY <1>1, <2>2, NoTurnType DEF Job, Stages
  <2>4. /\ another.stage = "evidence" /\ another.at = "check" /\ another.draft = NoTurn
        /\ another.input = j.input
    BY <1>1 DEF Job
  <2> HIDE DEF another
  <2>5. JobBacked(another, log')
    BY <1>1, <2>4, NoTurnType DEF JobBacked
  <2>6. QED BY <2>1, <2>3, <2>5, OthersStay
<1>6. CASE next = "end" /\ j.listed = <<>>
  <2>1. job' = [job EXCEPT ![p] = NoJob]
    BY <1>6 DEF Proceed, next
  <2>2. QED BY <2>1, OthersStay
<1>7. QED BY <1>4, <1>5, <1>6

-----------------------------------------------------------------------------
(* Every step keeps the invariant *)

LEMMA InitTurnInv == Init => TurnInv
BY NoTurnType DEF Init, TurnInv, TypeOK

\* A change a client may ask for.
LEMMA AdvanceType ==
    ASSUME NEW c \in Advances
    PROVE  c \in Change /\ ~c.auto_fail /\ ~c.decided
BY TurnAssumption DEF TurnAssumption

\* The inputs of the handlers that take no change.
LEMMA InputType ==
    ASSUME NEW skip \in BOOLEAN, NEW verdict \in {"completed", "failed"}
    PROVE  /\ To(Keep, Keep, Keep, skip) \in Change
           /\ ~To(Keep, Keep, Keep, skip).auto_fail /\ ~To(Keep, Keep, Keep, skip).decided
           /\ To(verdict, Keep, Keep, skip) \in Change
           /\ ~To(verdict, Keep, Keep, skip).auto_fail
           /\ ~To(verdict, Keep, Keep, skip).decided
BY ToType DEF Statuses, Terminal

\* A turn that starts claims nothing.
LEMMA StartEffect ==
    ASSUME TurnInv, NEW t \in TurnIds, turns[t].status = "absent",
           turns' = [turns EXCEPT ![t].status = "running"], log' = log
    PROVE  /\ turns' \in [TurnIds -> TurnRow]
           /\ \A u \in TurnIds : Backed(turns'[u], log'[u])
<1> DEFINE r == [turns[t] EXCEPT !.status = "running"]
<1>1. turns' = [turns EXCEPT ![t] = r]
  OBVIOUS
<1>2. turns[t] \in TurnRow /\ Backed(turns[t], log[t])
  BY DEF TurnInv, TypeOK
<1>3. r \in TurnRow /\ Backed(r, log[t])
  BY <1>2 DEF TurnRow, Statuses, Terminal, Backed
<1> HIDE DEF r
<1>4. QED BY <1>1, <1>3 DEF TurnInv, TypeOK

LEMMA CallKeepsInv ==
    ASSUME TurnInv, NEW p \in Procs, Call(p)
    PROVE  TurnInv'
<1>1. PICK t \in TurnIds :
        \/ TurnStart(p, t)
        \/ \E c \in Advances : TurnAdvance(p, t, c)
        \/ \E skip \in BOOLEAN : OrchestrateDecision(p, t, skip)
        \/ \E skip \in BOOLEAN, verdict \in {"completed", "failed"} :
              OrchestrateVerifyFinalize(p, t, skip, verdict)
        \/ ChaosInject(p, t)
        \/ ChaosRunOnce(p, t)
  BY DEF Call
<1>2. turns[t] \in TurnRow
  BY DEF TurnInv, TypeOK
<1>3. ASSUME UNCHANGED <<turns, stale, log, crashes>>,
             job' \in [Procs -> Job \cup {NoJob}],
             \A q \in Procs : job'[q] # NoJob => JobBacked(job'[q], log')
      PROVE  TurnInv'
  BY <1>3 DEF TurnInv, TypeOK
<1>4. CASE TurnStart(p, t)
  <2>1. UNCHANGED <<stale, log, job, crashes>>
    BY <1>4 DEF TurnStart
  <2>2. /\ turns' \in [TurnIds -> TurnRow]
        /\ \A u \in TurnIds : Backed(turns'[u], log'[u])
    BY <1>4, StartEffect DEF TurnStart
  <2>3. QED BY <2>1, <2>2 DEF TurnInv, TypeOK
<1>5. ASSUME NEW c \in Advances, TurnAdvance(p, t, c) PROVE TurnInv'
  <2>1. Enter(p, "advance", t, "apply", "check", turns[t], c, <<>>)
        /\ UNCHANGED <<turns, stale, log, crashes>>
    BY <1>5 DEF TurnAdvance
  <2>2. <<>> \in Seq(TurnIds)
    OBVIOUS
  <2>3. QED BY <1>2, <1>3, <2>1, <2>2, AdvanceType, EnterEffect
<1>6. ASSUME NEW skip \in BOOLEAN, OrchestrateDecision(p, t, skip) PROVE TurnInv'
  <2>1. Enter(p, "decide", t, "propose", "read", NoTurn, To(Keep, Keep, Keep, skip), <<>>)
        /\ UNCHANGED <<turns, stale, log, crashes>>
    BY <1>6 DEF OrchestrateDecision, EnterRunning
  <2>2. <<>> \in Seq(TurnIds)
    OBVIOUS
  <2>3. QED BY <1>3, <2>1, <2>2, NoTurnType, InputType, EnterEffect
<1>7. ASSUME NEW skip \in BOOLEAN, NEW verdict \in {"completed", "failed"},
             OrchestrateVerifyFinalize(p, t, skip, verdict)
      PROVE  TurnInv'
  <2>1. Enter(p, "finalize", t, "verify", "check", turns[t], To(verdict, Keep, Keep, skip), <<>>)
        /\ UNCHANGED <<turns, stale, log, crashes>>
    BY <1>7 DEF OrchestrateVerifyFinalize, EnterRunning
  <2>2. <<>> \in Seq(TurnIds)
    OBVIOUS
  <2>3. QED BY <1>2, <1>3, <2>1, <2>2, InputType, EnterEffect
<1>8. CASE ChaosInject(p, t)
  <2>1. Enter(p, "chaos", t, "evidence", "check", NoTurn, To(Keep, Keep, Keep, FALSE), <<>>)
        /\ UNCHANGED <<turns, stale, log, crashes>>
    BY <1>8 DEF ChaosInject, EnterRunning, Nothing
  <2>2. <<>> \in Seq(TurnIds)
    OBVIOUS
  <2>3. QED BY <1>3, <2>1, <2>2, NoTurnType, InputType, EnterEffect
<1>9. CASE ChaosRunOnce(p, t)
  <2>1. Enter(p, "chaos", t, "seed", "check", NoTurn, To(Keep, Keep, Keep, FALSE), <<>>)
        /\ UNCHANGED <<stale, log, crashes>>
    BY <1>9 DEF ChaosRunOnce, Nothing
  <2>2. <<>> \in Seq(TurnIds)
    OBVIOUS
  <2>3. /\ job' \in [Procs -> Job \cup {NoJob}]
        /\ \A q \in Procs : job'[q] # NoJob => JobBacked(job'[q], log')
    BY <2>1, <2>2, NoTurnType, InputType, EnterEffect
  <2>4. /\ turns' \in [TurnIds -> TurnRow]
        /\ \A u \in TurnIds : Backed(turns'[u], log'[u])
    BY <1>9, <2>1, StartEffect DEF ChaosRunOnce
  <2>5. QED BY <2>1, <2>3, <2>4 DEF TurnInv, TypeOK
<1>10. QED BY <1>1, <1>4, <1>5, <1>6, <1>7, <1>8, <1>9

\* A tick that finds candidates lists at least one of them.
LEMMA WatchdogKeepsInv ==
    ASSUME TurnInv, NEW p \in Procs, WatchdogList(p)
    PROVE  TurnInv'
<1>1. PICK order \in [1..CandidateCount -> Candidates] :
        Enter(p, "watchdog", order[1], "evidence", "check", NoTurn, Nothing, Tail(order))
  BY DEF WatchdogList
<1>2. CandidateCount \in Nat \ {0}
  <2>1. Candidates \subseteq TurnIds
    BY DEF Candidates, TurnInv, TypeOK
  <2>2. IsFiniteSet(Candidates)
    BY <2>1, TurnAssumption, FS_Subset DEF TurnAssumption
  <2>3. Cardinality(Candidates) \in Nat \ {0}
    BY <2>2, FS_CardinalityType, FS_EmptySet DEF WatchdogList
  <2>4. QED BY <2>3, TurnAssumption DEF CandidateCount, TurnAssumption
<1>3. order \in [1..CandidateCount -> TurnIds]
  BY <1>2 DEF Candidates, TurnInv, TypeOK
<1>4. order[1] \in TurnIds /\ Tail(order) \in Seq(TurnIds)
  <2>1. order \in Seq(TurnIds) /\ order # <<>>
    BY <1>2, <1>3
  <2>2. QED BY <1>2, <1>3, <2>1
<1>5. Nothing \in Change /\ ~Nothing.auto_fail /\ ~Nothing.decided
  BY InputType DEF Nothing
<1>6. UNCHANGED <<turns, stale, log, crashes>>
  BY DEF WatchdogList
<1>7. /\ job' \in [Procs -> Job \cup {NoJob}]
      /\ \A q \in Procs : job'[q] # NoJob => JobBacked(job'[q], log')
  BY <1>1, <1>4, <1>5, <1>6, NoTurnType, EnterEffect
<1>8. QED BY <1>6, <1>7 DEF TurnInv, TypeOK

LEMMA AppendKeepsInv ==
    ASSUME TurnInv, NEW p \in Procs, AppendEvidence(p)
    PROVE  TurnInv'
<1> DEFINE j == job[p]
<1>1. /\ job[p] # NoJob /\ j \in Job /\ j.turn \in TurnIds
      /\ UNCHANGED <<turns, stale, crashes>> /\ Proceed(p, "check")
      /\ log' = [log EXCEPT ![j.turn] = log[j.turn] \cup Appends(j)]
  BY DEF AppendEvidence, Checking, TurnInv, TypeOK, Job
<1>2. /\ Appends(j) \subseteq Artifacts
      /\ j.stage = "evidence" => Appends(j) \cap Failures # {}
      /\ j.stage = "decision" => "decision" \in Appends(j)
  BY DEF Appends, Artifacts, Failures, AppendEvidence
<1> HIDE DEF j
<1>3. /\ log' \in [TurnIds -> SUBSET Artifacts]
      /\ \A t \in TurnIds : log[t] \subseteq log'[t]
      /\ Appends(j) \subseteq log'[j.turn]
  BY <1>1, <1>2 DEF TurnInv, TypeOK
<1>4. /\ job' \in [Procs -> Job \cup {NoJob}]
      /\ \A q \in Procs : job'[q] # NoJob => JobBacked(job'[q], log')
  BY <1>1, <1>2, <1>3, ProceedEffect DEF j
<1>5. \A t \in TurnIds : Backed(turns'[t], log'[t])
  BY <1>1, <1>3 DEF TurnInv, Backed
<1>6. QED BY <1>1, <1>3, <1>4, <1>5 DEF TurnInv, TypeOK

LEMMA WriteKeepsInv ==
    ASSUME TurnInv, NEW p \in Procs, Write(p)
    PROVE  TurnInv'
<1> DEFINE j == job[p]
<1>1. /\ job[p] # NoJob /\ j \in Job /\ JobBacked(j, log) /\ j.at = "write"
      /\ turns' = [turns EXCEPT ![j.turn] = j.draft]
      /\ stale' = stale \ {j.turn}
      /\ UNCHANGED <<log, crashes>>
  BY DEF Write, TurnInv, TypeOK
<1>2. j.turn \in TurnIds /\ j.draft \in TurnRow
  BY <1>1 DEF Job
<1>3. j.stage \in UpdateStages /\ Backed(j.draft, log[j.turn])
  BY <1>1 DEF JobBacked
<1>4. PICK at \in {"read", "check"} : Proceed(p, at)
  BY DEF Write
<1>5. /\ job' \in [Procs -> Job \cup {NoJob}]
      /\ \A q \in Procs : job'[q] # NoJob => JobBacked(job'[q], log')
  <2>1. j.stage \notin {"evidence", "decision"}
    BY <1>3 DEF UpdateStages
  <2>2. \A t \in TurnIds : log[t] \subseteq log'[t]
    BY <1>1
  <2>3. QED BY <1>1, <1>4, <2>1, <2>2, ProceedEffect
<1> HIDE DEF j
<1>6. turns' \in [TurnIds -> TurnRow]
  BY <1>1, <1>2 DEF TurnInv, TypeOK
<1>7. \A t \in TurnIds : Backed(turns'[t], log'[t])
  BY <1>1, <1>2, <1>3 DEF TurnInv, TypeOK
<1>8. QED BY <1>1, <1>5, <1>6, <1>7 DEF TurnInv, TypeOK

LEMMA CheckKeepsInv ==
    ASSUME TurnInv, NEW p \in Procs, Check(p)
    PROVE  TurnInv'
<1> DEFINE j == job[p]
<1>1. /\ job[p] # NoJob /\ j \in Job /\ JobBacked(j, log)
      /\ UNCHANGED <<turns, stale, log, crashes>>
  BY DEF Check, Checking, TurnInv, TypeOK
<1>2. PICK c \in Changes(j) :
        job' = [job EXCEPT ![p].at = "write", ![p].seen = NoTurn,
                           ![p].draft = Updated(turns[j.turn], c)]
  BY DEF Check
<1> DEFINE r == turns[j.turn]
           d == Updated(r, c)
           new == [j EXCEPT !.at = "write", !.seen = NoTurn, !.draft = d]
<1>3. j.turn \in TurnIds /\ ~j.input.auto_fail /\ ~j.input.decided
  BY <1>1 DEF Job, JobBacked
<1>4. /\ c \in Change /\ j.stage \in UpdateStages
      /\ c.auto_fail => j.stage = "fail"
      /\ c.decided => j.stage = "execute"
  BY <1>1, <1>3, ChangesType
<1>5. r \in TurnRow /\ Backed(r, log[j.turn])
  BY <1>3 DEF TurnInv, TypeOK
<1> HIDE DEF r
<1>6. /\ d \in TurnRow
      /\ d.auto_fail <=> r.auto_fail \/ c.auto_fail
      /\ d.decided <=> r.decided \/ c.decided
      /\ d.status \in Terminal => d.finished
  BY <1>4, <1>5, UpdatedType
<1>7. job' = [job EXCEPT ![p] = new]
  BY <1>2 DEF r, TurnInv, TypeOK
<1> HIDE DEF d
<1>8. Backed(d, log[j.turn])
  BY <1>1, <1>4, <1>5, <1>6 DEF Backed, JobBacked
<1>9. /\ new \in Job
      /\ new.stage = j.stage /\ new.input = j.input /\ new.turn = j.turn /\ new.draft = d
  BY <1>1, <1>6, NoTurnType DEF Job
<1> HIDE DEF new
<1>10. JobBacked(new, log')
  BY <1>1, <1>4, <1>8, <1>9 DEF JobBacked
<1>11. /\ job' \in [Procs -> Job \cup {NoJob}]
       /\ \A q \in Procs : job'[q] # NoJob => JobBacked(job'[q], log')
  <2>1. \A t \in TurnIds : log[t] \subseteq log'[t]
    BY <1>1
  <2>2. QED BY <1>7, <1>9, <1>10, <2>1, OthersStay
<1>12. QED BY <1>1, <1>11 DEF TurnInv, TypeOK

LEMMA ReadBackKeepsInv ==
    ASSUME TurnInv, NEW p \in Procs, ReadBack(p)
    PROVE  TurnInv'
<1> DEFINE j == job[p]
           new == [j EXCEPT !.at = "check", !.seen = turns[j.turn]]
<1>1. /\ job[p] # NoJob /\ j \in Job /\ JobBacked(j, log) /\ j.turn \in TurnIds
      /\ UNCHANGED <<turns, stale, log, crashes>>
  BY DEF ReadBack, TurnInv, TypeOK, Job
<1>2. job' = [job EXCEPT ![p] = new]
  BY DEF ReadBack, TurnInv, TypeOK
<1>3. turns[j.turn] \in TurnRow
  BY <1>1 DEF TurnInv, TypeOK
<1>4. /\ new \in Job /\ new.at = "check" /\ new.draft = j.draft
      /\ new.stage = j.stage /\ new.input = j.input /\ new.turn = j.turn
  BY <1>1, <1>3 DEF Job
<1> HIDE DEF new
<1>5. JobBacked(new, log')
  BY <1>1, <1>4 DEF JobBacked
<1>6. /\ job' \in [Procs -> Job \cup {NoJob}]
      /\ \A q \in Procs : job'[q] # NoJob => JobBacked(job'[q], log')
  <2>1. \A t \in TurnIds : log[t] \subseteq log'[t]
    BY <1>1
  <2>2. QED BY <1>2, <1>4, <1>5, <2>1, OthersStay
<1>7. QED BY <1>1, <1>6 DEF TurnInv, TypeOK

\* A handler that leaves out an update goes on; one that throws or dies is gone.
LEMMA LeaveKeepsInv ==
    ASSUME TurnInv, NEW p \in Procs, LeaveOut(p) \/ Throw(p) \/ Crash(p)
    PROVE  TurnInv'
<1>1. UNCHANGED <<turns, stale, log>> /\ crashes' \in Nat /\ job[p] # NoJob
  BY DEF LeaveOut, Throw, Crash, Checking, TurnInv, TypeOK
<1>2. \A t \in TurnIds : log[t] \subseteq log'[t]
  BY <1>1
<1>3. CASE LeaveOut(p)
  <2>1. job[p].stage \notin {"evidence", "decision"} /\ Proceed(p, "check")
    BY <1>3 DEF LeaveOut, Unneeded
  <2>2. /\ job' \in [Procs -> Job \cup {NoJob}]
        /\ \A q \in Procs : job'[q] # NoJob => JobBacked(job'[q], log')
    BY <1>1, <1>2, <2>1, ProceedEffect
  <2>3. QED BY <1>1, <2>2 DEF TurnInv, TypeOK
<1>4. CASE Throw(p) \/ Crash(p)
  <2>1. job' = [job EXCEPT ![p] = NoJob]
    BY <1>4 DEF Throw, Crash
  <2>2. /\ job' \in [Procs -> Job \cup {NoJob}]
        /\ \A q \in Procs : job'[q] # NoJob => JobBacked(job'[q], log')
    BY <1>2, <2>1, OthersStay
  <2>3. QED BY <1>1, <2>2 DEF TurnInv, TypeOK
<1>5. QED BY <1>3, <1>4

LEMMA StepTurnInv == TurnInv /\ [Next]_vars => TurnInv'
<1> SUFFICES ASSUME TurnInv, [Next]_vars PROVE TurnInv'
  OBVIOUS
<1>1. ASSUME NEW t \in TurnIds, Age(t) PROVE TurnInv'
  BY <1>1 DEF Age, TurnInv, TypeOK
<1>2. ASSUME NEW p \in Procs, Statement(p) PROVE TurnInv'
  BY <1>2, LeaveKeepsInv, AppendKeepsInv, CheckKeepsInv, WriteKeepsInv, ReadBackKeepsInv
  DEF Statement
<1>3. CASE UNCHANGED vars
  BY <1>3 DEF vars, TurnInv, TypeOK
<1>4. QED
  BY <1>1, <1>2, <1>3, CallKeepsInv, WatchdogKeepsInv, LeaveKeepsInv DEF Next

LEMMA TurnInvHolds == Spec => []TurnInv
BY InitTurnInv, StepTurnInv, PTL DEF Spec

\* Every reachable state of the turns is well typed.
THEOREM TurnTypeCorrect == Spec => []TypeOK
<1>1. TurnInv => TypeOK
  BY DEF TurnInv
<1>2. QED BY <1>1, TurnInvHolds, PTL

\* For any turns and any number of processes interleaved at every statement, with
\* crashes anywhere: a turn is neither decided nor failed automatically before the
\* artifact that documents it is stored, and an ended turn has its finished_at.
THEOREM EvidenceFirst == Spec => []EvidenceComesFirst
<1>1. TurnInv => EvidenceComesFirst
  BY DEF TurnInv, Backed, EvidenceComesFirst, Failures
<1>2. QED BY <1>1, TurnInvHolds, PTL

-----------------------------------------------------------------------------
(* One server process: nothing comes between what a handler checks and what  *)
(* it writes, except that it dies.                                           *)

\* The handlers that end a turn without validation, and their stages.
Failing == {"watchdog", "chaos"}
FailingStages == {"seed", "evidence", "fail", "message"}

\* What evaluateTurnAutoFinalizationInvariants asks of a row, but for the summary, which a
\* client may clear later.
EndedForGood(r) ==
    /\ r.status \in Terminal /\ r.phase = Summarize
    /\ r.phase_status \in {"failed", "completed"}
    /\ r.finished

\* Row d may come after row r.
Follows(r, d) ==
    /\ d.status # "absent"
    /\ r.status \in Terminal =>
          d.status = r.status /\ d.phase = r.phase /\ d.phase_status = r.phase_status
    /\ d.phase >= r.phase
    /\ d.auto_fail => EndedForGood(d)

\* The turns a watchdog has yet to fail are different ones.
Distinct(j) ==
    \A i \in DOMAIN j.listed :
        /\ j.listed[i] # j.turn
        /\ \A k \in DOMAIN j.listed : j.listed[i] = j.listed[k] => i = k

\* Handler j and the rows agree: a validating handler has seen the row as it is, one that
\* fails turns has running ones before it, and a draft may follow its row.
Stands(j, rows) ==
    LET r == rows[j.turn] IN
    /\ r.status # "absent"
    /\ j.op \in Failing =>
          /\ j.at # "read"
          /\ j.stage \in FailingStages
          /\ j.stage = "seed" => r.status = "running" /\ r.phase = Plan /\ ~r.auto_fail
          /\ j.stage \in {"evidence", "fail"} => r.status = "running"
          /\ j.stage = "message" => r.auto_fail /\ r.summary
          /\ \A i \in DOMAIN j.listed : rows[j.listed[i]].status = "running"
          /\ Distinct(j)
    /\ j.op \notin Failing =>
          /\ j.stage \notin FailingStages
          /\ j.listed = <<>>
          /\ j.at = "check" => j.seen = r
    /\ j.at = "write" =>
          /\ Follows(r, j.draft)
          /\ j.stage = "seed" => j.draft.status = "running"
          /\ j.stage = "fail" => j.draft.auto_fail /\ j.draft.summary

RowsEndWell ==
    \A t \in TurnIds :
        /\ turns[t].auto_fail => EndedForGood(turns[t])
        /\ turns[t].status = "absent" => turns[t].phase = Plan /\ ~turns[t].auto_fail

AloneInv(p) ==
    /\ TurnInv
    /\ RowsEndWell
    /\ job[p] # NoJob => Stands(job[p], turns)

\* A change that validation accepts of the row as it is.
LEMMA ValidFollows ==
    ASSUME NEW r \in TurnRow, r.status # "absent", r.auto_fail => EndedForGood(r),
           NEW c \in Change, ~c.auto_fail, Valid(r, c)
    PROVE  Follows(r, Updated(r, c))
<1> DEFINE d == Updated(r, c)
<1>1. /\ d.status = Or(c.status, r.status) /\ d.phase = Or(c.phase, r.phase)
      /\ d.phase_status = Or(c.phase_status, r.phase_status)
      /\ d.finished <=> \/ r.finished \/ d.status # "running"
                        \/ d.phase = Summarize /\ d.phase_status = "completed"
      /\ d.auto_fail <=> r.auto_fail
  BY DEF Updated
<1> HIDE DEF d
<1>2. d.status # "absent"
  BY <1>1 DEF Or, Change
<1>3. CASE r.status \in Terminal
  <2>1. d.status = r.status /\ d.phase = r.phase /\ d.phase_status = r.phase_status
    BY <1>1, <1>3 DEF Valid, LeavesAsIs
  <2>2. r.phase \in 0..6
    BY DEF TurnRow
  <2>3. QED BY <1>1, <1>2, <2>1, <2>2 DEF Follows, EndedForGood, d
<1>4. CASE r.status \notin Terminal
  <2>1. d.phase >= r.phase
    BY <1>1, <1>4 DEF Valid, MovesForward
  <2>2. ~d.auto_fail
    BY <1>1, <1>4 DEF EndedForGood
  <2>3. QED BY <1>2, <1>4, <2>1, <2>2 DEF Follows, d
<1>5. QED BY <1>3, <1>4

\* failTurnWithEvidence on a running turn, and the seed of a fault injection.
LEMMA FailFollows ==
    ASSUME NEW r \in TurnRow, r.status = "running", NEW j \in Job, NEW c \in Changes(j),
           \/ j.stage = "fail"
           \/ j.stage = "seed" /\ r.phase = Plan /\ ~r.auto_fail
    PROVE  /\ Follows(r, Updated(r, c))
           /\ j.stage = "seed" => Updated(r, c).status = "running"
           /\ j.stage = "fail" => Updated(r, c).auto_fail /\ Updated(r, c).summary
<1> DEFINE d == Updated(r, c)
<1>1. r.phase \in 0..6 /\ r.status \notin Terminal
  BY DEF TurnRow, Terminal
<1>2. /\ {"running", "failed"} \subseteq Statuses /\ {"running", "failed"} \subseteq PhaseStatuses
      /\ Summarize \in 0..6 /\ Execute \in 0..6
  BY DEF Statuses, PhaseStatuses, Terminal, Summarize, Execute
<1>3. Keep \notin {"running", "failed"} /\ Keep # Summarize /\ Keep # Execute /\ Keep # TRUE
  BY <1>2, KeepAssumption DEF KeepAssumption
<1>4. CASE j.stage = "fail"
  <2>1. c = [To("failed", Summarize, "failed", TRUE) EXCEPT !.summary = TRUE, !.auto_fail = TRUE]
    BY <1>4 DEF Changes
  <2>2. c.status = "failed" /\ c.phase = Summarize /\ c.phase_status = "failed"
        /\ c.summary = TRUE /\ c.auto_fail
    BY <2>1 DEF To
  <2>3. d.status = "failed" /\ d.phase = Summarize /\ d.phase_status = "failed"
        /\ d.finished /\ d.summary /\ d.auto_fail
    BY <1>3, <2>2 DEF Updated, Or
  <2> HIDE DEF d
  <2>4. EndedForGood(d)
    BY <2>3 DEF EndedForGood, Terminal
  <2>5. d.phase >= r.phase
    BY <1>1, <2>3 DEF Summarize
  <2>6. QED BY <1>1, <1>4, <2>3, <2>4, <2>5 DEF Follows, d
<1>5. CASE j.stage = "seed" /\ r.phase = Plan /\ ~r.auto_fail
  <2>1. c = To("running", Execute, "running", TRUE)
    BY <1>5 DEF Changes
  <2>2. c.status = "running" /\ c.phase = Execute /\ c.phase_status = "running" /\ ~c.auto_fail
    BY <2>1 DEF To
  <2>3. d.status = "running" /\ d.phase = Execute /\ ~d.auto_fail
    BY <1>3, <1>5, <2>2 DEF Updated, Or
  <2> HIDE DEF d
  <2>4. d.phase >= r.phase
    BY <1>5, <2>3 DEF Plan, Execute
  <2>5. QED BY <1>1, <1>5, <2>3, <2>4 DEF Follows, d
<1>6. QED BY <1>4, <1>5

\* The stages of the two kinds of handlers do not mix.
LEMMA StagesApart ==
    ASSUME NEW s \in Stages, s # "end"
    PROVE  /\ s \in FailingStages => NextStage[s] \in (FailingStages \ {"seed"}) \cup {"end"}
           /\ s \notin FailingStages => NextStage[s] \notin FailingStages
           /\ NextStage[s] = "evidence" => s = "seed"
           /\ NextStage[s] = "fail" => s = "evidence"
           /\ NextStage[s] = "message" => s = "fail"
BY DEF NextStage, Stages, FailingStages

\* Going on to the next stage or the next listed turn.
LEMMA ProceedStands ==
    ASSUME TurnInv, NEW p \in Procs, job[p] # NoJob, NEW at \in {"read", "check"},
           Proceed(p, at), Stands(job[p], turns), NEW rows, rows[job[p].turn].status # "absent",
           job[p].op \in Failing =>
               /\ at = "check"
               /\ job[p].stage = "fail" => rows[job[p].turn].auto_fail /\ rows[job[p].turn].summary
               /\ job[p].stage \in {"seed", "evidence"} => rows[job[p].turn].status = "running"
               /\ \A i \in DOMAIN job[p].listed : rows[job[p].listed[i]].status = "running",
           job[p].op \notin Failing /\ at = "check" => job[p].seen = rows[job[p].turn]
    PROVE  job'[p] # NoJob => Stands(job'[p], rows)
<1> DEFINE j == job[p]
           next == NextStage[j.stage]
           onward == [j EXCEPT !.stage = next, !.at = at, !.draft = NoTurn]
           another == [j EXCEPT !.turn = Head(j.listed), !.listed = Tail(j.listed),
                                !.stage = "evidence", !.at = "check", !.draft = NoTurn]
<1>1. /\ j \in Job /\ j.stage \in Stages /\ j.stage # "end" /\ j.listed \in Seq(TurnIds)
      /\ job \in [Procs -> Job \cup {NoJob}]
  BY DEF TurnInv, TypeOK, Job, JobBacked
<1>2. /\ j.stage \in FailingStages => next \in (FailingStages \ {"seed"}) \cup {"end"}
      /\ j.stage \notin FailingStages => next \notin FailingStages
      /\ next = "evidence" => j.stage = "seed"
      /\ next = "fail" => j.stage = "evidence"
      /\ next = "message" => j.stage = "fail"
  BY <1>1, StagesApart
<1> HIDE DEF next
<1>3. CASE next # "end"
  <2>1. job'[p] = onward
    BY <1>1, <1>3 DEF Proceed, next
  <2>2. /\ onward.stage = next /\ onward.at = at /\ onward.op = j.op /\ onward.turn = j.turn
        /\ onward.listed = j.listed /\ onward.seen = j.seen
    BY <1>1 DEF Job
  <2> HIDE DEF onward
  <2>3. onward.op \in Failing => onward.stage \in FailingStages \ {"seed"}
    BY <1>2, <1>3, <2>2 DEF Stands
  <2>4. onward.op \in Failing => Distinct(onward)
    BY <2>2 DEF Stands, Distinct
  <2>5. onward.op \notin Failing => onward.stage \notin FailingStages /\ onward.listed = <<>>
    BY <1>2, <2>2 DEF Stands
  <2>6. /\ onward.stage \in {"evidence", "fail"} => j.stage \in {"seed", "evidence"}
        /\ onward.stage = "message" => j.stage = "fail"
    BY <1>2, <2>2
  <2>7. Stands(onward, rows)
    BY <2>2, <2>3, <2>4, <2>5, <2>6 DEF Stands
  <2>8. QED BY <2>1, <2>7
<1>4. CASE next = "end" /\ j.listed # <<>>
  <2>1. job'[p] = another
    BY <1>1, <1>4 DEF Proceed, next
  <2>2. /\ another.stage = "evidence" /\ another.at = "check" /\ another.op = j.op
        /\ another.turn = Head(j.listed) /\ another.listed = Tail(j.listed)
    BY <1>1 DEF Job
  <2> HIDE DEF another
  <2>3. j.op \in Failing
    BY <1>4 DEF Stands
  <2>4. /\ 1 \in DOMAIN j.listed /\ another.turn = j.listed[1]
        /\ \A i \in DOMAIN another.listed :
              i + 1 \in DOMAIN j.listed /\ i + 1 # 1 /\ another.listed[i] = j.listed[i + 1]
    BY <1>1, <1>4, <2>2
  <2>5. Distinct(j)
    BY <2>3 DEF Stands
  <2>6. Distinct(another)
    <3>1. ASSUME NEW i \in DOMAIN another.listed PROVE another.listed[i] # another.turn
      BY <2>4, <2>5 DEF Distinct
    <3>2. ASSUME NEW i \in DOMAIN another.listed, NEW k \in DOMAIN another.listed,
                 another.listed[i] = another.listed[k]
          PROVE  i = k
      <4>1. i + 1 = k + 1
        BY <2>4, <2>5, <3>2 DEF Distinct
      <4>2. i \in Nat /\ k \in Nat
        BY <1>1, <1>4, <2>2
      <4>3. QED BY <4>1, <4>2
    <3>3. QED BY <3>1, <3>2 DEF Distinct
  <2>7. /\ rows[another.turn].status = "running"
        /\ \A i \in DOMAIN another.listed : rows[another.listed[i]].status = "running"
    BY <2>3, <2>4
  <2>8. Stands(another, rows)
    BY <2>2, <2>3, <2>6, <2>7 DEF Stands, FailingStages
  <2>9. QED BY <2>1, <2>8
<1>5. CASE next = "end" /\ j.listed = <<>>
  BY <1>1, <1>5 DEF Proceed, next
<1>6. QED BY <1>3, <1>4, <1>5

\* The statements that leave the rows alone.
LEMMA QuietStands ==
    ASSUME NEW p \in Procs, AloneInv(p), LeaveOut(p) \/ AppendEvidence(p)
    PROVE  RowsEndWell' /\ (job'[p] # NoJob => Stands(job'[p], turns'))
<1> DEFINE j == job[p]
<1>1. /\ TurnInv /\ RowsEndWell /\ j # NoJob /\ Stands(j, turns) /\ j.at = "check"
      /\ turns' = turns /\ Proceed(p, "check") /\ j.stage # "fail"
  BY DEF AloneInv, LeaveOut, AppendEvidence, Checking, Unneeded, Appends
<1> HIDE DEF j
<1>2. RowsEndWell'
  BY <1>1 DEF RowsEndWell
<1>3. /\ turns[j.turn].status # "absent"
      /\ j.op \in Failing =>
             /\ j.stage # "fail"
             /\ j.stage \in {"seed", "evidence"} => turns[j.turn].status = "running"
             /\ \A i \in DOMAIN j.listed : turns[j.listed[i]].status = "running"
      /\ j.op \notin Failing => j.seen = turns[j.turn]
  BY <1>1 DEF Stands
<1>4. job'[p] # NoJob => Stands(job'[p], turns)
  BY <1>1, <1>3, ProceedStands DEF j
<1>5. QED BY <1>1, <1>2, <1>4

LEMMA ReadBackStands ==
    ASSUME NEW p \in Procs, AloneInv(p), ReadBack(p)
    PROVE  RowsEndWell' /\ (job'[p] # NoJob => Stands(job'[p], turns'))
<1> DEFINE j == job[p]
           new == [j EXCEPT !.at = "check", !.seen = turns[j.turn]]
<1>1. /\ RowsEndWell /\ j # NoJob /\ Stands(j, turns) /\ j.at = "read" /\ j \in Job
      /\ turns' = turns /\ job'[p] = new
  BY DEF AloneInv, ReadBack, TurnInv, TypeOK
<1>2. /\ new.at = "check" /\ new.seen = turns[j.turn] /\ new.turn = j.turn /\ new.op = j.op
      /\ new.stage = j.stage /\ new.listed = j.listed
  BY <1>1 DEF Job
<1> HIDE DEF j, new
<1>3. RowsEndWell'
  BY <1>1 DEF RowsEndWell
<1>4. Stands(new, turns)
  BY <1>1, <1>2 DEF Stands
<1>5. QED BY <1>1, <1>3, <1>4

\* The draft follows the row.
LEMMA CheckStands ==
    ASSUME NEW p \in Procs, AloneInv(p), Check(p)
    PROVE  RowsEndWell' /\ (job'[p] # NoJob => Stands(job'[p], turns'))
<1> DEFINE j == job[p]
           r == turns[j.turn]
<1>1. /\ TurnInv /\ RowsEndWell /\ j # NoJob /\ Stands(j, turns) /\ j.at = "check" /\ j \in Job
      /\ JobBacked(j, log) /\ turns' = turns
  BY DEF AloneInv, Check, Checking, TurnInv, TypeOK
<1>2. PICK c \in Changes(j) :
        /\ Accepted(j, c)
        /\ job' = [job EXCEPT ![p].at = "write", ![p].seen = NoTurn, ![p].draft = Updated(r, c)]
  BY DEF Check
<1> DEFINE d == Updated(r, c)
           new == [j EXCEPT !.at = "write", !.seen = NoTurn, !.draft = d]
<1>3. job'[p] = new
  BY <1>2 DEF AloneInv, TurnInv, TypeOK
<1> HIDE DEF d
<1>4. /\ new.at = "write" /\ new.draft = d /\ new.turn = j.turn /\ new.op = j.op
      /\ new.stage = j.stage /\ new.listed = j.listed
  BY <1>1 DEF Job
<1>5. j.turn \in TurnIds /\ ~j.input.auto_fail /\ ~j.input.decided
  BY <1>1 DEF Job, JobBacked
<1>6. /\ c \in Change /\ j.stage \in UpdateStages /\ (c.auto_fail => j.stage = "fail")
  BY <1>1, <1>5, ChangesType
<1>7. r \in TurnRow /\ (r.auto_fail => EndedForGood(r))
  BY <1>1, <1>5 DEF TurnInv, TypeOK, RowsEndWell
<1> HIDE DEF j, r, new
<1>8. /\ Follows(r, d)
      /\ j.stage = "seed" => d.status = "running"
      /\ j.stage = "fail" => d.auto_fail /\ d.summary
  <2>1. CASE j.op \in Failing
    <3>1. j.stage \in {"seed", "fail"}
      BY <1>1, <1>6, <2>1 DEF Stands, FailingStages, UpdateStages
    <3>2. /\ r.status = "running"
          /\ j.stage = "seed" => r.phase = Plan /\ ~r.auto_fail
      BY <1>1, <2>1, <3>1 DEF Stands, r
    <3>3. QED BY <1>1, <1>2, <1>7, <3>1, <3>2, FailFollows DEF d
  <2>2. CASE j.op \notin Failing
    <3>1. j.stage \notin FailingStages /\ j.seen = r /\ r.status # "absent"
      BY <1>1, <2>2 DEF Stands, r
    <3>2. Valid(r, c)
      BY <1>2, <2>2, <3>1 DEF Accepted, Failing
    <3>3. ~c.auto_fail
      BY <1>6, <3>1 DEF FailingStages
    <3>4. Follows(r, d)
      BY <1>6, <1>7, <3>1, <3>2, <3>3, ValidFollows DEF d
    <3>5. QED BY <3>1, <3>4 DEF FailingStages
  <2>3. QED BY <2>1, <2>2
<1>9. Stands(new, turns)
  BY <1>1, <1>4, <1>8 DEF Stands, Distinct, r
<1>10. RowsEndWell'
  BY <1>1 DEF RowsEndWell
<1>11. QED BY <1>1, <1>3, <1>9, <1>10

LEMMA WriteStands ==
    ASSUME NEW p \in Procs, AloneInv(p), Write(p)
    PROVE  /\ RowsEndWell' /\ (job'[p] # NoJob => Stands(job'[p], turns'))
           /\ \A t \in TurnIds : turns'[t] = turns[t] \/ Follows(turns[t], turns'[t])
<1> DEFINE j == job[p]
           at == IF j.op = "chaos" \/ j.op = "watchdog" THEN "check" ELSE "read"
<1>1. /\ TurnInv /\ RowsEndWell /\ j # NoJob /\ Stands(j, turns) /\ j.at = "write" /\ j \in Job
      /\ turns' = [turns EXCEPT ![j.turn] = j.draft] /\ turns \in [TurnIds -> TurnRow]
  BY DEF AloneInv, Write, TurnInv, TypeOK
<1>2. Proceed(p, at) /\ at \in {"read", "check"} /\ (j.op \in Failing <=> at = "check")
  BY DEF Write, Failing
<1>3. j.turn \in TurnIds /\ JobBacked(j, log) /\ j.listed \in Seq(TurnIds)
  BY <1>1 DEF Job, TurnInv
<1> HIDE DEF at
<1>4. /\ turns'[j.turn] = j.draft
      /\ \A t \in TurnIds \ {j.turn} : turns'[t] = turns[t]
      /\ Follows(turns[j.turn], j.draft)
      /\ j.stage = "seed" => j.draft.status = "running"
      /\ j.stage = "fail" => j.draft.auto_fail /\ j.draft.summary
  BY <1>1, <1>3 DEF Stands
<1>5. RowsEndWell'
  BY <1>1, <1>3, <1>4 DEF RowsEndWell, Follows
<1>6. turns'[j.turn].status # "absent"
  BY <1>4 DEF Follows
<1>7. j.op \in Failing =>
        /\ j.stage = "fail" => turns'[j.turn].auto_fail /\ turns'[j.turn].summary
        /\ j.stage \in {"seed", "evidence"} => turns'[j.turn].status = "running"
        /\ \A i \in DOMAIN j.listed : turns'[j.listed[i]].status = "running"
  <2>1. j.stage # "evidence"
    BY <1>1, <1>3 DEF JobBacked, UpdateStages
  <2>2. ASSUME j.op \in Failing, NEW i \in DOMAIN j.listed
        PROVE  turns'[j.listed[i]].status = "running"
    <3>1. j.listed[i] \in TurnIds \ {j.turn} /\ turns[j.listed[i]].status = "running"
      BY <1>1, <1>3, <2>2 DEF Stands, Distinct
    <3>2. QED BY <1>4, <3>1
  <2>3. QED BY <1>4, <2>1, <2>2
<1>8. job'[p] # NoJob => Stands(job'[p], turns')
  BY <1>1, <1>2, <1>6, <1>7, ProceedStands
<1>9. QED BY <1>4, <1>5, <1>8

\* A handler that begins stands: it is at the beginning of its stages.
LEMMA EnterStands ==
    ASSUME NEW p \in Procs, AloneInv(p), NEW t \in TurnIds, NEW op, NEW stage, NEW at, NEW seen,
           NEW input, Enter(p, op, t, stage, at, seen, input, <<>>),
           at \in {"read", "check"}, turns'[t].status # "absent",
           op \in Failing =>
               /\ at = "check" /\ turns'[t].status = "running"
               /\ stage \in {"evidence", "seed"}
               /\ stage = "seed" => turns'[t].phase = Plan /\ ~turns'[t].auto_fail,
           op \notin Failing => stage \notin FailingStages /\ (at = "check" => seen = turns'[t])
    PROVE  Stands(job'[p], turns')
<1> DEFINE j == [op |-> op, turn |-> t, stage |-> stage, at |-> at, seen |-> seen,
                 draft |-> NoTurn, input |-> input, listed |-> <<>>]
<1>1. job'[p] = j
  BY DEF Enter, AloneInv, TurnInv, TypeOK
<1>2. /\ j.op = op /\ j.turn = t /\ j.stage = stage /\ j.at = at /\ j.seen = seen
      /\ j.listed = <<>> /\ DOMAIN j.listed = {}
  OBVIOUS
<1> HIDE DEF j
<1>3. j.at # "write"
  BY <1>2
<1>4. Stands(j, turns')
  BY <1>2, <1>3 DEF Stands, Distinct, FailingStages
<1>5. QED BY <1>1, <1>4

\* A turn that starts is running, and in its first phase.
LEMMA StartStands ==
    ASSUME NEW p \in Procs, AloneInv(p), NEW t \in TurnIds, turns[t].status = "absent",
           turns' = [turns EXCEPT ![t].status = "running"]
    PROVE  /\ RowsEndWell'
           /\ turns'[t].status = "running" /\ turns'[t].phase = Plan /\ ~turns'[t].auto_fail
           /\ \A u \in TurnIds : turns'[u] = turns[u] \/ Follows(turns[u], turns'[u])
<1> DEFINE r == [turns[t] EXCEPT !.status = "running"]
<1>1. turns \in [TurnIds -> TurnRow] /\ RowsEndWell /\ turns' = [turns EXCEPT ![t] = r]
  BY DEF AloneInv, TurnInv, TypeOK
<1>2. turns[t] \in TurnRow /\ turns[t].phase = Plan /\ ~turns[t].auto_fail
  BY <1>1 DEF RowsEndWell
<1>3. r.status = "running" /\ r.phase = Plan /\ ~r.auto_fail
  BY <1>2 DEF TurnRow
<1> HIDE DEF r
<1>4. turns'[t] = r /\ \A u \in TurnIds \ {t} : turns'[u] = turns[u]
  BY <1>1
<1>5. Follows(turns[t], r)
  BY <1>2, <1>3 DEF Follows, Terminal, Plan
<1>6. RowsEndWell'
  BY <1>1, <1>3, <1>4 DEF RowsEndWell
<1>7. QED BY <1>3, <1>4, <1>5, <1>6

LEMMA CallStands ==
    ASSUME NEW p \in Procs, AloneInv(p), Call(p)
    PROVE  /\ RowsEndWell' /\ (job'[p] # NoJob => Stands(job'[p], turns'))
           /\ \A t \in TurnIds : turns'[t] = turns[t] \/ Follows(turns[t], turns'[t])
<1>1. PICK t \in TurnIds :
        \/ TurnStart(p, t)
        \/ \E c \in Advances : TurnAdvance(p, t, c)
        \/ \E skip \in BOOLEAN : OrchestrateDecision(p, t, skip)
        \/ \E skip \in BOOLEAN, verdict \in {"completed", "failed"} :
              OrchestrateVerifyFinalize(p, t, skip, verdict)
        \/ ChaosInject(p, t)
        \/ ChaosRunOnce(p, t)
  BY DEF Call
<1>2. ASSUME turns' = turns, Stands(job'[p], turns')
      PROVE  /\ RowsEndWell' /\ (job'[p] # NoJob => Stands(job'[p], turns'))
             /\ \A u \in TurnIds : turns'[u] = turns[u] \/ Follows(turns[u], turns'[u])
  <2>1. RowsEndWell'
    BY <1>2 DEF AloneInv, RowsEndWell
  <2>2. QED BY <1>2, <2>1
<1>3. CASE TurnStart(p, t)
  <2>1. job'[p] = NoJob
    BY <1>3 DEF TurnStart
  <2>2. QED BY <1>3, <2>1, StartStands DEF TurnStart
<1>4. ASSUME NEW c \in Advances, TurnAdvance(p, t, c)
      PROVE  turns' = turns /\ Stands(job'[p], turns')
  <2>1. /\ Enter(p, "advance", t, "apply", "check", turns[t], c, <<>>)
        /\ turns' = turns /\ turns[t].status # "absent"
    BY <1>4 DEF TurnAdvance
  <2>2. "advance" \notin Failing /\ "apply" \notin FailingStages
    BY DEF Failing, FailingStages
  <2>3. QED BY <2>1, <2>2, EnterStands
<1>5. ASSUME NEW skip \in BOOLEAN, OrchestrateDecision(p, t, skip)
      PROVE  turns' = turns /\ Stands(job'[p], turns')
  <2>1. /\ Enter(p, "decide", t, "propose", "read", NoTurn, To(Keep, Keep, Keep, skip), <<>>)
        /\ turns' = turns /\ turns[t].status # "absent"
    BY <1>5 DEF OrchestrateDecision, EnterRunning
  <2>2. "decide" \notin Failing /\ "propose" \notin FailingStages
    BY DEF Failing, FailingStages
  <2>3. QED BY <2>1, <2>2, EnterStands
<1>6. ASSUME NEW skip \in BOOLEAN, NEW verdict \in {"completed", "failed"},
             OrchestrateVerifyFinalize(p, t, skip, verdict)
      PROVE  turns' = turns /\ Stands(job'[p], turns')
  <2>1. /\ Enter(p, "finalize", t, "verify", "check", turns[t], To(verdict, Keep, Keep, skip), <<>>)
        /\ turns' = turns /\ turns[t].status # "absent"
    BY <1>6 DEF OrchestrateVerifyFinalize, EnterRunning
  <2>2. "finalize" \notin Failing /\ "verify" \notin FailingStages
    BY DEF Failing, FailingStages
  <2>3. QED BY <2>1, <2>2, EnterStands
<1>7. ASSUME ChaosInject(p, t) PROVE turns' = turns /\ Stands(job'[p], turns')
  <2>1. /\ Enter(p, "chaos", t, "evidence", "check", NoTurn, Nothing, <<>>)
        /\ turns' = turns /\ turns[t].status = "running"
    BY <1>7 DEF ChaosInject, EnterRunning
  <2>2. "chaos" \in Failing
    BY DEF Failing
  <2>3. QED BY <2>1, <2>2, EnterStands
<1>8. CASE ChaosRunOnce(p, t)
  <2>1. /\ Enter(p, "chaos", t, "seed", "check", NoTurn, Nothing, <<>>)
        /\ turns[t].status = "absent" /\ turns' = [turns EXCEPT ![t].status = "running"]
    BY <1>8 DEF ChaosRunOnce
  <2>2. "chaos" \in Failing
    BY DEF Failing
  <2>3. /\ RowsEndWell'
        /\ turns'[t].status = "running" /\ turns'[t].phase = Plan /\ ~turns'[t].auto_fail
        /\ \A u \in TurnIds : turns'[u] = turns[u] \/ Follows(turns[u], turns'[u])
    BY <2>1, StartStands
  <2>4. Stands(job'[p], turns')
    BY <2>1, <2>2, <2>3, EnterStands
  <2>5. QED BY <2>3, <2>4
<1>9. QED BY <1>1, <1>2, <1>3, <1>4, <1>5, <1>6, <1>7, <1>8

\* The turns of a tick's batch are running and different ones.
LEMMA WatchdogStands ==
    ASSUME NEW p \in Procs, AloneInv(p), WatchdogList(p)
    PROVE  RowsEndWell' /\ Stands(job'[p], turns')
<1>1. PICK order \in [1..CandidateCount -> Candidates] :
        /\ \A i, k \in 1..CandidateCount : order[i] = order[k] => i = k
        /\ Enter(p, "watchdog", order[1], "evidence", "check", NoTurn, Nothing, Tail(order))
  BY DEF WatchdogList
<1>2. CandidateCount \in Nat \ {0}
  <2>1. Candidates \subseteq TurnIds
    BY DEF Candidates, AloneInv, TurnInv, TypeOK
  <2>2. IsFiniteSet(Candidates)
    BY <2>1, TurnAssumption, FS_Subset DEF TurnAssumption
  <2>3. Cardinality(Candidates) \in Nat \ {0}
    BY <2>2, FS_CardinalityType, FS_EmptySet DEF WatchdogList
  <2>4. QED BY <2>3, TurnAssumption DEF CandidateCount, TurnAssumption
<1> DEFINE rest == Tail(order)
           j == [op |-> "watchdog", turn |-> order[1], stage |-> "evidence", at |-> "check",
                 seen |-> NoTurn, draft |-> NoTurn, input |-> Nothing, listed |-> rest]
<1>3. job'[p] = j /\ turns' = turns
  BY <1>1 DEF Enter, WatchdogList, AloneInv, TurnInv, TypeOK
<1>4. \A i \in DOMAIN rest :
        i + 1 \in 1..CandidateCount /\ i + 1 # 1 /\ i \in Nat /\ rest[i] = order[i + 1]
  BY <1>1, <1>2
<1>5. 1 \in 1..CandidateCount
  BY <1>2
<1> HIDE DEF rest
<1>6. /\ j.op = "watchdog" /\ j.turn = order[1] /\ j.stage = "evidence" /\ j.at = "check"
      /\ j.listed = rest
  OBVIOUS
<1> HIDE DEF j
<1>7. Distinct(j)
  <2>1. ASSUME NEW i \in DOMAIN rest PROVE rest[i] # order[1]
    BY <1>1, <1>4, <1>5
  <2>2. ASSUME NEW i \in DOMAIN rest, NEW k \in DOMAIN rest, rest[i] = rest[k] PROVE i = k
    <3>1. i + 1 = k + 1
      BY <1>1, <1>4, <2>2
    <3>2. QED BY <1>4, <3>1
  <2>3. QED BY <1>6, <2>1, <2>2 DEF Distinct
<1>8. turns[order[1]].status = "running" /\ \A i \in DOMAIN rest : turns[rest[i]].status = "running"
  BY <1>1, <1>4, <1>5 DEF Candidates
<1>9. Stands(j, turns)
  BY <1>6, <1>7, <1>8 DEF Stands, Failing, FailingStages
<1>10. RowsEndWell'
  BY <1>3 DEF AloneInv, RowsEndWell
<1>11. QED BY <1>3, <1>9, <1>10

\* With one process every step keeps the invariant, and rows only follow their rows.
LEMMA StepAlone ==
    ASSUME NEW p \in Procs, Procs = {p}, AloneInv(p), [Next]_vars
    PROVE  /\ AloneInv(p)'
           /\ \A t \in TurnIds : turns'[t] = turns[t] \/ Follows(turns[t], turns'[t])
<1>1. TurnInv'
  BY StepTurnInv DEF AloneInv
<1> DEFINE Kept == /\ RowsEndWell' /\ (job'[p] # NoJob => Stands(job'[p], turns'))
                   /\ \A t \in TurnIds : turns'[t] = turns[t] \/ Follows(turns[t], turns'[t])
<1>2. ASSUME \E t \in TurnIds : Age(t) PROVE Kept
  BY <1>2 DEF Age, AloneInv, RowsEndWell
<1>3. ASSUME Throw(p) \/ Crash(p) PROVE Kept
  <2>1. turns' = turns /\ job'[p] = NoJob
    BY <1>3 DEF Throw, Crash, AloneInv, TurnInv, TypeOK
  <2>2. QED BY <2>1 DEF AloneInv, RowsEndWell
<1>4. ASSUME LeaveOut(p) \/ AppendEvidence(p) \/ Check(p) \/ ReadBack(p) PROVE Kept
  <2>1. turns' = turns
    BY <1>4 DEF LeaveOut, AppendEvidence, Check, ReadBack
  <2>2. QED BY <1>4, <2>1, QuietStands, CheckStands, ReadBackStands
<1>5. ASSUME Write(p) PROVE Kept
  BY <1>5, WriteStands
<1>6. ASSUME Call(p) PROVE Kept
  BY <1>6, CallStands
<1>7. ASSUME WatchdogList(p) PROVE Kept
  <2>1. turns' = turns
    BY <1>7 DEF WatchdogList
  <2>2. QED BY <1>7, <2>1, WatchdogStands
<1>8. ASSUME UNCHANGED vars PROVE Kept
  BY <1>8 DEF vars, AloneInv, RowsEndWell
<1>9. Kept
  <2> HIDE DEF Kept
  <2>1. QED BY <1>2, <1>3, <1>4, <1>5, <1>6, <1>7, <1>8 DEF Next, Statement
<1>10. QED BY <1>1, <1>9 DEF AloneInv

LEMMA AloneInvHolds ==
    ASSUME NEW p \in Procs, Procs = {p}
    PROVE  Spec => []AloneInv(p)
<1>1. Init => AloneInv(p)
  <2>1. Init => RowsEndWell /\ job[p] = NoJob
    BY DEF Init, RowsEndWell, NoTurn, Plan
  <2>2. QED BY <2>1, InitTurnInv DEF AloneInv
<1>2. AloneInv(p) /\ [Next]_vars => AloneInv(p)'
  BY StepAlone
<1>3. QED BY <1>1, <1>2, PTL DEF Spec

\* With one server process, for any turns and any changes clients ask for: when
\* failTurnWithEvidence evaluates evaluateTurnAutoFinalizationInvariants every check is met,
\* and all of them but the one on the summary, which clients may clear, are met for good.
THEOREM FailedTurnsEndWell ==
    ASSUME NEW p \in Procs, Procs = {p}
    PROVE  Spec => []AutoFinalizationInvariants
<1>1. AloneInv(p) => AutoFinalizationInvariants
  <2> SUFFICES ASSUME AloneInv(p) PROVE AutoFinalizationInvariants
    OBVIOUS
  <2>1. ASSUME NEW t \in TurnIds, turns[t].auto_fail
        PROVE  EndedForGood(turns[t]) /\ log[t] \cap Failures # {}
    BY <2>1 DEF AloneInv, TurnInv, Backed, RowsEndWell
  <2>2. ASSUME NEW q \in Procs, job[q] # NoJob, job[q].stage = "message"
        PROVE  turns[job[q].turn].auto_fail /\ turns[job[q].turn].summary
    <3>1. q = p /\ Stands(job[q], turns)
      BY <2>2 DEF AloneInv
    <3>2. QED BY <2>2, <3>1 DEF Stands, FailingStages
  <2>3. QED BY <2>1, <2>2 DEF AutoFinalizationInvariants, EndedForGood, Failures
<1>2. QED BY <1>1, AloneInvHolds, PTL

\* With one server process no handler, tick or late client moves a turn that has ended.
THEOREM EndedTurnsStay ==
    ASSUME NEW p \in Procs, Procs = {p}
    PROVE  Spec => TerminalIsFinal
<1> DEFINE Kept == \A t \in TurnIds : turns[t].status \in Terminal =>
                      /\ turns'[t].status = turns[t].status
                      /\ turns'[t].phase = turns[t].phase
                      /\ turns'[t].phase_status = turns[t].phase_status
<1>1. ASSUME AloneInv(p), [Next]_vars PROVE [Kept]_vars
  BY <1>1, StepAlone DEF Follows
<1>2. Spec => []AloneInv(p)
  BY AloneInvHolds, PTL
<1>3. QED BY <1>1, <1>2, PTL DEF Spec, TerminalIsFinal

\* With one server process the phase of a turn never falls.
THEOREM PhasesRise ==
    ASSUME NEW p \in Procs, Procs = {p}
    PROVE  Spec => PhasesGoForward
<1> DEFINE Kept == \A t \in TurnIds : turns'[t].phase >= turns[t].phase
<1>1. ASSUME AloneInv(p), [Next]_vars PROVE [Kept]_vars
  <2>1. \A t \in TurnIds : turns[t].phase \in 0..6
    BY <1>1 DEF AloneInv, TurnInv, TypeOK, TurnRow
  <2>2. QED BY <1>1, <2>1, StepAlone DEF Follows
<1>2. Spec => []AloneInv(p)
  BY AloneInvHolds, PTL
<1>3. QED BY <1>1, <1>2, PTL DEF Spec, PhasesGoForward
=============================================================================
