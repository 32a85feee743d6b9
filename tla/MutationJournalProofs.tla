------------------------ MODULE MutationJournalProofs ------------------------
(***************************************************************************)
(* Idempotent calls for any number of calls, keys, requests and processes. *)
(***************************************************************************)
EXTENDS MutationJournal, TLAPS

Working == {"running", "executed", "throwing"}

\* The row of call c's key is the one c inserted, for the request c named.
OwnsRow(c) ==
    /\ call[c].key \in Keys
    /\ journal[call[c].key] # NoRow
    /\ journal[call[c].key].by = c
    /\ journal[call[c].key].request = call[c].request

\* While a call works its row is in progress: only that call ends it.
WorkerOwnsOpenRow ==
    \A c \in Calls :
        /\ call[c].stage = "begun" => call[c].key \in Keys /\ call[c].request \in Requests
        /\ call[c].stage \in Working =>
              OwnsRow(c) /\ journal[call[c].key].status = "in_progress"
        /\ call[c].stage = "executed" => c \in applied

\* Only the call that inserted the row of its key has an effect, and it keeps its key.
EffectOwnsRow ==
    \A c \in applied : OwnsRow(c) /\ call[c].stage \notin {"new", "begun"}

\* A row can be replayed only once its effect is committed.
DoneIsApplied ==
    \A k \in Keys : journal[k] # NoRow /\ journal[k].status = "done" =>
        journal[k].by \in applied /\ call[journal[k].by].key = k

JournalInv ==
    TypeOK /\ WorkerOwnsOpenRow /\ EffectOwnsRow /\ DoneIsApplied /\ AnswersAgree

-----------------------------------------------------------------------------
(* What the actions do *)

\* Moving a call to another stage changes nothing else of it.
LEMMA StageEdit ==
    ASSUME NEW r \in Call, NEW s \in Stages
    PROVE  /\ [r EXCEPT !.stage = s] \in Call
           /\ [r EXCEPT !.stage = s].stage = s
           /\ [r EXCEPT !.stage = s].key = r.key
           /\ [r EXCEPT !.stage = s].request = r.request
           /\ [r EXCEPT !.stage = s].proc = r.proc
           /\ [r EXCEPT !.stage = s].answer = r.answer
BY DEF Call

\* A row is no record of another shape, and NoRow is no row.
LEMMA RowEdit ==
    ASSUME NEW r \in Row, NEW s \in {"in_progress", "done", "failed"}
    PROVE  /\ [r EXCEPT !.status = s] \in Row
           /\ [r EXCEPT !.status = s].status = s
           /\ [r EXCEPT !.status = s].by = r.by
           /\ [r EXCEPT !.status = s].request = r.request
           /\ r # NoRow
           /\ [r EXCEPT !.status = s] # NoRow
BY JournalAssumption DEF Row, JournalAssumption

\* What holds of every call whose stage is the only thing that may change.
SameCall(c) ==
    /\ call'[c].key = call[c].key
    /\ call'[c].request = call[c].request
    /\ call'[c].answer = call[c].answer

\* One call moves from stage s to stage to.
Moves(c, s, to) ==
    /\ call[c].stage = s
    /\ call'[c].stage = to
    /\ call' \in [Calls -> Call]
    /\ SameCall(c)
    /\ \A d \in Calls \ {c} : call'[d] = call[d]

LEMMA StageMoves ==
    ASSUME TypeOK, NEW c \in Calls, NEW s, NEW to \in Stages,
           call[c].stage = s, call' = [call EXCEPT ![c].stage = to]
    PROVE  Moves(c, s, to)
<1>1. call[c] \in Call /\ call'[c] = [call[c] EXCEPT !.stage = to]
  BY DEF TypeOK
<1>2. \A d \in Calls \ {c} : call'[d] = call[d]
  BY DEF TypeOK
<1>3. call' \in [Calls -> Call]
  BY <1>1, StageEdit DEF TypeOK
<1>4. QED BY <1>1, <1>2, <1>3, StageEdit DEF Moves, SameCall

LEMMA InitJournalInv == Init => JournalInv
BY JournalAssumption DEF Init, JournalInv, TypeOK, Unsent, Call, Stages, WorkerOwnsOpenRow,
   EffectOwnsRow, DoneIsApplied, AnswersAgree, Working, OwnsRow

LEMMA StatementKeepsInv ==
    ASSUME JournalInv, NEW c \in Calls, NEW s, NEW to \in Stages \ {"new", "begun", "answered"},
           Moves(c, s, to), s # "new", journal' = journal, verdict' = verdict, faults' \in Nat,
           applied' \in {applied, applied \cup {c}},
           c \in applied' => OwnsRow(c),
           to \in Working => s \in Working,
           to = "executed" => c \in applied'
    PROVE  JournalInv'
<1>1. TypeOK'
  BY DEF JournalInv, TypeOK, Moves
<1>2. \A d \in Calls : SameCall(d) /\ (d # c => call'[d].stage = call[d].stage)
  BY DEF Moves, SameCall
<1>3. \A d \in Calls : OwnsRow(d)' = OwnsRow(d)
  BY <1>2 DEF OwnsRow, SameCall
<1>4. WorkerOwnsOpenRow'
  BY <1>2, <1>3 DEF JournalInv, WorkerOwnsOpenRow, Moves, SameCall
<1>5. EffectOwnsRow'
  BY <1>2, <1>3 DEF JournalInv, EffectOwnsRow, Moves, TypeOK
<1>6. DoneIsApplied'
  BY <1>2 DEF JournalInv, DoneIsApplied, SameCall, TypeOK
<1>7. AnswersAgree'
  BY <1>2 DEF JournalInv, AnswersAgree, SameCall, Moves, TypeOK
<1>8. QED BY <1>1, <1>4, <1>5, <1>6, <1>7 DEF JournalInv

LEMMA BeginKeepsInv ==
    ASSUME JournalInv, NEW c \in Calls, NEW k \in Keys, NEW r \in Requests, NEW p \in Procs,
           BeginMutation(c, k, r, p)
    PROVE  JournalInv'
<1> USE DEF JournalInv
<1>1. PICK st \in {"begun", "answered", "refused"}, ans \in Calls \cup {Nothing} :
        /\ Sent(c, k, r, p, st, ans)
        /\ st = "answered" => /\ journal[k] # NoRow /\ journal[k].status = "done"
                              /\ journal[k].request = r /\ ans = journal[k].by
  BY DEF BeginMutation, TypeOK, Row
<1>2. /\ call'[c] = [stage |-> st, key |-> k, request |-> r, proc |-> p, answer |-> ans]
      /\ \A d \in Calls \ {c} : call'[d] = call[d]
  BY <1>1 DEF Sent, TypeOK
<1>3. UNCHANGED <<journal, applied, verdict, faults>> /\ call[c].stage = "new"
  BY DEF BeginMutation
<1>4. c \notin applied
  BY <1>3 DEF EffectOwnsRow
<1>5. TypeOK'
  BY <1>1, <1>2, <1>3 DEF TypeOK, Sent, Call, Stages
<1>6. \A d \in Calls \ {c} : OwnsRow(d)' = OwnsRow(d)
  BY <1>2, <1>3 DEF OwnsRow
<1>7. WorkerOwnsOpenRow'
  BY <1>1, <1>2, <1>3, <1>6 DEF WorkerOwnsOpenRow, Working
<1>8. EffectOwnsRow'
  BY <1>2, <1>3, <1>4, <1>6 DEF EffectOwnsRow, TypeOK
<1>9. DoneIsApplied'
  BY <1>2, <1>3, <1>4 DEF DoneIsApplied, TypeOK
<1>10. AnswersAgree'
  <2> SUFFICES ASSUME NEW d \in Calls, call'[d].stage = "answered"
               PROVE  /\ call'[d].answer \in applied'
                      /\ call'[call'[d].answer].key = call'[d].key
                      /\ call'[call'[d].answer].request = call'[d].request
    BY DEF AnswersAgree
  <2>1. CASE d = c
    <3>1. ans \in applied /\ call[ans].key = k /\ ans # c
      BY <2>1, <1>1, <1>2, <1>4 DEF DoneIsApplied
    <3>2. call[ans].request = r
      BY <3>1, <2>1, <1>1, <1>2 DEF EffectOwnsRow, OwnsRow
    <3>3. QED BY <2>1, <3>1, <3>2, <1>2, <1>3 DEF TypeOK
  <2>2. CASE d # c
    BY <2>2, <1>2, <1>3, <1>4 DEF AnswersAgree, TypeOK
  <2>3. QED BY <2>1, <2>2
<1>11. QED BY <1>5, <1>7, <1>8, <1>9, <1>10

LEMMA InsertKeepsInv ==
    ASSUME JournalInv, NEW c \in Calls, InsertMutation(c)
    PROVE  JournalInv'
<1> DEFINE k == call[c].key
           new == [status |-> "in_progress", request |-> call[c].request, by |-> c]
<1>1. k \in Keys /\ call[c].request \in Requests
  BY DEF InsertMutation, JournalInv, WorkerOwnsOpenRow
<1>2. CASE journal[k] = NoRow
  <2>1. Moves(c, "begun", "running")
    BY <1>2, StageMoves DEF InsertMutation, JournalInv, Stages
  <2>2. /\ journal'[k] = new
        /\ \A j \in Keys \ {k} : journal'[j] = journal[j]
        /\ new \in Row /\ new # NoRow
        /\ journal' \in [Keys -> Row \cup {NoRow}]
    BY <1>1, <1>2, JournalAssumption DEF InsertMutation, JournalInv, TypeOK, Row, JournalAssumption
  <2>3. UNCHANGED <<applied, verdict, faults>>
    BY DEF InsertMutation
  <2> HIDE DEF new
  <2>4. \A d \in Calls \ {c} : OwnsRow(d) => OwnsRow(d)' /\ call[d].key # k
    BY <1>2, <2>1, <2>2 DEF OwnsRow, Moves
  <2>5. OwnsRow(c)' /\ journal'[call'[c].key].status = "in_progress"
    BY <1>1, <2>1, <2>2 DEF OwnsRow, Moves, SameCall, new
  <2>6. c \notin applied
    BY <2>1 DEF JournalInv, EffectOwnsRow, Moves
  <2>7. TypeOK'
    BY <2>1, <2>2, <2>3 DEF JournalInv, TypeOK, Moves
  <2>8. WorkerOwnsOpenRow'
    BY <2>1, <2>2, <2>3, <2>4, <2>5 DEF JournalInv, WorkerOwnsOpenRow, Moves, OwnsRow
  <2>9. EffectOwnsRow'
    BY <2>1, <2>3, <2>4, <2>6 DEF JournalInv, EffectOwnsRow, Moves, TypeOK
  <2>10. DoneIsApplied'
    <3>1. journal'[k].status # "done"
      BY <2>2 DEF new
    <3>2. QED BY <3>1, <2>1, <2>2, <2>3 DEF JournalInv, DoneIsApplied, Moves, SameCall, TypeOK
  <2>11. AnswersAgree'
    BY <2>1, <2>3, <2>6 DEF JournalInv, AnswersAgree, Moves, SameCall, TypeOK
  <2>12. QED BY <2>7, <2>8, <2>9, <2>10, <2>11 DEF JournalInv
<1>3. CASE journal[k] # NoRow
  <2>1. Moves(c, "begun", "refused") /\ UNCHANGED <<journal, applied, verdict, faults>>
    BY <1>3, StageMoves DEF InsertMutation, JournalInv, Stages
  <2>2. c \notin applied
    BY <2>1 DEF JournalInv, EffectOwnsRow, Moves
  <2>3. QED
    BY <2>1, <2>2, StatementKeepsInv DEF JournalInv, TypeOK, Stages, Working
<1>4. QED BY <1>2, <1>3

\* The last UPDATE of a call: its own row, from in_progress to done or failed.
LEMMA RowEnds ==
    ASSUME JournalInv, NEW c \in Calls, call[c].stage \in Working,
           NEW s \in {"done", "failed"},
           journal' = [journal EXCEPT ![call[c].key].status = s]
    PROVE  /\ journal' \in [Keys -> Row \cup {NoRow}]
           /\ call[c].key \in Keys
           /\ journal'[call[c].key].status = s
           /\ \A k \in Keys :
                 /\ k # call[c].key => journal'[k] = journal[k]
                 /\ journal[k] # NoRow =>
                       /\ journal'[k] # NoRow
                       /\ journal'[k].by = journal[k].by
                       /\ journal'[k].request = journal[k].request
           /\ \A d \in Calls \ {c} : OwnsRow(d) => call[d].key # call[c].key
<1> DEFINE k == call[c].key
<1>1. k \in Keys /\ journal[k] \in Row /\ journal[k].by = c
  BY DEF JournalInv, WorkerOwnsOpenRow, OwnsRow, TypeOK
<1>2. journal'[k] = [journal[k] EXCEPT !.status = s]
  BY <1>1 DEF JournalInv, TypeOK
<1>3. \A j \in Keys \ {k} : journal'[j] = journal[j]
  BY DEF JournalInv, TypeOK
<1>4. journal' \in [Keys -> Row \cup {NoRow}]
  BY <1>1, <1>2, <1>3, RowEdit DEF JournalInv, TypeOK
<1>5. /\ journal'[k].status = s /\ journal'[k] # NoRow
      /\ journal'[k].by = journal[k].by /\ journal'[k].request = journal[k].request
  <2>1. \A r \in Row : LET e == [r EXCEPT !.status = s] IN
           e.status = s /\ e # NoRow /\ e.by = r.by /\ e.request = r.request
    BY RowEdit
  <2> HIDE DEF k
  <2>2. QED BY <1>1, <1>2, <2>1
<1>6. \A d \in Calls \ {c} : OwnsRow(d) => call[d].key # k
  BY <1>1 DEF OwnsRow
<1>7. QED BY <1>1, <1>3, <1>4, <1>5, <1>6

LEMMA CompleteKeepsInv ==
    ASSUME JournalInv, NEW c \in Calls, CompleteMutation(c)
    PROVE  JournalInv'
<1>1. /\ call[c].stage = "executed" /\ UNCHANGED <<applied, verdict, faults>>
      /\ journal' = [journal EXCEPT ![call[c].key].status = "done"]
      /\ call' = [call EXCEPT ![c].stage = "answered", ![c].answer = c]
  BY DEF CompleteMutation
<1>2. c \in applied /\ OwnsRow(c)
  BY <1>1 DEF JournalInv, WorkerOwnsOpenRow, Working
<1>3. /\ call' \in [Calls -> Call]
      /\ call'[c].stage = "answered" /\ call'[c].answer = c
      /\ call'[c].key = call[c].key /\ call'[c].request = call[c].request
      /\ \A d \in Calls \ {c} : call'[d] = call[d]
  BY <1>1 DEF JournalInv, TypeOK, Call, Stages
<1>4. /\ journal' \in [Keys -> Row \cup {NoRow}]
      /\ \A k \in Keys :
            /\ k # call[c].key => journal'[k] = journal[k]
            /\ journal[k] # NoRow =>
                  /\ journal'[k] # NoRow
                  /\ journal'[k].by = journal[k].by
                  /\ journal'[k].request = journal[k].request
      /\ \A d \in Calls \ {c} : OwnsRow(d) => call[d].key # call[c].key
  BY <1>1, RowEnds DEF Working
<1>5. \A d \in Calls : OwnsRow(d) => OwnsRow(d)'
  BY <1>3, <1>4 DEF OwnsRow
<1>6. TypeOK'
  BY <1>1, <1>3, <1>4 DEF JournalInv, TypeOK
<1>7. WorkerOwnsOpenRow'
  BY <1>1, <1>3, <1>4, <1>5 DEF JournalInv, WorkerOwnsOpenRow, Working, OwnsRow
<1>8. EffectOwnsRow'
  BY <1>1, <1>3, <1>5 DEF JournalInv, EffectOwnsRow, TypeOK
<1>9. DoneIsApplied'
  BY <1>1, <1>2, <1>3, <1>4 DEF JournalInv, DoneIsApplied, OwnsRow, TypeOK
<1>10. AnswersAgree'
  BY <1>1, <1>2, <1>3 DEF JournalInv, AnswersAgree, TypeOK
<1>11. QED BY <1>6, <1>7, <1>8, <1>9, <1>10 DEF JournalInv

LEMMA FailKeepsInv ==
    ASSUME JournalInv, NEW c \in Calls, FailMutation(c)
    PROVE  JournalInv'
<1>1. /\ call[c].stage = "throwing" /\ UNCHANGED <<applied, verdict, faults>>
      /\ journal' = [journal EXCEPT ![call[c].key].status = "failed"]
      /\ Moves(c, "throwing", "refused")
  BY StageMoves DEF FailMutation, JournalInv, Stages
<1>2. /\ journal' \in [Keys -> Row \cup {NoRow}]
      /\ call[c].key \in Keys
      /\ journal'[call[c].key].status = "failed"
      /\ \A k \in Keys :
            /\ k # call[c].key => journal'[k] = journal[k]
            /\ journal[k] # NoRow =>
                  /\ journal'[k] # NoRow
                  /\ journal'[k].by = journal[k].by
                  /\ journal'[k].request = journal[k].request
      /\ \A d \in Calls \ {c} : OwnsRow(d) => call[d].key # call[c].key
  BY <1>1, RowEnds DEF Working
<1>3. \A d \in Calls : OwnsRow(d) => OwnsRow(d)'
  BY <1>1, <1>2 DEF OwnsRow, Moves, SameCall
<1>4. TypeOK'
  BY <1>1, <1>2 DEF JournalInv, TypeOK, Moves
<1>5. WorkerOwnsOpenRow'
  BY <1>1, <1>2, <1>3 DEF JournalInv, WorkerOwnsOpenRow, Working, OwnsRow, Moves
<1>6. EffectOwnsRow'
  BY <1>1, <1>3 DEF JournalInv, EffectOwnsRow, TypeOK, Moves
<1>7. DoneIsApplied'
  <2> SUFFICES ASSUME NEW k \in Keys, journal'[k] # NoRow, journal'[k].status = "done"
               PROVE  journal'[k].by \in applied' /\ call'[journal'[k].by].key = k
    BY DEF DoneIsApplied
  <2>1. k # call[c].key /\ journal'[k] = journal[k]
    BY <1>2
  <2>2. QED BY <2>1, <1>1 DEF JournalInv, DoneIsApplied, TypeOK, Moves, SameCall
<1>8. AnswersAgree'
  BY <1>1 DEF JournalInv, AnswersAgree, TypeOK, Moves, SameCall
<1>9. QED BY <1>4, <1>5, <1>6, <1>7, <1>8 DEF JournalInv

LEMMA ServeKeepsInv ==
    ASSUME JournalInv, NEW c \in Calls, Serve(c)
    PROVE  JournalInv'
<1> USE DEF Stages, Working
<1>0. TypeOK /\ faults \in Nat /\ (Fault => faults' \in Nat)
  BY DEF JournalInv, TypeOK, Fault
<1>1. CASE InsertMutation(c)
  BY <1>1, InsertKeepsInv
<1>2. CASE Execute(c)
  <2>1. Moves(c, "running", "executed") /\ OwnsRow(c)
    BY <1>0, <1>2, StageMoves DEF Execute, JournalInv, WorkerOwnsOpenRow
  <2>2. QED BY <1>0, <1>2, <2>1, StatementKeepsInv DEF Execute
<1>3. CASE ExecuteThrows(c)
  <2>1. Moves(c, "running", "throwing") /\ OwnsRow(c)
    BY <1>0, <1>3, StageMoves DEF ExecuteThrows, JournalInv, WorkerOwnsOpenRow
  <2>2. QED BY <1>0, <1>3, <2>1, StatementKeepsInv DEF ExecuteThrows
<1>4. CASE CompleteMutation(c)
  BY <1>4, CompleteKeepsInv
<1>5. CASE CompleteThrows(c)
  <2>1. Moves(c, "executed", "throwing") /\ OwnsRow(c)
    BY <1>0, <1>5, StageMoves DEF CompleteThrows, JournalInv, WorkerOwnsOpenRow
  <2>2. QED BY <1>0, <1>5, <2>1, StatementKeepsInv DEF CompleteThrows
<1>6. CASE FailMutation(c)
  BY <1>6, FailKeepsInv
<1>7. CASE FailThrows(c)
  <2>1. Moves(c, "throwing", "refused") /\ OwnsRow(c)
    BY <1>0, <1>7, StageMoves DEF FailThrows, JournalInv, WorkerOwnsOpenRow
  <2>2. QED BY <1>0, <1>7, <2>1, StatementKeepsInv DEF FailThrows
<1>8. QED BY <1>1, <1>2, <1>3, <1>4, <1>5, <1>6, <1>7 DEF Serve

LEMMA CrashKeepsInv ==
    ASSUME JournalInv, NEW p \in Procs, Crash(p)
    PROVE  JournalInv'
<1>1. \A c \in Calls :
        /\ call'[c] \in Call
        /\ SameCall(c)
        /\ call'[c].stage # call[c].stage =>
              call'[c].stage = "lost" /\ call[c].stage \notin {"new", "answered"}
  BY StageEdit DEF Crash, Serving, JournalInv, TypeOK, SameCall, Stages
<1>2. UNCHANGED <<journal, applied, verdict>> /\ faults' \in Nat
  BY DEF Crash, Fault, JournalInv, TypeOK
<1>3. TypeOK'
  BY <1>1, <1>2 DEF Crash, JournalInv, TypeOK
<1>4. \A c \in Calls : OwnsRow(c)' = OwnsRow(c)
  BY <1>1, <1>2 DEF OwnsRow, SameCall
<1>5. WorkerOwnsOpenRow'
  BY <1>1, <1>2, <1>4 DEF JournalInv, WorkerOwnsOpenRow, SameCall, Working
<1>6. EffectOwnsRow'
  BY <1>1, <1>2, <1>4 DEF JournalInv, EffectOwnsRow, TypeOK
<1>7. DoneIsApplied'
  BY <1>1, <1>2 DEF JournalInv, DoneIsApplied, TypeOK, SameCall
<1>8. AnswersAgree'
  BY <1>1, <1>2 DEF JournalInv, AnswersAgree, TypeOK, SameCall
<1>9. QED BY <1>3, <1>5, <1>6, <1>7, <1>8 DEF JournalInv

LEMMA CheckKeepsInv ==
    ASSUME JournalInv, NEW c \in Calls, NEW k \in Keys, NEW r \in Requests,
           MutationCheck(c, k, r)
    PROVE  JournalInv'
<1>1. /\ call[c].stage = "new" /\ UNCHANGED <<journal, applied, faults>>
      /\ call'[c].stage = "new"
      /\ call' \in [Calls -> Call]
      /\ verdict' \in [Calls -> {"none", "replay-safe"}]
      /\ \A d \in Calls \ {c} : call'[d] = call[d]
  BY DEF MutationCheck, JournalInv, TypeOK, Call
<1>2. c \notin applied
  BY <1>1 DEF JournalInv, EffectOwnsRow
<1>3. TypeOK'
  BY <1>1 DEF JournalInv, TypeOK
<1>4. \A d \in Calls \ {c} : OwnsRow(d)' = OwnsRow(d)
  BY <1>1 DEF OwnsRow
<1>5. WorkerOwnsOpenRow'
  BY <1>1, <1>4 DEF JournalInv, WorkerOwnsOpenRow, Working
<1>6. EffectOwnsRow'
  BY <1>1, <1>2, <1>4 DEF JournalInv, EffectOwnsRow, TypeOK
<1>7. DoneIsApplied'
  BY <1>1, <1>2 DEF JournalInv, DoneIsApplied, TypeOK
<1>8. AnswersAgree'
  BY <1>1, <1>2 DEF JournalInv, AnswersAgree, TypeOK
<1>9. QED BY <1>3, <1>5, <1>6, <1>7, <1>8 DEF JournalInv

\* Every step keeps the invariant.
LEMMA StepJournalInv == JournalInv /\ [Next]_vars => JournalInv'
<1> SUFFICES ASSUME JournalInv, [Next]_vars PROVE JournalInv'
  OBVIOUS
<1>1. ASSUME NEW c \in Calls, Send(c) PROVE JournalInv'
  BY <1>1, BeginKeepsInv, CheckKeepsInv DEF Send
<1>2. ASSUME NEW c \in Calls, Serve(c) PROVE JournalInv'
  BY <1>2, ServeKeepsInv
<1>3. ASSUME NEW p \in Procs, Crash(p) PROVE JournalInv'
  BY <1>3, CrashKeepsInv
<1>4. CASE UNCHANGED vars
  BY <1>4 DEF vars, JournalInv, TypeOK, WorkerOwnsOpenRow, EffectOwnsRow, DoneIsApplied,
              AnswersAgree, OwnsRow
<1>5. QED BY <1>1, <1>2, <1>3, <1>4 DEF Next

\* One row belongs to one call, so one key has one effect.
LEMMA InvImpliesAtMostOnce == JournalInv => AtMostOnce
BY DEF JournalInv, EffectOwnsRow, OwnsRow, AtMostOnce

LEMMA JournalInvHolds == Spec => []JournalInv
BY InitJournalInv, StepJournalInv, PTL DEF Spec

\* Rows, calls and effects are of their types in every reachable state.
THEOREM JournalTypeCorrect == Spec => []TypeOK
<1>1. JournalInv => TypeOK
  BY DEF JournalInv
<1>2. QED BY <1>1, JournalInvHolds, PTL

\* For any calls, keys, requests and processes, however they race, crash and retry,
\* the side effect of runIdempotentMutation is committed at most once per key.
THEOREM OnceForAll == Spec => []AtMostOnce
BY JournalInvHolds, InvImpliesAtMostOnce, PTL

\* Every success reported under a key, replayed or not, is the result of the one
\* execution of that key, for the tool and fingerprint the caller named.
THEOREM AnswersForAll == Spec => []AnswersAgree
<1>1. JournalInv => AnswersAgree
  BY DEF JournalInv
<1>2. QED BY <1>1, JournalInvHolds, PTL

\* A step never moves a row to another call, and never changes one that has ended.
LEMMA StepRowsFinal ==
    ASSUME JournalInv, [Next]_vars, NEW k \in Keys, journal[k] # NoRow
    PROVE  /\ journal'[k] # NoRow
           /\ journal'[k].by = journal[k].by
           /\ journal[k].status \in {"done", "failed"} => journal'[k] = journal[k]
<1>1. CASE UNCHANGED journal
  BY <1>1
<1>2. ASSUME NEW c \in Calls, InsertMutation(c), ~UNCHANGED journal
      PROVE  journal'[k] = journal[k]
  BY <1>2 DEF InsertMutation, JournalInv, TypeOK
<1>3. ASSUME NEW c \in Calls, call[c].stage \in Working, NEW s \in {"done", "failed"},
             journal' = [journal EXCEPT ![call[c].key].status = s]
      PROVE  /\ journal'[k] # NoRow /\ journal'[k].by = journal[k].by
             /\ journal[k].status \in {"done", "failed"} => journal'[k] = journal[k]
  <2>1. journal[call[c].key].status = "in_progress"
    BY <1>3 DEF JournalInv, WorkerOwnsOpenRow
  <2>2. QED BY <1>3, <2>1, RowEnds
<1>4. ASSUME NEW c \in Calls, CompleteMutation(c) \/ FailMutation(c)
      PROVE  /\ journal'[k] # NoRow /\ journal'[k].by = journal[k].by
             /\ journal[k].status \in {"done", "failed"} => journal'[k] = journal[k]
  BY <1>3, <1>4 DEF CompleteMutation, FailMutation, Working
<1>5. CASE Next
  BY <1>1, <1>2, <1>4, <1>5
  DEF Next, Send, Serve, BeginMutation, MutationCheck, Execute, ExecuteThrows, CompleteThrows,
      FailThrows, Crash
<1>6. QED BY <1>1, <1>5 DEF vars

\* A key's row belongs to one call for good and never changes once it is done or
\* failed, so what was replayed once is replayed for ever.
THEOREM RowsStay == Spec => RowsAreFinal
<1> DEFINE Final == \A k \in Keys : journal[k] # NoRow =>
                /\ journal'[k] # NoRow
                /\ journal'[k].by = journal[k].by
                /\ journal[k].status \in {"done", "failed"} => journal'[k] = journal[k]
<1>1. JournalInv /\ [Next]_vars => [Final]_vars
  BY StepRowsFinal
<1>2. QED BY <1>1, JournalInvHolds, PTL DEF Spec, RowsAreFinal
=============================================================================
