--------------------------- MODULE MutationJournal ---------------------------
(***************************************************************************)
(* runIdempotentMutation of src/src/tools/mutation.ts over the table       *)
(* mutation_journal of src/src/storage.ts: every mutating tool call goes   *)
(* through it.                                                             *)
(*                                                                         *)
(* A call names a key and a request, which stands for the tool name and    *)
(* the side_effect_fingerprint.  Calls are served by server processes that *)
(* share the table.  beginMutation reads and inserts in one synchronous    *)
(* stretch, so two calls of one process do not interleave there; calls of  *)
(* two processes do, and from the await of execute on all calls do.  A     *)
(* client that lost an answer sends the same key again.                    *)
(***************************************************************************)
EXTENDS Naturals, FiniteSets

CONSTANTS
    Calls,            \* the tool calls clients send
    Keys,             \* idempotency keys
    Requests,         \* pairs of a tool name and a side_effect_fingerprint
    Procs,            \* server processes
    NoRow,            \* no row in mutation_journal
    Nothing,          \* a field not set yet
    MaxFaults         \* bound: process crashes and failed statements

ASSUME JournalAssumption ==
    /\ Nothing \notin Calls \cup Keys \cup Requests \cup Procs
    /\ NoRow \notin
           [status : {"in_progress", "done", "failed"}, request : Requests, by : Calls]
    /\ MaxFaults \in Nat

VARIABLES
    journal,      \* journal[k]: the row of key k; by is the call that inserted it
    call,         \* call[c]: what call c asks for and how far it got
    applied,      \* the calls whose side effect was committed
    verdict,      \* verdict[c]: what mutation.check said of c's key and request
    faults        \* faults so far

vars == <<journal, call, applied, verdict, faults>>

Row == [status : {"in_progress", "done", "failed"}, request : Requests, by : Calls]

\* new: not sent; begun: read no row; running: inserted, execute pending; executed:
\* execute returned; throwing: execute or the completion threw; then the three ends.
Stages == {"new", "begun", "running", "executed", "throwing", "answered", "refused", "lost"}

Call == [stage : Stages, key : Keys \cup {Nothing}, request : Requests \cup {Nothing},
         proc : Procs \cup {Nothing}, answer : Calls \cup {Nothing}]

Unsent == [stage |-> "new", key |-> Nothing, request |-> Nothing,
           proc |-> Nothing, answer |-> Nothing]

TypeOK ==
    /\ journal \in [Keys -> Row \cup {NoRow}]
    /\ call \in [Calls -> Call]
    /\ applied \in SUBSET Calls
    /\ verdict \in [Calls -> {"none", "replay-safe"}]
    /\ faults \in Nat

-----------------------------------------------------------------------------

Init ==
    /\ journal = [k \in Keys |-> NoRow]
    /\ call = [c \in Calls |-> Unsent]
    /\ applied = {}
    /\ verdict = [c \in Calls |-> "none"]
    /\ faults = 0

\* p is between the SELECT and the INSERT of a beginMutation.
Beginning(p) == \E c \in Calls : call[c].stage = "begun" /\ call[c].proc = p

\* p is somewhere inside the runIdempotentMutation of c.
Serving(c, p) ==
    /\ call[c].proc = p
    /\ call[c].stage \in {"begun", "running", "executed", "throwing"}

Sent(c, k, r, p, stage, answer) ==
    call' = [call EXCEPT ![c] =
        [stage |-> stage, key |-> k, request |-> r, proc |-> p, answer |-> answer]]

Fault == faults < MaxFaults /\ faults' = faults + 1

\* Variant: replays whatever request the row was made for.
BeginOnKeyAlone(c, k, r, p) ==
    /\ call[c].stage = "new"
    /\ ~Beginning(p)
    /\ \/ journal[k] = NoRow /\ Sent(c, k, r, p, "begun", Nothing)
       \/ /\ journal[k] # NoRow
          /\ IF journal[k].status = "done"
             THEN Sent(c, k, r, p, "answered", journal[k].by)
             ELSE Sent(c, k, r, p, "refused", Nothing)
    /\ UNCHANGED <<journal, applied, verdict, faults>>

\* beginMutation, up to its SELECT: a done row of the same request is replayed, any
\* other row refuses the call, no row lets it go on to the INSERT.
BeginMutation(c, k, r, p) ==
    /\ call[c].stage = "new"
    /\ ~Beginning(p)
    /\ \/ journal[k] = NoRow /\ Sent(c, k, r, p, "begun", Nothing)
       \/ /\ journal[k] # NoRow
          /\ IF journal[k].request = r /\ journal[k].status = "done"
             THEN Sent(c, k, r, p, "answered", journal[k].by)
             ELSE Sent(c, k, r, p, "refused", Nothing)
    /\ UNCHANGED <<journal, applied, verdict, faults>>

\* Variant: INSERT OR REPLACE.
InsertOrReplace(c) ==
    /\ call[c].stage = "begun"
    /\ journal' = [journal EXCEPT ![call[c].key] =
           [status |-> "in_progress", request |-> call[c].request, by |-> c]]
    /\ call' = [call EXCEPT ![c].stage = "running"]
    /\ UNCHANGED <<applied, verdict, faults>>

\* The INSERT.  idempotency_key is the primary key: when another process was faster
\* the statement throws, outside the try of runIdempotentMutation.
InsertMutation(c) ==
    /\ call[c].stage = "begun"
    /\ IF journal[call[c].key] = NoRow
       THEN /\ journal' = [journal EXCEPT ![call[c].key] =
                   [status |-> "in_progress", request |-> call[c].request, by |-> c]]
            /\ call' = [call EXCEPT ![c].stage = "running"]
       ELSE /\ call' = [call EXCEPT ![c].stage = "refused"]
            /\ UNCHANGED journal
    /\ UNCHANGED <<applied, verdict, faults>>

\* execute() commits its side effect and returns.
Execute(c) ==
    /\ call[c].stage = "running"
    /\ applied' = applied \cup {c}
    /\ call' = [call EXCEPT ![c].stage = "executed"]
    /\ UNCHANGED <<journal, verdict, faults>>

\* execute() throws, before its side effect or, when it has several steps, after it.
ExecuteThrows(c) ==
    /\ call[c].stage = "running"
    /\ Fault
    /\ applied' \in {applied, applied \cup {c}}
    /\ call' = [call EXCEPT ![c].stage = "throwing"]
    /\ UNCHANGED <<journal, verdict>>

\* Variant: the answer is sent, the row forgotten.
AnswerOnly(c) ==
    /\ call[c].stage = "executed"
    /\ call' = [call EXCEPT ![c].stage = "answered", ![c].answer = c]
    /\ UNCHANGED <<journal, applied, verdict, faults>>

CompleteMutation(c) ==
    /\ call[c].stage = "executed"
    /\ journal' = [journal EXCEPT ![call[c].key].status = "done"]
    /\ call' = [call EXCEPT ![c].stage = "answered", ![c].answer = c]
    /\ UNCHANGED <<applied, verdict, faults>>

\* The UPDATE throws inside the try: the catch takes the call for a failed one.
CompleteThrows(c) ==
    /\ call[c].stage = "executed"
    /\ Fault
    /\ call' = [call EXCEPT ![c].stage = "throwing"]
    /\ UNCHANGED <<journal, applied, verdict>>

\* Variant: a status no reader knows.
FailMutationMisnamed(c) ==
    /\ call[c].stage = "throwing"
    /\ journal' = [journal EXCEPT ![call[c].key].status = "error"]
    /\ call' = [call EXCEPT ![c].stage = "refused"]
    /\ UNCHANGED <<applied, verdict, faults>>

FailMutation(c) ==
    /\ call[c].stage = "throwing"
    /\ journal' = [journal EXCEPT ![call[c].key].status = "failed"]
    /\ call' = [call EXCEPT ![c].stage = "refused"]
    /\ UNCHANGED <<applied, verdict, faults>>

\* The catch's own UPDATE throws: the caller sees an error, the row stays.
FailThrows(c) ==
    /\ call[c].stage = "throwing"
    /\ Fault
    /\ call' = [call EXCEPT ![c].stage = "refused"]
    /\ UNCHANGED <<journal, applied, verdict>>

\* A server process dies with all its calls; committed rows and effects stay.
Crash(p) ==
    /\ \E c \in Calls : Serving(c, p)
    /\ Fault
    /\ call' = [c \in Calls |->
           IF Serving(c, p) THEN [call[c] EXCEPT !.stage = "lost"] ELSE call[c]]
    /\ UNCHANGED <<journal, applied, verdict>>

\* mutation.check of src/src/tools/idempotency.ts, asked by the client of a call it is
\* about to send: any row of the same request is "replay-safe".
MutationCheck(c, k, r) ==
    /\ call[c].stage = "new"
    /\ verdict[c] = "none"
    /\ journal[k] # NoRow
    /\ journal[k].request = r
    /\ verdict' = [verdict EXCEPT ![c] = "replay-safe"]
    /\ call' = [call EXCEPT ![c].key = k, ![c].request = r]
    /\ UNCHANGED <<journal, applied, faults>>

Serve(c) ==
    \/ InsertMutation(c) \/ Execute(c) \/ ExecuteThrows(c)
    \/ CompleteMutation(c) \/ CompleteThrows(c) \/ FailMutation(c) \/ FailThrows(c)

\* A client that asked mutation.check sends what it asked about.
Send(c) ==
    \E k \in Keys, r \in Requests :
        /\ call[c].key \in {k, Nothing}
        /\ call[c].request \in {r, Nothing}
        /\ \/ \E p \in Procs : BeginMutation(c, k, r, p)
           \/ MutationCheck(c, k, r)

Next ==
    \/ \E c \in Calls : Send(c) \/ Serve(c)
    \/ \E p \in Procs : Crash(p)

Spec == Init /\ [][Next]_vars

\* A handler that began runs to its end unless its process dies.
FairSpec == Spec /\ \A c \in Calls : WF_vars(Serve(c))

-----------------------------------------------------------------------------
(* Properties *)

\* README.md:19 "Idempotent side effects": for one key the side effect is committed
\* at most once, whatever processes race, crash, and retry.
AtMostOnce ==
    \A c, d \in applied : call[c].key = call[d].key => c = d

\* Every successful answer under a key is the result of the one execution of that key,
\* made for the request the caller named.
AnswersAgree ==
    \A c \in Calls : call[c].stage = "answered" =>
        /\ call[c].answer \in applied
        /\ call[call[c].answer].key = call[c].key
        /\ call[call[c].answer].request = call[c].request

\* The row of a key belongs to one call for good, and a done row stays done: what was
\* once replayed is always replayed.
RowsAreFinal ==
    [][\A k \in Keys : journal[k] # NoRow =>
          /\ journal'[k] # NoRow
          /\ journal'[k].by = journal[k].by
          /\ journal[k].status \in {"done", "failed"} => journal'[k] = journal[k]]_vars

\* A call that reserved its key and whose process lives ends, and a success is never
\* reported before the row can replay it.
ReservedCallSettles ==
    \A c \in Calls :
        call[c].stage = "running" ~>
            \/ call[c].stage \in {"refused", "lost"}
            \/ call[c].stage = "answered" /\ journal[call[c].key].status = "done"

\* src/src/tools/idempotency.ts:27: a key reported "replay-safe" is replayed to the
\* call that asked, not refused.
ReplaySafeIsReplayed ==
    \A c \in Calls : verdict[c] = "replay-safe" => call[c].stage # "refused"
=============================================================================
