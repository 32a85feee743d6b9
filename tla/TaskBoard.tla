------------------------------ MODULE TaskBoard ------------------------------
(***************************************************************************)
(* What the task queue of src/src/storage.ts promises its clients, with no *)
(* clocks, leases, priorities or processes: a task waits, is held by one   *)
(* worker at a time, and is left by that worker alone.  Every grant is a   *)
(* new attempt, and a completed task stays completed.                      *)
(***************************************************************************)
EXTENDS Naturals

CONSTANTS TaskIds, Workers, NoWorker

VARIABLES
    phase,      \* phase[t]: the status a reader of the task sees
    holder,     \* holder[t]: the worker that holds the task, or NoWorker
    attempt,    \* attempt[t]: how many times the task was granted
    signedBy    \* signedBy[t]: the worker whose call changed it last

boardVars == <<phase, holder, attempt, signedBy>>

BoardInit ==
    /\ phase = [t \in TaskIds |-> "absent"]
    /\ holder = [t \in TaskIds |-> NoWorker]
    /\ attempt = [t \in TaskIds |-> 0]
    /\ signedBy = [t \in TaskIds |-> NoWorker]

Post(t) ==
    /\ phase[t] = "absent"
    /\ phase' = [phase EXCEPT ![t] = "pending"]
    /\ UNCHANGED <<holder, attempt, signedBy>>

Take(t, w) ==
    /\ phase[t] = "pending"
    /\ holder[t] = NoWorker
    /\ phase' = [phase EXCEPT ![t] = "running"]
    /\ holder' = [holder EXCEPT ![t] = w]
    /\ attempt' = [attempt EXCEPT ![t] = attempt[t] + 1]
    /\ signedBy' = [signedBy EXCEPT ![t] = w]

\* Only the holder's signature ends a running attempt.
Leave(t, outcome) ==
    /\ phase[t] = "running"
    /\ holder[t] # NoWorker
    /\ phase' = [phase EXCEPT ![t] = outcome]
    /\ signedBy' = [signedBy EXCEPT ![t] = holder[t]]
    /\ holder' = [holder EXCEPT ![t] = NoWorker]
    /\ UNCHANGED attempt

Requeue(t) ==
    /\ phase[t] = "failed"
    /\ phase' = [phase EXCEPT ![t] = "pending"]
    /\ UNCHANGED <<holder, attempt, signedBy>>

BoardNext ==
    \E t \in TaskIds :
        \/ Post(t)
        \/ \E w \in Workers : Take(t, w)
        \/ \E outcome \in {"completed", "failed"} : Leave(t, outcome)
        \/ Requeue(t)

BoardSpec == BoardInit /\ [][BoardNext]_boardVars
=============================================================================
