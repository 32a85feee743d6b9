------------------------------ MODULE LeaseLock ------------------------------
(***************************************************************************)
(* lock.acquire and lock.release: acquireLock and releaseLock of           *)
(* src/src/storage.ts, for one lock_key (rows of two keys never meet).     *)
(*                                                                         *)
(* Neither operation is a transaction: each reads the row, decides, and    *)
(* then writes by lock_key alone.  A server process is busy between the    *)
(* two statements; another process is not.                                 *)
(*                                                                         *)
(* Time is relative: left counts down to lease_expires_at, and granted[o]  *)
(* to the expiry that owner o was told, so granted[o] > 0 means that o     *)
(* believes it holds the lock.                                             *)
(***************************************************************************)
EXTENDS Naturals

CONSTANTS
    Owners,       \* the owner_ids of callers
    Procs,        \* server processes on the same database
    Terms,        \* lease_seconds callers pass
    NoRow,        \* no row in table locks
    NoWrite       \* the process is between no two statements

ASSUME LockAssumption ==
    /\ Terms \subseteq Nat \ {0}
    /\ NoRow \notin [owner : Owners, left : Nat]
    /\ NoWrite \notin [op : {"insert", "update", "delete"}, owner : Owners, left : Nat]

VARIABLES
    row,          \* the row of the lock in table locks
    pending,      \* pending[p]: the write p decided on and has yet to make
    granted       \* granted[o]: time left on the lease o was told it has, 0 for none

vars == <<row, pending, granted>>

LockRow == [owner : Owners, left : Nat]
Write == [op : {"insert", "update", "delete"}, owner : Owners, left : Nat]

TypeOK ==
    /\ row \in LockRow \cup {NoRow}
    /\ pending \in [Procs -> Write \cup {NoWrite}]
    /\ granted \in [Owners -> Nat]

Init ==
    /\ row = NoRow
    /\ pending = [p \in Procs |-> NoWrite]
    /\ granted = [o \in Owners |-> 0]

-----------------------------------------------------------------------------

Decide(p, op, o, left) ==
    pending' = [pending EXCEPT ![p] = [op |-> op, owner |-> o, left |-> left]]

\* Variant: an expired or active lease is taken all the same.
AcquireAlways(p, o, term) ==
    /\ pending[p] = NoWrite
    /\ \/ row = NoRow /\ Decide(p, "insert", o, term)
       \/ row # NoRow /\ Decide(p, "update", o, term)
    /\ UNCHANGED <<row, granted>>

\* acquireLock up to its decision.  A lease that another owner holds and that has not
\* expired refuses the caller, which changes nothing.
AcquireRead(p, o, term) ==
    /\ pending[p] = NoWrite
    /\ \/ row = NoRow /\ Decide(p, "insert", o, term)
       \/ /\ row # NoRow
          /\ row.owner = o \/ row.left = 0
          /\ Decide(p, "update", o, term)
    /\ UNCHANGED <<row, granted>>

\* Variant: the INSERT leaves lease_expires_at out.
InsertNoExpiry(p) ==
    /\ pending[p] # NoWrite
    /\ pending[p].op = "insert"
    /\ IF row = NoRow
       THEN /\ row' = [owner |-> pending[p].owner]
            /\ granted' = [granted EXCEPT ![pending[p].owner] = pending[p].left]
       ELSE UNCHANGED <<row, granted>>
    /\ pending' = [pending EXCEPT ![p] = NoWrite]

\* The INSERT throws when a row came in between: lock_key is the primary key.
InsertLock(p) ==
    /\ pending[p] # NoWrite
    /\ pending[p].op = "insert"
    /\ IF row = NoRow
       THEN /\ row' = [owner |-> pending[p].owner, left |-> pending[p].left]
            /\ granted' = [granted EXCEPT ![pending[p].owner] = pending[p].left]
       ELSE UNCHANGED <<row, granted>>
    /\ pending' = [pending EXCEPT ![p] = NoWrite]

\* Variant: the lease keeps its old expiry.
RenewNothing(p) ==
    /\ pending[p] # NoWrite
    /\ pending[p].op = "update"
    /\ row' = IF row = NoRow THEN NoRow ELSE [row EXCEPT !.owner = pending[p].owner]
    /\ granted' = [granted EXCEPT ![pending[p].owner] = pending[p].left]
    /\ pending' = [pending EXCEPT ![p] = NoWrite]

\* A renewal by the owner, or the theft of an expired lease, as acquireLock decided it.
\* The UPDATE names the lock_key only and its change count is not looked at: the caller
\* is told "acquired" whoever holds the row by then, or when there is none.
UpdateLock(p) ==
    /\ pending[p] # NoWrite
    /\ pending[p].op = "update"
    /\ row' = IF row = NoRow THEN NoRow
              ELSE [owner |-> pending[p].owner, left |-> pending[p].left]
    /\ granted' = [granted EXCEPT ![pending[p].owner] = pending[p].left]
    /\ pending' = [pending EXCEPT ![p] = NoWrite]

\* releaseLock up to its decision.  The caller gives the lock up by calling; with force
\* it takes it away from whoever the row names.
ReleaseRead(p, o, force) ==
    /\ pending[p] = NoWrite
    /\ row # NoRow
    /\ force \/ row.owner = o
    /\ Decide(p, "delete", o, 0)
    /\ granted' = [granted EXCEPT ![o] = 0, ![row.owner] = 0]
    /\ UNCHANGED row

\* The DELETE names the lock_key only.
DeleteLock(p) ==
    /\ pending[p] # NoWrite
    /\ pending[p].op = "delete"
    /\ row' = NoRow
    /\ pending' = [pending EXCEPT ![p] = NoWrite]
    /\ UNCHANGED granted

\* A process dies between two statements.  The row it wrote earlier stays until it
\* expires.
Crash(p) ==
    /\ pending[p] # NoWrite
    /\ pending' = [pending EXCEPT ![p] = NoWrite]
    /\ UNCHANGED <<row, granted>>

Less1(n) == IF n = 0 THEN 0 ELSE n - 1

\* One unit of time.  acquireLock computes the new expiry before it reads the row.
Tick ==
    /\ row' = IF row = NoRow THEN NoRow ELSE [row EXCEPT !.left = Less1(@)]
    /\ granted' = [o \in Owners |-> Less1(granted[o])]
    /\ pending' = [p \in Procs |->
           IF pending[p] = NoWrite THEN NoWrite ELSE [pending[p] EXCEPT !.left = Less1(@)]]

Serve(p) ==
    \/ \E o \in Owners, term \in Terms : AcquireRead(p, o, term)
    \/ \E o \in Owners, force \in BOOLEAN : ReleaseRead(p, o, force)
    \/ InsertLock(p)
    \/ UpdateLock(p)
    \/ DeleteLock(p)

Next == Tick \/ \E p \in Procs : Serve(p) \/ Crash(p)

Spec == Init /\ [][Next]_vars

-----------------------------------------------------------------------------
(* Properties *)

\* README.md:34 "single-flight leases", which the autopilot takes through lock.acquire:
\* at most one owner is inside an unexpired lease it was granted.
SingleFlight ==
    \A o, q \in Owners : granted[o] > 0 /\ granted[q] > 0 => o = q

\* What an owner was told is what the table says: nobody else can acquire before that
\* time is up, and the lock is free once it is.
GrantMatchesRow ==
    \A o \in Owners : granted[o] > 0 =>
        row # NoRow /\ row.owner = o /\ row.left = granted[o]
=============================================================================
