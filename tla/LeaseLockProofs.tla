--------------------------- MODULE LeaseLockProofs ---------------------------
(***************************************************************************)
(* The lock served by one process, for any owners and lease terms.         *)
(***************************************************************************)
EXTENDS LeaseLock, TLAPS

\* What a process decided after its SELECT still holds when it writes.
DecisionStands(p) ==
    LET w == pending[p] IN
    w # NoWrite =>
        /\ w.op = "insert" => row = NoRow
        /\ w.op = "update" => row # NoRow /\ (row.owner = w.owner \/ row.left = 0)
        /\ w.op = "delete" => \A o \in Owners : granted[o] = 0

LockInv == TypeOK /\ GrantMatchesRow /\ \A p \in Procs : DecisionStands(p)

\* A row names at most one owner.
LEMMA MatchIsSingleFlight == GrantMatchesRow => SingleFlight
BY DEF GrantMatchesRow, SingleFlight

LEMMA InitLockInv == Init => LockInv
BY DEF Init, LockInv, TypeOK, GrantMatchesRow, DecisionStands

\* The null values are no records.
LEMMA NotNull ==
    /\ \A o \in Owners, n \in Nat : [owner |-> o, left |-> n] \in LockRow
                                    /\ [owner |-> o, left |-> n] # NoRow
    /\ \A op \in {"insert", "update", "delete"}, o \in Owners, n \in Nat :
          /\ [op |-> op, owner |-> o, left |-> n] \in Write
          /\ [op |-> op, owner |-> o, left |-> n] # NoWrite
BY LockAssumption DEF LockAssumption, LockRow, Write

LEMMA AcquireKeepsInv ==
    ASSUME NEW p \in Procs, Procs = {p}, LockInv, NEW o \in Owners, NEW term \in Terms,
           AcquireRead(p, o, term)
    PROVE  LockInv'
<1>1. term \in Nat
  BY LockAssumption DEF LockAssumption
<1>2. PICK op \in {"insert", "update"} :
        /\ Decide(p, op, o, term)
        /\ op = "insert" => row = NoRow
        /\ op = "update" => row # NoRow /\ (row.owner = o \/ row.left = 0)
  BY DEF AcquireRead
<1>3. /\ pending'[p] = [op |-> op, owner |-> o, left |-> term]
      /\ pending' \in [Procs -> Write \cup {NoWrite}]
  BY <1>1, <1>2, NotNull DEF Decide, LockInv, TypeOK
<1>4. UNCHANGED <<row, granted>>
  BY DEF AcquireRead
<1>5. TypeOK' /\ GrantMatchesRow'
  BY <1>3, <1>4 DEF LockInv, TypeOK, GrantMatchesRow
<1>6. DecisionStands(p)'
  BY <1>2, <1>3, <1>4 DEF DecisionStands
<1>7. QED BY <1>5, <1>6 DEF LockInv

LEMMA ReleaseKeepsInv ==
    ASSUME NEW p \in Procs, Procs = {p}, LockInv, NEW o \in Owners, NEW force \in BOOLEAN,
           ReleaseRead(p, o, force)
    PROVE  LockInv'
<1>1. /\ pending'[p] = [op |-> "delete", owner |-> o, left |-> 0]
      /\ pending' \in [Procs -> Write \cup {NoWrite}]
  BY NotNull DEF ReleaseRead, Decide, LockInv, TypeOK
<1>2. /\ row' = row /\ row # NoRow /\ row.owner \in Owners
      /\ granted' = [granted EXCEPT ![o] = 0, ![row.owner] = 0]
  BY DEF ReleaseRead, LockInv, TypeOK, LockRow
<1>3. granted' \in [Owners -> Nat]
  BY <1>2 DEF LockInv, TypeOK
<1>4. \A q \in Owners : granted'[q] = 0
  <2> SUFFICES ASSUME NEW q \in Owners PROVE granted'[q] = 0
    OBVIOUS
  <2>1. CASE q = row.owner \/ q = o
    BY <1>2, <2>1 DEF LockInv, TypeOK
  <2>2. CASE ~(q = row.owner \/ q = o)
    <3>1. granted'[q] = granted[q] /\ granted[q] \in Nat
      BY <1>2, <2>2 DEF LockInv, TypeOK
    <3>2. ~(granted[q] > 0)
      BY <2>2 DEF LockInv, GrantMatchesRow
    <3>3. QED BY <3>1, <3>2
  <2>3. QED BY <2>1, <2>2
<1>5. TypeOK' /\ GrantMatchesRow'
  BY <1>1, <1>2, <1>3, <1>4 DEF LockInv, TypeOK, GrantMatchesRow
<1>6. DecisionStands(p)'
  BY <1>1, <1>4 DEF DecisionStands
<1>7. QED BY <1>5, <1>6 DEF LockInv

LEMMA WriteKeepsInv ==
    ASSUME NEW p \in Procs, Procs = {p}, LockInv,
           InsertLock(p) \/ UpdateLock(p) \/ DeleteLock(p)
    PROVE  LockInv'
<1> DEFINE w == pending[p]
<1>1. /\ w # NoWrite /\ w.owner \in Owners /\ w.left \in Nat
      /\ pending' = [pending EXCEPT ![p] = NoWrite]
  BY DEF InsertLock, UpdateLock, DeleteLock, LockInv, TypeOK, Write
<1>2. pending' \in [Procs -> Write \cup {NoWrite}] /\ pending'[p] = NoWrite
  BY <1>1 DEF LockInv, TypeOK
<1>3. DecisionStands(p)'
  BY <1>2 DEF DecisionStands
<1>4. CASE InsertLock(p) \/ UpdateLock(p)
  <2>1. /\ row' = [owner |-> w.owner, left |-> w.left]
        /\ granted' = [granted EXCEPT ![w.owner] = w.left]
    BY <1>1, <1>4 DEF InsertLock, UpdateLock, LockInv, DecisionStands
  <2>2. row' \in LockRow /\ row' # NoRow /\ row'.owner = w.owner /\ row'.left = w.left
    BY <1>1, <2>1, NotNull
  <2>3. \A q \in Owners \ {w.owner} : granted[q] = 0
    <3> SUFFICES ASSUME NEW q \in Owners, q # w.owner, granted[q] # 0 PROVE FALSE
      OBVIOUS
    <3>1. granted[q] > 0
      BY DEF LockInv, TypeOK
    <3>2. row # NoRow /\ row.owner = q /\ row.left > 0
      BY <3>1 DEF LockInv, GrantMatchesRow
    <3>3. QED BY <3>2, <1>1, <1>4 DEF InsertLock, UpdateLock, LockInv, DecisionStands
  <2>4. TypeOK'
    BY <1>1, <1>2, <2>1, <2>2 DEF LockInv, TypeOK
  <2>5. GrantMatchesRow'
    BY <1>1, <2>1, <2>2, <2>3 DEF LockInv, TypeOK, GrantMatchesRow
  <2>6. QED BY <1>3, <2>4, <2>5 DEF LockInv
<1>5. CASE DeleteLock(p)
  <2>1. row' = NoRow /\ granted' = granted /\ \A o \in Owners : granted[o] = 0
    BY <1>1, <1>5 DEF DeleteLock, LockInv, DecisionStands
  <2>2. QED BY <1>2, <1>3, <2>1 DEF LockInv, TypeOK, GrantMatchesRow
<1>6. QED BY <1>4, <1>5

\* A second goes by for the row, for what is about to be written and for what was told.
LEMMA TickEffect ==
    ASSUME TypeOK, Tick
    PROVE  /\ \A n \in Nat : Less1(n) \in Nat /\ (n = 0 => Less1(n) = 0) /\ (Less1(n) > 0 => n > 0)
           /\ row = NoRow => row' = NoRow
           /\ row # NoRow => /\ row' \in LockRow /\ row' # NoRow /\ row'.owner = row.owner
                             /\ row'.left = Less1(row.left)
           /\ \A o \in Owners : granted'[o] = Less1(granted[o]) /\ granted[o] \in Nat
           /\ \A p \in Procs :
                 /\ pending[p] = NoWrite => pending'[p] = NoWrite
                 /\ pending[p] # NoWrite =>
                      /\ pending'[p] \in Write /\ pending'[p] # NoWrite
                      /\ pending'[p].op = pending[p].op /\ pending'[p].owner = pending[p].owner
           /\ TypeOK'
<1>1. \A n \in Nat : Less1(n) \in Nat /\ (n = 0 => Less1(n) = 0) /\ (Less1(n) > 0 => n > 0)
  BY DEF Less1
<1>2. /\ row = NoRow => row' = NoRow
      /\ row # NoRow => /\ row' \in LockRow /\ row' # NoRow /\ row'.owner = row.owner
                        /\ row'.left = Less1(row.left)
  <2>1. CASE row = NoRow
    BY <2>1 DEF Tick
  <2>2. CASE row # NoRow
    <3>1. row \in LockRow /\ row' = [row EXCEPT !.left = Less1(row.left)]
      BY <2>2 DEF Tick, TypeOK
    <3>2. row' = [owner |-> row.owner, left |-> Less1(row.left)]
      BY <3>1 DEF LockRow
    <3>3. QED BY <2>2, <3>1, <3>2, <1>1, NotNull DEF LockRow
  <2>3. QED BY <2>1, <2>2
<1>3. \A o \in Owners : granted'[o] = Less1(granted[o]) /\ granted[o] \in Nat
  BY DEF Tick, TypeOK
<1>4. ASSUME NEW p \in Procs
      PROVE  /\ pending[p] = NoWrite => pending'[p] = NoWrite
             /\ pending[p] # NoWrite =>
                  /\ pending'[p] \in Write /\ pending'[p] # NoWrite
                  /\ pending'[p].op = pending[p].op /\ pending'[p].owner = pending[p].owner
  <2>1. CASE pending[p] = NoWrite
    BY <2>1 DEF Tick
  <2>2. CASE pending[p] # NoWrite
    <3> DEFINE w == pending[p]
    <3>1. w \in Write /\ pending'[p] = [w EXCEPT !.left = Less1(w.left)]
      BY <2>2 DEF Tick, TypeOK
    <3>2. pending'[p] = [op |-> w.op, owner |-> w.owner, left |-> Less1(w.left)]
      BY <3>1 DEF Write
    <3>3. QED BY <2>2, <3>1, <3>2, <1>1, NotNull DEF Write
  <2>3. QED BY <2>1, <2>2
<1>5. TypeOK'
  <2>1. pending' \in [Procs -> Write \cup {NoWrite}]
    BY <1>4 DEF Tick
  <2>2. granted' \in [Owners -> Nat]
    BY <1>1, <1>3 DEF Tick
  <2>3. QED BY <1>2, <2>1, <2>2 DEF TypeOK
<1>6. QED BY <1>1, <1>2, <1>3, <1>4, <1>5

LEMMA TickKeepsInv ==
    ASSUME LockInv, Tick
    PROVE  LockInv'
<1>1. TypeOK
  BY DEF LockInv
<1>2. GrantMatchesRow'
  BY <1>1, TickEffect DEF LockInv, GrantMatchesRow
<1>3. ASSUME NEW p \in Procs PROVE DecisionStands(p)'
  BY <1>1, TickEffect DEF LockInv, DecisionStands
<1>4. QED BY <1>1, <1>2, <1>3, TickEffect DEF LockInv

LEMMA StepLockInv ==
    ASSUME NEW p \in Procs, Procs = {p}, LockInv, [Next]_vars
    PROVE  LockInv'
<1>1. ASSUME Serve(p) PROVE LockInv'
  BY <1>1, AcquireKeepsInv, ReleaseKeepsInv, WriteKeepsInv DEF Serve
<1>2. ASSUME Crash(p) PROVE LockInv'
  BY <1>2 DEF Crash, LockInv, TypeOK, GrantMatchesRow, DecisionStands
<1>3. CASE UNCHANGED vars
  BY <1>3 DEF vars, LockInv, TypeOK, GrantMatchesRow, DecisionStands
<1>4. QED BY <1>1, <1>2, <1>3, TickKeepsInv DEF Next

\* The table, the decisions and the leases told are of their types, for any number of
\* processes between whose statements others write.
THEOREM LockTypeCorrect == Spec => []TypeOK
<1>1. Init => TypeOK
  BY DEF Init, TypeOK
<1>2. ASSUME TypeOK, [Next]_vars PROVE TypeOK'
  <2>1. ASSUME NEW p \in Procs, NEW o \in Owners, NEW n \in Nat, NEW op \in {"insert", "update", "delete"},
               Decide(p, op, o, n)
        PROVE  pending' \in [Procs -> Write \cup {NoWrite}]
    BY <1>2, <2>1, NotNull DEF Decide, TypeOK
  <2>2. ASSUME NEW p \in Procs, NEW o \in Owners, NEW term \in Terms, AcquireRead(p, o, term)
        PROVE  TypeOK'
    <3>1. term \in Nat /\ UNCHANGED <<row, granted>>
      BY <2>2, LockAssumption DEF LockAssumption, AcquireRead
    <3>2. Decide(p, "insert", o, term) \/ Decide(p, "update", o, term)
      BY <2>2 DEF AcquireRead
    <3>3. QED BY <1>2, <2>1, <3>1, <3>2 DEF TypeOK
  <2>3. ASSUME NEW p \in Procs, NEW o \in Owners, NEW force \in BOOLEAN, ReleaseRead(p, o, force)
        PROVE  TypeOK'
    <3>1. Decide(p, "delete", o, 0) /\ row' = row /\ granted' = [granted EXCEPT ![o] = 0, ![row.owner] = 0]
      BY <2>3 DEF ReleaseRead
    <3>2. granted' \in [Owners -> Nat]
      BY <1>2, <3>1 DEF TypeOK
    <3>3. pending' \in [Procs -> Write \cup {NoWrite}]
      BY <2>1, <3>1
    <3>4. QED BY <1>2, <3>1, <3>2, <3>3 DEF TypeOK
  <2>4. ASSUME NEW p \in Procs, InsertLock(p) \/ UpdateLock(p) \/ DeleteLock(p)
        PROVE  TypeOK'
    <3> DEFINE w == pending[p]
    <3>1. w # NoWrite /\ w.owner \in Owners /\ w.left \in Nat /\ pending' = [pending EXCEPT ![p] = NoWrite]
      BY <1>2, <2>4 DEF InsertLock, UpdateLock, DeleteLock, TypeOK, Write
    <3>2. row' \in {row, NoRow, [owner |-> w.owner, left |-> w.left]}
      BY <2>4 DEF InsertLock, UpdateLock, DeleteLock
    <3>3. granted' = granted \/ granted' = [granted EXCEPT ![w.owner] = w.left]
      BY <2>4 DEF InsertLock, UpdateLock, DeleteLock
    <3>4. row' \in LockRow \cup {NoRow}
      BY <1>2, <3>1, <3>2 DEF TypeOK, LockRow
    <3>5. pending' \in [Procs -> Write \cup {NoWrite}] /\ granted' \in [Owners -> Nat]
      BY <1>2, <3>1, <3>3 DEF TypeOK
    <3>6. QED BY <3>4, <3>5 DEF TypeOK
  <2>5. ASSUME NEW p \in Procs, Crash(p) PROVE TypeOK'
    BY <1>2, <2>5 DEF Crash, TypeOK
  <2>6. CASE UNCHANGED vars
    BY <1>2, <2>6 DEF vars, TypeOK
  <2>7. QED BY <1>2, <2>2, <2>3, <2>4, <2>5, <2>6, TickEffect DEF Next, Serve
<1>3. QED BY <1>1, <1>2, PTL DEF Spec

\* With one server process, whose SELECT and write no other statement separates, what
\* an owner was told is what the table says until its lease is up, through renewals,
\* thefts, forced releases and crashes.
THEOREM GrantsMatch ==
    ASSUME NEW p \in Procs, Procs = {p}
    PROVE  Spec => []GrantMatchesRow
<1>1. LockInv /\ [Next]_vars => LockInv'
  BY StepLockInv
<1>2. LockInv => GrantMatchesRow
  BY DEF LockInv
<1>3. QED BY <1>1, <1>2, InitLockInv, PTL DEF Spec

\* With one server process, at most one owner is inside an unexpired lease.
THEOREM OneFlight ==
    ASSUME NEW p \in Procs, Procs = {p}
    PROVE  Spec => []SingleFlight
BY GrantsMatch, MatchIsSingleFlight, PTL
=============================================================================
