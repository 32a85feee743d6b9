\* Two processes with the autopilot, one task, ticks of several sessions.
SPECIFICATION Spec
CONSTANTS
    Procs = {p1, p2}
    Ticks = {t1, t2, t3}
    MaxBucket = 1
    MaxAttempts = 2
    MaxErrors = 2
    Budgets <- FewBudgets
    NoTick = NoTick
    Ended = Ended
    Stuck = Stuck
    Died = Died
    NoRow = NoRow
    Free = Free
INVARIANTS TypeOK CommandsRunOnce SingleFlight RunAgreesWithTask NothingLeftBehind
SYMMETRY Symmetry
CHECK_DEADLOCK FALSE
