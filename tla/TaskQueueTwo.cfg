\* Two server processes, two workers, two tasks: stale reads in every order.
SPECIFICATION Spec
CONSTANTS
    TaskIds = {t1, t2}
    Workers = {w1, w2}
    Procs = {p1, p2}
    NoLease = NoLease
    NoWorker = NoWorker
    NoBeat = NoBeat
    Priorities = {0}
    AttemptLimits = {1, 2}
    LeaseTerms = {1}
    Delays = {0, 1}
    BaseDelay = 0
    MaxDelay = 0
    DelayCap = 1
    BatchLimit = 2
    MaxForced = 1
    MaxCrashes = 1
SYMMETRY TaskSymmetry
INVARIANTS TypeOK LeaseIffRunning AttemptsWithinBudget
PROPERTY ImplementsBoard
CHECK_DEADLOCK FALSE
