\* One server process: what its sequential handlers guarantee beyond the two-process run,
\* and the progress of the auto-retry daemon with a batch of one.
SPECIFICATION FairSpec
CONSTANTS
    TaskIds = {t1, t2}
    Workers = {w1, w2}
    Procs = {p1}
    NoLease = NoLease
    NoWorker = NoWorker
    NoBeat = NoBeat
    Priorities = {0, 1}
    AttemptLimits = {1, 3}
    LeaseTerms = {1}
    Delays = {0}
    BaseDelay = 1
    MaxDelay = 2
    DelayCap = 3
    BatchLimit = 1
    MaxForced = 0
    MaxCrashes = 1
INVARIANTS TimelineAgrees
PROPERTIES LeaseExtendedByOwner BackoffIsDocumented FailedGetsRetried
CHECK_DEADLOCK FALSE
