\* A daemon whose max_delay_seconds exceeds the clamp of retryTask.
SPECIFICATION Spec
CONSTANTS
    TaskIds = {t1}
    Workers = {w1}
    Procs = {p1}
    NoLease = NoLease
    NoWorker = NoWorker
    NoBeat = NoBeat
    Priorities = {0}
    AttemptLimits = {3}
    LeaseTerms = {1}
    Delays = {0}
    BaseDelay = 1
    MaxDelay = 2
    DelayCap = 1
    BatchLimit = 1
    MaxForced = 0
    MaxCrashes = 0
PROPERTY BackoffIsDocumented
CHECK_DEADLOCK FALSE
