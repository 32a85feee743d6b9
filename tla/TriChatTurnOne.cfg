\* One server process, two turns, a watchdog with a batch of one.
SPECIFICATION FairSpec
CONSTANTS
    TurnIds = {t1, t2}
    Procs = {p1}
    Advances <- FewAdvances
    BatchLimit = 1
    Keep = Keep
    NoJob = NoJob
    MaxCrashes = 1
INVARIANTS AutoFinalizationInvariants
PROPERTIES TerminalIsFinal PhasesGoForward StalledTurnsEnd
CHECK_DEADLOCK FALSE
