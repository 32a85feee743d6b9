\* Two server processes on one turn, interleaved at every statement.
SPECIFICATION Spec
CONSTANTS
    TurnIds = {t1}
    Procs = {p1, p2}
    Advances <- TwoAdvances
    BatchLimit = 1
    Keep = Keep
    NoJob = NoJob
    MaxCrashes = 1
SYMMETRY Symmetry
INVARIANTS TypeOK EvidenceComesFirst
CHECK_DEADLOCK FALSE
