\* Three calls, two keys, two requests, two processes, two faults.
SPECIFICATION FairSpec
CONSTANTS
    Calls = {c1, c2, c3}
    Keys = {k1, k2}
    Requests = {r1, r2}
    Procs = {p1, p2}
    NoRow = NoRow
    Nothing = Nothing
    MaxFaults = 2
INVARIANTS TypeOK AtMostOnce AnswersAgree
PROPERTIES RowsAreFinal ReservedCallSettles
CHECK_DEADLOCK FALSE
