\* Two calls with one key: is a key that mutation.check reports "replay-safe" replayed?
SPECIFICATION Spec
CONSTANTS
    Calls = {c1, c2}
    Keys = {k1}
    Requests = {r1}
    Procs = {p1}
    NoRow = NoRow
    Nothing = Nothing
    MaxFaults = 0
INVARIANT ReplaySafeIsReplayed
CHECK_DEADLOCK FALSE
