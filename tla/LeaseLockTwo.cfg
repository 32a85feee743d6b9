\* Two server processes on one database.
SPECIFICATION Spec
CONSTANTS
    Owners = {o1, o2, o3}
    Procs = {p1, p2}
    Terms = {1}
    NoRow = NoRow
    NoWrite = NoWrite
INVARIANT SingleFlight
