\* One server process, three owners: the promise of the lock under interleaved calls,
\* expiry, renewal, forced release and crashes.
SPECIFICATION Spec
CONSTANTS
    Owners = {o1, o2, o3}
    Procs = {p1}
    Terms = {1, 2, 3}
    NoRow = NoRow
    NoWrite = NoWrite
INVARIANTS TypeOK SingleFlight GrantMatchesRow
