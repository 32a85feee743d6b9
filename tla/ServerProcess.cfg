\* Two server processes on one database, from launch on, one daemon followed.
SPECIFICATION FairSpec
CONSTANTS
    Procs = {p1, p2}
    Workers = {p1, p2}
    Keepers = {p1, p2}
    Scenes <- FewScenes
    MaxMishaps = 1
    NoDaemonRow = NoDaemonRow
    NoCall = NoCall
    Runs = {r1, r2}
    NoRun = NoRun
    MaxLines = 2
    MaxJobs = 1
    Gone = Gone
    NoJob = NoJob
    SnapshotIds = {s1, s2}
    NoProfile = NoProfile
    NoWriting = NoWriting
INVARIANTS TypeOK UpMeansComplete PromiseKept MemoriesMatchMarks SnapshotsAreBacked
PROPERTIES VersionNeverFalls NothingIsForgotten ProfileBirthStays EveryProcessComesUp SquishDrains
CHECK_DEADLOCK FALSE
