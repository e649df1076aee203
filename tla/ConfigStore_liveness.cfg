\* Every operation returns: two goroutines, a crash, a disk that may fail.
SPECIFICATION FairSpec
CONSTANTS
    Procs = {p1, p2}
    Readers = {}
    DefaultEnv = default
    e1 = e1
    EnvNames = {default, e1}
    h1 = h1
    Names = {h1}
    v1 = v1
    v2 = v2
    Entries = {v1, v2}
    NoType = NoType
    Rejected = Rejected
    Missing = Missing
    Empty = Empty
    Corrupt = Corrupt
    InitialFiles <- MCInitialFiles
    Requests <- MCRequests
    FirstClock = 10
    NumCaches = 1
    MaxRequests = 2
    MaxCrashes = 1
    DiskFaults = TRUE
CHECK_DEADLOCK FALSE
PROPERTY RequestsEnd
