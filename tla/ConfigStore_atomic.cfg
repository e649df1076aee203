\* One writing goroutine beside one that only loads the file; no failure.
SPECIFICATION Spec
CONSTANTS
    Procs = {p1, p2}
    Readers = {p2}
    DefaultEnv = default
    e1 = e1
    EnvNames = {default, e1}
    h1 = h1
    Names = {h1}
    v1 = v1
    v2 = v2
    Entries = {v1, v2}
    NoType = NoType
    Rejected = Rejected
    Missing = Missing
    Empty = Empty
    Corrupt = Corrupt
    InitialFiles <- MCFilesWithIds
    Requests <- MCRequests
    FirstClock = 10
    NumCaches = 1
    MaxRequests = 4
    MaxCrashes = 0
    DiskFaults = FALSE
CHECK_DEADLOCK FALSE
PROPERTY OneWriterIsAtomic
