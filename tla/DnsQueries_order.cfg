\* Which solver answers, and whether any does: two queries, one save, one container event.
SPECIFICATION QSpec
CONSTANTS
    Queries = {q1, q2}
    Procs = {q1, q2, w}
    Readers = {q1, q2}
    DefaultEnv = default
    EnvNames = {default}
    n1 = n1
    w1 = w1
    Names = {n1, w1}
    v1 = v1
    v2 = v2
    Entries = {v1, v2}
    NoType = NoType
    Rejected = Rejected
    Missing = Missing
    Empty = Empty
    Corrupt = Corrupt
    None = None
    InitialFiles <- MCInitialFiles
    Requests <- MCRequests
    FirstClock = 10
    NumCaches = 3
    MaxRequests = 1
    MaxCrashes = 0
    DiskFaults = FALSE
    Question <- MCQuestion
    Candidates <- MCCandidates
    Ttl <- MCTtl
    RemoteTtl = 1
    TtlModulus = 100
    NumServers = 2
    MaxTime = 0
    MaxPause = 1
    MaxDockerEvents = 1
SYMMETRY MCSymmetry
CHECK_DEADLOCK FALSE
INVARIANT PanicNeedsInterference
INVARIANT OrderWhenUndisturbed
PROPERTY UnansweredNeedsTimeout
