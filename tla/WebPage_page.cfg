\* One tab and the server: three gestures, one fault at most.
SPECIFICATION FairSpec
CONSTANTS
    a = a
    b = b
    e1 = e1
    e2 = e2
    good = good
    empty = empty
    DefaultEnv = default
    EnvNames = {default, e1, e2}
    Names = {a, b}
    FirstName = b
    Entries <- MCEntries
    NoType = NoType
    Rejected = Rejected
    Undecodable = Undecodable
    InitialFiles <- MCInitialFiles
    FirstClock = 10
    ForeignOps <- MCForeign
    Faults = {"lost", "foreign", "refreshed"}
    Inputs = {good, empty}
    Sanitized <- MCSanitized
    MaxGestures = 3
    MaxInFlight = 2
CHECK_DEADLOCK FALSE
INVARIANT TypeOK
INVARIANT AddressSentIsShown
 
 
INVARIANT PickerOnPageEnv
INVARIANT TableShowsEnv
PROPERTY DeletesShownRecord
 
 
