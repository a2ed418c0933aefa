SPECIFICATION Spec
CONSTANTS
    None = None
    Channels = {0, 1}
    Received <- MCReceived
    MaxLine = 2
    Budget = 7
    Lines = 1
    PageLimit = 1
    Attempts = 2
    MaxLoad = 3
    MaxSessions = 4
CHECK_DEADLOCK FALSE
INVARIANTS
    LinesAreExact
    ReadsAreConsistent
