SPECIFICATION FairSpec
CONSTANTS
    None = None
    Sources = {1, 2, 3}
    Enhanced = TRUE
    Requests = {"reacquire", "action"}
    Hazards = {"disconnect", "input", "persist", "close", "open", "mismatch", "control"}
    MaxEvents = 1
    MaxRequests = 2
    MaxFaults = 2
INVARIANTS
    JournalIsAPath
PROPERTIES
    ShutdownCompletes
    ReconnectResolves
    FailedSessionEndsOwnership
