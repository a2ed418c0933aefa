SPECIFICATION FairSpec
CONSTANTS
    None = None
    Sources = {1, 2, 3}
    Enhanced = TRUE
    Requests = {"release", "reacquire", "action"}
    Hazards = {"input", "persist", "close", "open", "mismatch", "control"}
    MaxEvents = 2
    MaxRequests = 3
    MaxFaults = 1
INVARIANTS
    ReacquireSettles
PROPERTIES
    EvidenceKept
    RequestsReturn
