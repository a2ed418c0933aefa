SPECIFICATION Spec
CONSTANTS
    None = None
    Sources = {1, 2, 3}
    Enhanced = FALSE
    Requests = {"reacquire", "action", "monitor"}
    Hazards = {"disconnect", "input", "persist", "close", "open", "mismatch", "late", "control", "refail"}
    MaxEvents = 1
    MaxRequests = 2
    MaxFaults = 2
INVARIANTS
    OwnershipIsSound
PROPERTIES
    OpensOnlyAfterRelease
