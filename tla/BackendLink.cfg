SPECIFICATION Spec
CONSTANTS
    None = None
    Callers = {a, b}
    QueueCapacity = 1
    MaxEvents = 2
    MaxLoad = 2
    PayloadSize = 2
    MaxChunks = 3
CHECK_DEADLOCK FALSE
INVARIANTS
    ReportsAreTrue
    NothingReceivedLost
PROPERTIES
    CloseSettles
