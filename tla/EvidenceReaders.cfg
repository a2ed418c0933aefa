SPECIFICATION ReadersSpec
CONSTANTS
    Ops = {o1}
    Attempts = {}
    Budget = 3
    MaxSegments = 2
    MaxCount = 1
    MaxSessions = 3
    MaxUart = 2
    MaxGaps = 0
    MaxLosses = 0
    MaxMarks = 0
    MaxFaults = 1
    MaxCrashes = 1
    PageLimit = 3
    None = None
CHECK_DEADLOCK FALSE
INVARIANTS
    ReaderIsExact
    TailIsExact
PROPERTIES
    TailCatchesUp
