SPECIFICATION JournalSpec
CONSTANTS
    Ops = {o1}
    Attempts = {a1}
    Budget = 3
    MaxSegments = 2
    MaxCount = 2
    MaxSessions = 4
    MaxUart = 0
    MaxGaps = 2
    MaxLosses = 0
    MaxMarks = 1
    MaxFaults = 1
    MaxCrashes = 1
    None = None
CHECK_DEADLOCK FALSE
INVARIANTS
    JournalIsWhole
PROPERTIES
    RetentionIsSound
    StartupEnds
