SPECIFICATION Spec
CONSTANTS
    raw = raw
    events = events
    None = None
    AppendFiles <- MCAppendFiles
    RecordBytes = 2
    FaultPoints <- AllFaultPoints
    MaxUnits = 2
    MaxFaults = 3
    MaxCrashes = 1
INVARIANTS
    AckedUnitsSurvive
    NoPhantomUnits
CHECK_DEADLOCK FALSE
