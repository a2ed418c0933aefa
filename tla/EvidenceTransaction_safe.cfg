SPECIFICATION FairSpec
CONSTANTS
    raw = raw
    events = events
    None = None
    AppendFiles <- MCAppendFiles
    RecordBytes = 2
    FaultPoints <- TolerableFaults
    MaxUnits = 2
    MaxFaults = 2
    MaxCrashes = 2
CHECK_DEADLOCK FALSE
INVARIANTS
    TypeOK
    UnitsAreWhole
    TerminalIsFinal
    StartupIsNeverBlocked
PROPERTIES
    InterruptedSessionsResolve
    ImplementsEvidenceLog
