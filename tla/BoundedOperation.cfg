SPECIFICATION Spec
CONSTANTS
    Monitors = {}
    Durations = {d}
    Interacts = {i}
    Sender = s
    None = None
    Inputs <- MCInputs
    MaxLine = 3
    MaxSessions = 2
    MaxFaults = 1
    MaxLoad = 3
INVARIANTS
    MatchIsFirstEligible
    ResultsAreTrue
PROPERTIES
    CallsReturn
    OperationsExclude
