SPECIFICATION Spec
CONSTANTS
    None = None
    Channels = {c1}
    MaxPending = 1
    RxCapacity = 3
    Chunk = 2
    PulseMax = 1
    BatchBudget = 1
    MaxOpens = 2
    MaxEvidence = 1
    MaxFaults = 1
CHECK_DEADLOCK FALSE
INVARIANTS
    AnswersAreTrue
    OutputsAreSafe
PROPERTIES
    LinesAnswered
