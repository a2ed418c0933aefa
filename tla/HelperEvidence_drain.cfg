SPECIFICATION FairSpec
CONSTANTS
    None = None
    Capacity = 3
    DescriptorCapacity = 2
    IsrBuffer = 4
    Staging = 2
    BatchBudget = 2
    Interval = 1
    Hazards = {"stall", "driver"}
    MaxReceived = 4
    MaxTime = 2
    MaxOpens = 2
    MaxRollovers = 1
INVARIANTS
    RingHoldsNewest
    EveryByteAccounted
    OrderedEvidence
    LossIsReported
PROPERTIES
    EvidenceDrains
