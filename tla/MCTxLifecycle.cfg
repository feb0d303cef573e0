CONSTANTS
    c1 = c1
    c2 = c2
    None = None
    Commits <- MCCommits
    ComputedFees <- MCComputedFees
    MaxRetries = 2
    TimeoutHorizon = 2
    MaxHeight = 4
    InitHeights = {1, 2}
    RequiredFee = 2
    RpcFaults = TRUE

SPECIFICATION Spec

INVARIANTS
    TypeOK
    
    AtMostOnceExecution

PROPERTIES
    CommitTerminates
