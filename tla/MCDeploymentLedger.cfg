CONSTANTS
    p1 = p1
    p2 = p2
    s1 = s1
    s2 = s2
    d1 = d1
    d2 = d2
    k1 = k1
    a1 = a1
    a2 = a2
    Absent = Absent
    Contracts <- MCContracts
    Addrs <- MCAddrs
    CodeIds <- MCCodeIds
    Sessions <- MCSessions
    Scopes <- MCScopes
    DeployIds <- MCDeployIds
    CrashFaults = FALSE
    InitFiles <- FreshFiles
SPECIFICATION FaultFreeSpec
INVARIANTS
    TypeOK
PROPERTIES
    LedgerRefinement
