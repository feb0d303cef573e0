CONSTANTS
    p1 = p1
    s1 = s1
    d1 = d1
    k1 = k1
    a1 = a1
    a2 = a2
    w1 = w1
    w2 = w2
    Absent = Absent
    Sessions = {p1}
    Scopes = {s1}
    DeployIds = {d1}
    Contracts = {k1}
    Addrs = {a1, a2}
    CodeIds <- MCCodeIds
    Wasms <- MCWasms
    Contract = k1
    ContractAddr = a1
    CrashFaults = TRUE
    RpcFaults = TRUE
    MaxCalls = 3
    InitFiles <- DeployedFiles
SPECIFICATION CSpec
INVARIANTS
    DeployedIsLocal
