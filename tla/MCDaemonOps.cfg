CONSTANTS
    n1 = n1
    n2 = n2
    w1 = w1
    w2 = w2
    Nodes <- MCNodes
    Wallets <- MCWallets
    WalletNode <- MCWalletNode
    Amounts = {0, 2}
    Uploadables <- MCUploadables
    CargoDirs <- MCCargoDirs
    Artifacts <- MCArtifacts
    RpcFaults = TRUE
    MaxHeight = 5
    MaxOps = 2
SPECIFICATION Spec
INVARIANTS
    TypeOK
PROPERTIES
    OperationsReturn
