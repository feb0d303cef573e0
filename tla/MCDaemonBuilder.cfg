CONSTANTS
    g1 = g1
    w1 = w1
    None = None
    Chains <- MCChains
    Denoms = {"my_token"}
    GasPrices = {1}
    Urls = {"http://localhost:9090"}
    DeploymentIds = {"v0.1.0"}
    Mnemonics = {"words", "bad"}
    ValidWords = {"words"}
    Wallets = {w1}
    Granters = {g1}
    HdIndexes = {0}
    DenomLen <- MCDenomLen
    EnvMnemonic = FALSE
    Contracts <- MCContracts
    CodeIds = {1}
SPECIFICATION Spec
INVARIANTS
    TypeOK
PROPERTIES
    BuiltAsConfigured
