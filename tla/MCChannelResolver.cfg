CONSTANTS
    juno1 = juno1
    osmosis1 = osmosis1
    localnet = localnet
    EndpointCount = 2
    Networks <- MCNetworks
    EpochIds <- MCEpochIds
    ChainId = juno1
    Profiles <- MCProfiles
SPECIFICATION Spec
INVARIANTS
    TypeOK
    LastSuccessWins
