CONSTANTS
    PubKeys <- MCPubKeys
    ChainPrefixes <- MCPrefixes
    Hash160 <- MCHash160
    Sha256First20 <- MCSha256First20
SPECIFICATION Spec
INVARIANT RoundTrip
