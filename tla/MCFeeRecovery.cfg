CONSTANTS
    Sims <- SmallSims
    Prices <- MCPrices
    Denom <- MCDenom
SPECIFICATION Spec
INVARIANTS
    FeeRecovered
