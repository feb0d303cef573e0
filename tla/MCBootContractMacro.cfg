CONSTANTS
    Crates <- MCCrates
    Name = "Cw20Base"
SPECIFICATION Spec
INVARIANTS
    CompilesIffComplete
