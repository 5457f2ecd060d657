\* A preset that selects itself. Deadlock: walks stop at StackLimit.
SPECIFICATION Spec
CONSTANTS
    D = D
    S = S
    Models = {D, S}
    Names <- MCNames
    Rank <- MCRank
    Registries <- SelfSelecting
    ExtraPaths <- MCExtraPaths
    DefaultMaxDepth = 3
    StackLimit = 8
    MaxHops = 6
CHECK_DEADLOCK FALSE
INVARIANT WithinMaxDepth
