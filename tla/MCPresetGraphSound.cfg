\* Every registry of two models whose belongs_to cycles are not capped. Deadlock: startup may fail.
SPECIFICATION Spec
CONSTANTS
    D = D
    S = S
    Models = {D, S}
    Names <- MCNames
    Rank <- MCRank
    Registries <- SoundRegistries
    ExtraPaths <- MCExtraPaths
    DefaultMaxDepth = 3
    StackLimit = 8
    MaxHops = 4
CHECK_DEADLOCK FALSE
INVARIANT RecursionEnds
INVARIANT CutOnlyAtMaxDepth
INVARIANT JoinsHaveAliases
INVARIANT AliasMapIsTree
INVARIANT PresetPathsAccepted
INVARIANT AddedPathsBounded
