\* Requests with different metrics share the map of the cache.
SPECIFICATION Spec
CONSTANTS
    sums = sums
    ages = ages
    both = both
    Requests = {sums, ages, both}
    Built <- MCBuilt
    Paths <- MCPaths
INVARIANT NoAliasConflict
CHECK_DEADLOCK FALSE
