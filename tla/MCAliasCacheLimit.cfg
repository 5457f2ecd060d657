\* As MCAliasCacheAll, for what the manual says of ALIAS_CACHE_MAX_BYTES.
SPECIFICATION Spec
CONSTANTS
    t1 = t1
    t2 = t2
    Threads <- TwoThreads
    Requests <- MixedRequests
    Unbuildable <- BrokenOnly
    Refused <- NowhereOnly
    Addresses = {1, 2, 3, 4}
    TTL = 1
    SweepFreq = 2
    MaxBytes = 2
    MaxWait = 1
    Horizon = 4
    MaxGrown = 1
INVARIANT MaxBytesForCache
SYMMETRY Symmetry
