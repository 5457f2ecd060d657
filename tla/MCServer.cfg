SPECIFICATION Spec
CONSTANTS
    Requests = {"first", "second"}
    Readers = {"first", "second"}
    Calls <- MCCalls
    Configs <- MCConfigs
    OldLogs <- MCOldLogs
    MaxLogLimit = 3
    Widths = {2}
    ChunkSize = 3
    MaxNow = 3
    MaxOutages = 1
INVARIANTS
    TokensJudgedRight
    TailExact
    AnswersMatchDatabase
    VaryWhenDependent
PROPERTY EveryCallEnds
CHECK_DEADLOCK FALSE
