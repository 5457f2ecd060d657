CONSTANTS
    Models <- MCModels
    Root = "Person"
    Shown = {"paid"}
    Requests <- MCRequests
    Depth = 2
    Lower <- MCLower
    Rows <- MCRows
    Turns = 6
SPECIFICATION Spec
INVARIANTS
    RowsAsAsked
    NoAggregateInWhere
    EveryPathJoined
PROPERTY
    QueryBuilt
CHECK_DEADLOCK FALSE
