CONSTANT
    Files <- MCFiles
SPECIFICATION Spec
INVARIANTS
    FaultsFound
    NoPresetTwice
    FieldsAsDeclared
    RelationsAsDeclared
PROPERTY
    LoadingEnds
CHECK_DEADLOCK FALSE
