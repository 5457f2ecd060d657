\* Direct and through branches of two or three items, up to three rows, limit
\* two; polymorphic branches of the item itself, two models and a type without
\* one; the presets, rows and dictionaries of MCFinalize.
SPECIFICATION MCSpec
CONSTANTS
    p1 = p1
    p2 = p2
    f1 = f1
    f2 = f2
    Parents = {p1, p2}
    Finals = {f1, f2}
    None = None
    Shapes <- GoodShapes
    MaxLimit = 2
    MaxLinks = 3
    MaxItems = 3
    Order = Order
    Person = Person
    Robot = Robot
    NoValue = NoValue
    Types <- AllTypes
    Resolvable <- KnownTypes
    Ids = {1, 2}
    Levels = {"root"}
    MaxRefs = 2
    Cases <- MCCases
    MaxNesting = 2
CHECK_DEADLOCK FALSE
SYMMETRY AllSymmetry
INVARIANT BranchIsJoin
INVARIANT BranchIsBeginningOfJoin
INVARIANT BranchIsReferenced
INVARIANT FormattersSeeDependencies
INVARIANT ContainersKept
INVARIANT OnlyVisibleKeys
INVARIANT Localized
INVARIANT OppositesAgree
