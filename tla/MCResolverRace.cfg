\* One request: two through tails, a tail with a tail, a polymorphic branch.
SPECIFICATION Spec
CONSTANTS
    main = main
    other = other
    members = members
    owners = owners
    items = items
    cards = cards
    subject = subject
    author = author
    Calls <- RaceCalls
    Kind <- RaceKind
    Parent <- RaceParent
    PoolSize = 2
INVARIANT TypeOK
INVARIANT CompleteStitch
INVARIANT NothingLeftRunning
INVARIANT NoHoldAndWait
PROPERTY AllOrNothing
