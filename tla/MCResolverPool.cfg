\* Two requests with tails and polymorphic branches share one connection.
SPECIFICATION FairSpec
CONSTANTS
    main = main
    other = other
    members = members
    owners = owners
    items = items
    cards = cards
    subject = subject
    author = author
    Calls <- PoolCalls
    Kind <- PoolKind
    Parent <- PoolParent
    PoolSize = 1
PROPERTY RequestsAnswered
