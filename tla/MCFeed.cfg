SPECIFICATION FairSpec
CONSTANTS
    u1 = u1
    Items = {1, 2}
    Users = {u1}
    Requests = {r1}
    Rules = {k1}
    Retentions = {0}
    Owner <- MCOwner
    Lookback = 0
    Keep = 0
    Limit = 1
    Capacity = 2
    Days = 1
    MaxActs = 2
    MaxFaults = 1
INVARIANTS
    TypeOK
    OpinionIsKept
PROPERTIES
    NothingLikedIsCollected
    DeletionLeavesSignal
    ImplementsLessons
    SignalsAreLearned
CHECK_DEADLOCK FALSE
