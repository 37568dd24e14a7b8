SPECIFICATION Spec
CONSTANTS
    o1 = o1
    o2 = o2
    Orders <- TwoOrders
    Adapters = {"mock", "real"}
    MaxRetries = 2
    PostRetries = 2
INVARIANTS
    PostsBounded
    DuplicatesAreUnheard
PROPERTY
    EveryCallEnds
CHECK_DEADLOCK FALSE
