SPECIFICATION FairSpec
CONSTANTS
    c1 = c1
    c2 = c2
    Callbacks <- TwoCallbacks
    Types <- BusTypes
    PriorityOf <- BusPriorities
    NameRank <- BusNames
    Subscriptions <- BusSubscriptions
    StaleAfter = 0
    MaxPublished = 3
INVARIANT
    JoinBalance
PROPERTIES
    EachCalledOnce
    EveryEventTaken
    ImplementsFifo
