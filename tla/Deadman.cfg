SPECIFICATION HistorySpec
CONSTANTS
    o1 = o1
    o2 = o2
    w1 = w1
    w2 = w2
    NoWatcher = NoWatcher
    Orders <- TwoOrders
    Watchers <- TwoWatchers
    Moves = {"FILLED"}
    Timeout = 2
INVARIANT
    DeadmanBound
PROPERTIES
    HaltIsExact
    SilenceHalts
    StopEndsTheSwitch
    NoHaltAfterStop
