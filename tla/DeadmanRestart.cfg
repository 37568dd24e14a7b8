SPECIFICATION HistorySpec
CONSTANTS
    o1 = o1
    o2 = o2
    w1 = w1
    w2 = w2
    NoWatcher = NoWatcher
    Orders <- OneOrder
    Watchers <- TwoWatchers
    Moves = {"FILLED"}
    Timeout = 2
PROPERTY
    StopStopsWatching
