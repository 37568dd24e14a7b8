SPECIFICATION HedgeSpec
CONSTANTS
    Deltas <- SomeDeltas
    Gammas <- SomeGammas
    Equities <- SomeEquities
    Prices <- SomePrices
    Threshold = 90
    HistoryLength = 2
    MaxQty = 100
    MaxDeviation = 10
    MaxMoves = 4
PROPERTIES
    FreshHedgeHelps
    HedgingSettles
CHECK_DEADLOCK FALSE
