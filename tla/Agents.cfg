SPECIFICATION HostSpec
CONSTANTS
    sig1 = sig1
    sig2 = sig2
    Signals <- TwoSignals
    Deployments <- EachAgent
    Capacity = 7
    FillRate = 2
    Cost = 3
    MaxTime = 6
    MaxQueue = 2
    MaxBatch = 2
    MaxEvents = 3
    Malformed <- OneMalformed
    Close = 1
    EndOfDay = 2
    Amounts <- GainAndLoss
    Kinds <- AllKinds
    MaxFetch = 2
    MaxUpdates = 3
INVARIANTS
    RateBound
    RecorderAccounts
    ReportIsWhole
    CommandsRunOnce
    CleanExit
PROPERTIES
    QueueDrains
    StopHeard
    SignalEnds
    HealthyReports
CHECK_DEADLOCK FALSE
