SPECIFICATION HistorySpec
CONSTANTS
    o1 = o1
    o2 = o2
    t1 = t1
    t2 = t2
    t3 = t3
    NoTask = NoTask
    Orders <- OneOrder
    Tasks <- ThreeTasks
    GcTimeout = 2
    ReportStatuses <- AllStatuses
    MaxBus = 1
INVARIANT
    NoForgottenPartial
PROPERTIES
    ImplementsWatch
    FinalReportStopsWatches
    CancelNotEarly
