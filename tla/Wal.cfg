SPECIFICATION Spec
CONSTANTS
    MaxEvents = 4
    MaxCrashes = 2
INVARIANTS
    HistoryInOrder
    AckedLostOnlyToTear
PROPERTIES
    AckedStays
    EverySaveEnds
CHECK_DEADLOCK FALSE
