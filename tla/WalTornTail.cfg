SPECIFICATION Spec
CONSTANTS
    MaxEvents = 2
    MaxCrashes = 1
INVARIANT
    AckedIsRecovered
CHECK_DEADLOCK FALSE
