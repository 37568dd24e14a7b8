SPECIFICATION FairSpec
CONSTANTS
    s1 = s1
    s2 = s2
    t1 = t1
    t2 = t2
    NoSocket = NoSocket
    NoTimer = NoTimer
    Sockets <- TwoSockets
    Clients <- TwoSockets
    Timers <- TwoTimers
    MaxEffects = 2
    QueueSize = 2
    MaxPublished = 3
INVARIANTS
    QueueIsLatest
    LiveIsCurrent
    NeverStranded
PROPERTIES
    NoStepBack
    LatestIsShown
    ClosedSessionsEnd
CHECK_DEADLOCK FALSE
