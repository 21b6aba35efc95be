SPECIFICATION FairSpec
CONSTANTS
    direct = direct
    group = group
    Msgs <- DirectOnly
    GroupMsgs <- None
    ReflectedMsgs <- None
    MaxCorrections = 1
    MaxSessions = 2
    MaxCrashes = 1
    MaxJobs = 1
    MaxInFlight = 1
    InitiallyLoaded = {TRUE}
INVARIANT NothingStranded
INVARIANT DeliveryInv
PROPERTY RemovedStaysRemoved
PROPERTY PendingResolved
CHECK_DEADLOCK FALSE
