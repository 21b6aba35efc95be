SPECIFICATION Spec
CONSTANTS
    direct = direct
    group = group
    Msgs <- GroupOnly
    GroupMsgs <- GroupOnly
    ReflectedMsgs <- GroupOnly
    MaxCorrections = 1
    MaxSessions = 2
    MaxCrashes = 1
    MaxJobs = 1
    MaxInFlight = 1
    InitiallyLoaded = {TRUE, FALSE}
INVARIANT SettledOnlyAfterTransmission
PROPERTY VersionNeverRegresses
CHECK_DEADLOCK FALSE
