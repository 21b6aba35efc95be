SPECIFICATION FairSpec
CONSTANTS
    Files = {f1, f2}
    Directions = {TRUE, FALSE}
    AutomaticDownloads = TRUE
    MaxCancels = 0
    MaxRepeats = 0
    MaxFailures = 0
    MaxConnections = 2
    MaxRestarts = 0
PROPERTY TransfersResolved
CHECK_DEADLOCK FALSE
