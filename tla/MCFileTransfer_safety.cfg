SPECIFICATION Spec
CONSTANTS
    Files = {f1, f2}
    Directions = {TRUE, FALSE}
    AutomaticDownloads = FALSE
    MaxCancels = 1
    MaxRepeats = 1
    MaxFailures = 1
    MaxConnections = 2
    MaxRestarts = 1
INVARIANT SentWithFiles
INVARIANT TransferInv
CHECK_DEADLOCK FALSE
