SPECIFICATION HistoryFairSpec
CONSTANTS
    MaxMessages = 4
    MaxDisconnections = 2
    MaxErrors = 1
    MaxCrashes = 1
    PageSize = 2
 
PROPERTY LatestOnlyGrows
 
CHECK_DEADLOCK FALSE
