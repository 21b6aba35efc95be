SPECIFICATION FairSpec
CONSTANTS
    MaxRequests = 3
    MaxFailures = 2
INVARIANT SessionInv
INVARIANT DeletionInv
PROPERTY LogOutCompletes
 
CHECK_DEADLOCK FALSE
