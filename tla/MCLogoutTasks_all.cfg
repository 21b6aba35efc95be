SPECIFICATION FairSpec
CONSTANTS
    Contacts = {alice, bob}
    NoCall = NoCall
    MaxRequests = 4
    MaxConnections = 2
    MaxFailures = 1
INVARIANT TasksInv
PROPERTY CallsEndBeforeLogout
PROPERTY LogoutFinishes
CHECK_DEADLOCK FALSE
