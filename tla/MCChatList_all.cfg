SPECIFICATION FairSpec
CONSTANTS
    Chats = {1, 2, 3}
    Self = 3
    InitialContacts = {1}
    SelfAllowed = TRUE
    InOrder = TRUE
    Waits = TRUE
    MaxMessages = 2
    MaxCorrections = 1
    MaxRequests = 2
    MaxDisconnections = 1
    MaxFailures = 1
INVARIANT ChatListInv
INVARIANT ShownAsLoaded
INVARIANT ReadIsMarked
INVARIANT ReadStaysRead
PROPERTY StrangersStored
CHECK_DEADLOCK FALSE
