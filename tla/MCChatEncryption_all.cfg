SPECIFICATION Spec
CONSTANTS
    Accounts = {me, other}
    Encryptions = {omemo}
    Owners = {me, ann}
    Keys = {k1}
    Levels = {"Undecided", "AutomaticallyDistrusted", "ManuallyDistrusted", "AutomaticallyTrusted", "ManuallyTrusted", "Authenticated"}
    Undecided = "Undecided"
    Policies = {"Toakafa"}
    NoPolicy = NoPolicy
    NoKey = NoKey
    Unknown = Unknown
    NoId = NoId
    NoJid = NoJid
    OwnParticipant = me
    Me = me
    Group = group
    Contact = ann
    NoChat = NoChat
    MaxPending = 1
    MaxSteps = 4
 
INVARIANT WatchesOpenChat
INVARIANT ChatInitialized
INVARIANT StoredInv
PROPERTY StoragesImplemented
CHECK_DEADLOCK FALSE
