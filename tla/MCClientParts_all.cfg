SPECIFICATION Spec
CONSTANTS
    BlockableJids = {ann}
    NoJid = NoJid
    DraftChats = {ann, bob}
    NoChat = NoChat
    StoredMessages = 3
    ArchivedMessages = 2
    DbLimit = 1
    MamLimit = 1
    RosterJids = {ann, bob}
    RosterGroups = {family, work}
    OldContacts = {ann, bob}
    GroupJids = {club, team}
    PublicGroups = {club}
    NoGroup = NoGroup
    MaxFailures = 1
    BlocklistSteps = 6
    DraftsSteps = 7
    ListSteps = 4
    RosterSteps = 4
    MigrationSteps = 10
    GroupsSteps = 4
INVARIANT ShownAsStored
 
INVARIANT NothingLost
CHECK_DEADLOCK FALSE
