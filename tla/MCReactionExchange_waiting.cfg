SPECIFICATION FairExchangeSpec
CONSTANTS
    Emojis = {heart, smile}
    MaxReactions = 7
    InOrder = TRUE
    MaxClicks = 4
    MaxFailures = 1
    MaxDisconnections = 1
    Waits = TRUE
INVARIANT RowsInv
INVARIANT NewestShown
INVARIANT SenderInv
INVARIANT BothSidesAgree
PROPERTY EventuallySettled
CHECK_DEADLOCK FALSE
