SPECIFICATION FairSpec
CONSTANTS
    c1 = c1
    c2 = c2
    Client = {c1, c2}
    Admin <- MCOneAdmin
    Users = 2
    QueueMax = 2
    MayClose = TRUE
    NULL = NULL
    MaxMessages = 3
    MaxFails = 2
INVARIANTS TypeOK NothingLost OnePermit FlagTellsTruth InOrder
PROPERTIES SilentWhilePaused ImplementsChannel EventuallyDelivered
CHECK_DEADLOCK FALSE
