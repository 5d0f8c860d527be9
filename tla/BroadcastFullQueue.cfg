SPECIFICATION ResumingSpec
CONSTANTS
    c1 = c1
    c2 = c2
    Client = {c1, c2}
    Admin <- MCOneAdmin
    Users = 1
    QueueMax = 1
    MayClose = FALSE
    NULL = NULL
    MaxMessages = 4
    MaxFails = 0
PROPERTY SendReturns
CHECK_DEADLOCK FALSE
