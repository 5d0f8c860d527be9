SPECIFICATION FairSpec
CONSTANTS
    Runs = 1
    MaxAlive = 1
    NULL = NULL
    MaxQueue = 1
    MaxSends = 1
PROPERTY InterruptEnds
CHECK_DEADLOCK FALSE
