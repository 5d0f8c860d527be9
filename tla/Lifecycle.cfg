SPECIFICATION FairSpec
CONSTANTS
    Runs = 3
    MaxAlive = 2
    NULL = NULL
    MaxQueue = 2
    MaxSends = 1
INVARIANTS TypeOK LeftoversOfCrashes
PROPERTIES Served PauseReturns
CHECK_DEADLOCK FALSE
