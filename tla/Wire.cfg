SPECIFICATION FairSpec
CONSTANTS
    HeaderLen = 3
    LoginFixed = 1
    NameCap = 1
    TextLen = 3
    Frames <- MCFrames
    MaxFrames = 2
    MaxClaim = 2
INVARIANTS TypeOK InStep
PROPERTIES EmptyTextIsLast DrainsAndEnds
CHECK_DEADLOCK FALSE
