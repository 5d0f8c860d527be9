SPECIFICATION Spec
CONSTANTS
    Client = {k1, k2, k3}
    NameCap = 2
    a = a
    b = b
    Character <- MCCharacter
    NUL = NUL
    Name <- MCName
    QueueMax = 1
    NULL = NULL
    MaxHeaders = 3
CONSTRAINT MCUndecided
SYMMETRY MCSymmetry
INVARIANTS TypeOK UniqueNames ViewsAgree
CHECK_DEADLOCK FALSE
