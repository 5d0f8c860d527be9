SPECIFICATION FairSpec
CONSTANTS
    Thread = {t1, t2}
    Node = {n1, n2}
    Sock = {s1, s2}
    a = a
    Char <- MCChar
    NUL = NUL
    NameCap = 1
    NULL = NULL
    Exclusive = FALSE
    Logins <- MCNone
    Lookups <- MCLookups
    MaxCreate = 2
INVARIANTS IterationComplete FindComplete LeakOnlyWithoutMemory
PROPERTY WalkEnds
CHECK_DEADLOCK FALSE
