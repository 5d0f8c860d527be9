SPECIFICATION Spec
CONSTANTS
    Thread = {t1, t2}
    Node = {n1, n2, n3}
    Sock = {s1, s2, s3}
    a = a
    Char <- MCChar
    NUL = NUL
    NameCap = 1
    NULL = NULL
    Exclusive = TRUE
    Logins <- MCLogins
    Lookups <- MCNone
    MaxCreate = 3
SYMMETRY MCSymmetry
INVARIANTS TypeOK ListOK UnlinksItsOwn NoFault
PROPERTY ImplementsDirectory
