SPECIFICATION MCUnhurriedSpec
CONSTANTS
    Thread = {t1, t2}
    Client = {k1, k2}
    Node = {n1, n2}
    Sock = {4, 5}
    adm = adm
    bob = bob
    Char <- MCChar
    NUL = NUL
    NameCap = 1
    NULL = NULL
    AdminName <- MCAdminName
    Forbidden <- MCNone
    Inputs <- Input
    MaxAccepts = 2
PROPERTY KickEnds
CHECK_DEADLOCK FALSE
