SPECIFICATION FairSpec
CONSTANTS
    main = main
    c1 = c1
    c2 = c2
    nm = nm
    n1 = n1
    Thread = {main, c1, c2}
    Main = main
    Name = {nm, n1}
    MainName = nm
    NameLength <- MCNameLength
    NULL = NULL
    MaxBuffered = 4
    BufferLevels = {1, 5}
    Level = {5}
    Started = {c1}
    MaxCells = 3
    MaxEvents = 3
    MaxSignals = 2
    Interruptible = {main, c2}
INVARIANTS TypeOK LinesKept FlushedAtShutdown EntryFound FormatRestored
PROPERTY LogReturns

CHECK_DEADLOCK FALSE
