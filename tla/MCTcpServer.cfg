SPECIFICATION LiveSpec
CONSTANTS
    Child = {c1, c2}
    Server = server
    Slots = 2
    MaxProc = 1
    MaxForks = 2
    MaxFaults = 1
CHECK_DEADLOCK FALSE
INVARIANTS
    TypeOK
    SemaphoreAccounted
    CountAccounted
    LimitHolds
    NoOrphans
PROPERTIES
    StopEnds
