SPECIFICATION LiveSpec
CONSTANTS
    Process = {p1, p2}
    MaxCalls = 2
    MaxTime = 1
    MaxMade = 2
    MaxFaults = 1
CHECK_DEADLOCK FALSE
INVARIANTS
    TypeOK
    PermitsAccounted
    NumbersGrow
PROPERTIES
    WaitEnds
