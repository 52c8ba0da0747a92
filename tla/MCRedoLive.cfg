SPECIFICATION LiveSpec
CONSTANTS
    ProcessNum = 4
    RedoCount = 2
    NoPhone = "-"
    Phones = {"p1"}
    MaxIndex = 2
    Ends = {"logged"}
    MaxFaults = 1
CHECK_DEADLOCK FALSE
PROPERTIES
    RedoEnds
    QuitLeavesNoOrphan
