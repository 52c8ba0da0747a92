SPECIFICATION Spec
CONSTANTS
    ProcessNum = 4
    RedoCount = 2
    NoPhone = "-"
    Phones = {"p1"}
    MaxIndex = 4
    Ends = {"logged"}
    MaxFaults = 1
CHECK_DEADLOCK FALSE
INVARIANTS
    TypeOK
    PaymentsInOrder
    NoRecordSkipped
PROPERTIES
    ReplayedOnce
