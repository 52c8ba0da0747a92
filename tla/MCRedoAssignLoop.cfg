SPECIFICATION LoopSpec
CONSTANTS
    ProcessNum = 10
    RedoCount = 3
    NoPhone = "-"
    Phones = {"p1", "p2"}
INVARIANTS
    LoopsMakeGroups
