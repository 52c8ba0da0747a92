SPECIFICATION LiveSpec
CONSTANTS
    Command = {c1, c2, c3}
    Known = {c1, c2}
    NoCommand = none
    MaxFaults = 3
CHECK_DEADLOCK FALSE
INVARIANTS
    TypeOK
    AnswerIsOwn
    MarkedIsAnswered
    RepeatsAccounted
PROPERTIES
    CommandsMarked
