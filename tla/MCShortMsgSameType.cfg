SPECIFICATION Spec
CONSTANTS
    Model = {1, 2, 3, 4}
    NoModel = 0
    Key = {"name"}
    Mandatory <- MCMandatory
    Default <- MCDefault
    Used <- MCUsed
    ExpPolicy <- MCExpPolicy
    FoldPolicy <- MCFoldPolicy
    SmType <- MCSmType
    Op = {"special", "other"}
    SendTime = {"", "noon"}
    Channel = {"t1", "t2"}
    OwnChannel <- MCOwnChannel
    GroupChannel <- MCGroupChannel
    Text <- MCText
    Field = 3
    NormLen = 1
    MaxCalls = 2
CHECK_DEADLOCK FALSE
INVARIANTS
    SameTypeReplaced
