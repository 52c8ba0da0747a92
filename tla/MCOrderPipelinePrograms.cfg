\* Two dealing programs, both configured for the data order 1 and only one
\* for the business order 2; the daemon and an operator transfer them.
SPECIFICATION Spec
CONSTANTS
    Orders = {1, 2}
    DataOrders = {1}
    DetOrders = {1}
    StuckOrders = {}
    Tools = {"singleOpAccept"}
    Batch = 1
    MaxFaults = 1
    Program = {"main", "second"}
    IdType <- SharedIdType
    RowCode <- SharedRowCode
    PartitionCfg <- SharedPartitionCfg
    OtherRouteFlag <- SplitOtherRouteFlag
CHECK_DEADLOCK FALSE
INVARIANTS
    BusiOrderRepeats
    DataOrderOnce
    IInv
