\* Order 1 is an operator's order.
SPECIFICATION Spec
CONSTANTS
    Orders = {1, 2}
    DataOrders = {1}
    DetOrders = {}
    StuckOrders = {}
    Tools = {}
    Batch = 2
    MaxFaults = 0
    Program = {"main", "second"}
    IdType <- OperatorIdType
    RowCode <- SplitRowCode
    PartitionCfg <- SplitPartitionCfg
    OtherRouteFlag <- SplitOtherRouteFlag
CHECK_DEADLOCK FALSE
INVARIANTS
    SecondaryOnlyCustomers
