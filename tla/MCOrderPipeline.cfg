\* Order 1 stays in its table, order 2 is a business order with detail rows,
\* order 3 a data order; a batch takes two of them.
SPECIFICATION FairSpec
CONSTANTS
    Orders = {1, 2, 3}
    DataOrders = {1, 3}
    DetOrders = {2, 3}
    StuckOrders = {1}
    Tools = {}
    Batch = 2
    MaxFaults = 2
    Program = {"main"}
    IdType <- AloneIdType
    RowCode <- AloneRowCode
    PartitionCfg <- AlonePartitionCfg
    OtherRouteFlag <- AloneOtherRouteFlag
CHECK_DEADLOCK FALSE
INVARIANTS
    NoOrderLost
    HistoryIsTrue
    DataOrderOnce
    DetailsFollow
PROPERTIES
    EveryOrderDealt
