SPECIFICATION FairSpec
CONSTANTS
    ProcessNum = 3
    MaxFaults = 1
INVARIANTS
    TableExclusion
    SearchEnds
    OneMessagePerChild
    IInv
    BusyAccounted
PROPERTIES
    ImplementsLease
    EveryTableServed
