--------------------------- MODULE MCOrderPipeline ---------------------------
(* The way of the orders on small instances, with four ways to share the   *)
(* orders among the dealing programs.                                      *)
EXTENDS OrderPipeline

\* One program deals with everything.
AloneIdType == [o \in Orders |-> 9]
AloneRowCode == [o \in Orders |-> NoRow]
AlonePartitionCfg == [p \in Program |-> 1]
AloneOtherRouteFlag == [p \in Program |-> 1]

\* Order 1 is of a partition of "second"; the others are for "main".
SplitIdType == [o \in Orders |-> IF o = 1 THEN 2 ELSE 9]
SplitRowCode == [o \in Orders |-> IF o = 1 THEN 3 ELSE NoRow]
SplitPartitionCfg == [p \in Program |-> IF p = "main" THEN 2 ELSE 3]
SplitOtherRouteFlag == [p \in Program |-> IF p = "main" THEN 1 ELSE 0]

\* Both programs are configured for the partition of the data orders, "main"
\* alone for that of the others.
SharedIdType == [o \in Orders |-> 2]
SharedRowCode == [o \in Orders |-> IF o \in DataOrders THEN 3 ELSE 2]
SharedPartitionCfg == [p \in Program |-> IF p = "main" THEN 6 ELSE 3]

\* Order 1 is an operator's, of a partition of "second".
OperatorIdType == [o \in Orders |-> IF o = 1 THEN 4 ELSE 9]
=============================================================================
