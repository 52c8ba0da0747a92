------------------------------ MODULE OrderRoute ------------------------------
(***************************************************************************)
(* JudgeRoute of the dealing programs.  Several of them, each configured   *)
(* for the partitions of its own database instance, read the same tables,  *)
(* and JudgeRoute decides which of their orders a program deals with.      *)
(*                                                                         *)
(* The row of sRouteData that matches an order (by a range for the id      *)
(* types 1 to 3, by a prefix for 0 and 4) is abstracted to its             *)
(* partition_code.                                                         *)
(***************************************************************************)
EXTENDS Integers

CONSTANTS Orders,        \* the order_accept numbers
          IdType,        \* id_type of each order: 0 phone number, 1 customer,
                         \* 2 user, 3 account, 4 operator, 5 serial, 9 none
          RowCode,       \* partition_code of the order's row in sRouteData
          Program,       \* the running dealing programs
          PartitionCfg,  \* g_PUB_PartitionCfg of each program: the product of
                         \* the partition codes it serves
          OtherRouteFlag \* g_PUB_OtherRouteFlag of each program

NoRow == 0      \* NOTFOUND
ManyRows == -1  \* the SELECT INTO finds more than one row: an error

\* Partition codes are positive: JudgeRoute divides by them.
ASSUME RouteAssumption ==
    /\ IdType \in [Orders -> Nat]
    /\ RowCode \in [Orders -> {NoRow, ManyRows} \cup (Nat \ {0})]
    /\ PartitionCfg \in [Program -> Nat]
    /\ OtherRouteFlag \in [Program -> Nat]

-----------------------------------------------------------------------------
\* The two ways an order can be a program's: its partition is one of the
\* program's, or it has none and the program deals with the others.
ByPartition(p, o) == PartitionCfg[p] % RowCode[o] = 0
ByFlag(p) == OtherRouteFlag[p] # 0

JudgeRoute(p, o) ==
    CASE IdType[o] \in 0 .. 4 /\ RowCode[o] > 0
             -> IF ByPartition(p, o) THEN 0 ELSE 1
      [] \/ IdType[o] \in 0 .. 4 /\ RowCode[o] = ManyRows
         \/ IdType[o] \in 1 .. 3 /\ RowCode[o] = NoRow
             -> -1
      [] OTHER
             -> IF ByFlag(p) THEN 0 ELSE 1

\* PubLogicDeal deals with the order; it skips it after 1 and -1 alike.
Routed(p, o) == JudgeRoute(p, o) = 0
=============================================================================
