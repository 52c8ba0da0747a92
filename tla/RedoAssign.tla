----------------------------- MODULE RedoAssign -----------------------------
(***************************************************************************)
(* How redo's parent distributes a batch of index records over its idle    *)
(* children (redoServiceLog, client/redo.c).  A child owns RedoCount slots *)
(* of the shared memory.  Records of one phone number are payments that    *)
(* must not overtake each other, so they go to the slots of one child; a   *)
(* record without a number ("-") goes to slot 0 of a child of its own.     *)
(*                                                                         *)
(* A batch is the sequence of the phone numbers of its records.  The       *)
(* operators here say what the nested loops of the code compute;           *)
(* RedoAssignLoop holds the loops, which are proved to compute it.         *)
(***************************************************************************)
EXTENDS Integers, Sequences, FiniteSets

CONSTANTS ProcessNum,  \* REDOPROCESSNUM
          RedoCount,   \* REDOCOUNT, the slots of one child
          Phones,      \* phone numbers of payment records
          NoPhone      \* "-", a record that is not a payment

\* One slot would leave no room for a second record of a number: the code
\* then writes into the slots of the next child.
ASSUME RedoAssumption ==
    /\ ProcessNum \in Nat \ {0, 1}
    /\ RedoCount \in Nat \ {0, 1}

Proc == 0 .. ProcessNum - 1
Slot == 0 .. RedoCount - 1
BatchSize == ProcessNum \div 2

-----------------------------------------------------------------------------
SameNumber(b, i, j) == b[i] = b[j] /\ b[i] # NoPhone

\* How many earlier records of the batch have the number of record i.
Rank(b, i) == Cardinality({j \in 1 .. i - 1 : SameNumber(b, i, j)})

\* The records of one number are cut into groups of RedoCount: the loops
\* leave the record that finds the group full for a group of its own.
SlotOf(b, i) == Rank(b, i) % RedoCount
Leaders(b) == {i \in DOMAIN b : SlotOf(b, i) = 0}
LeaderOf(b, i) ==
    CHOOSE l \in Leaders(b) :
        \/ l = i
        \/ SameNumber(b, l, i) /\ Rank(b, l) = Rank(b, i) - SlotOf(b, i)

\* Groups of two records and more are given a child first.
Shared(b, l) == \E i \in DOMAIN b : i # l /\ LeaderOf(b, i) = l
Earlier(b, l, m) ==
    IF Shared(b, l) = Shared(b, m) THEN l < m ELSE Shared(b, l)
Turn(b, l) == Cardinality({m \in Leaders(b) : Earlier(b, m, l)})

\* How many members of S are smaller than x.
Below(S, x) == Cardinality({y \in S : y < x})

\* The n-th idle child, counted from 0.
IdleChild(idle, n) == CHOOSE k \in idle : Below(idle, k) = n

\* idxRecord.processNo: the child and the slot of each record.
ProcessNo(b, idle) ==
    [i \in DOMAIN b |->
        [proc |-> IdleChild(idle, Turn(b, LeaderOf(b, i))),
         slot |-> SlotOf(b, i)]]
=============================================================================
