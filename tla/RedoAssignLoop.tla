--------------------------- MODULE RedoAssignLoop ---------------------------
(***************************************************************************)
(* The loops of redoServiceLog that distribute a batch, one turn of a loop *)
(* a step: a first pass over pairs of records of one number, a second one  *)
(* over the records that are left.  blankFlag is the set of the children   *)
(* whose slot 0 is marked 1; the marks of the other slots are never read.  *)
(*                                                                         *)
(* Two things the loops can do if no child is marked are left out, because *)
(* LoopsMakeGroups shows that one always is: looking for ever at child     *)
(* blankPosition, and waiting for more idle children after both passes.    *)
(***************************************************************************)
EXTENDS RedoAssign

VARIABLES
    phoneNo,       \* idxRecord.phoneNo of the records read
    free,          \* the idle children found before the loops start
    loop,          \* where the parent is
    first,         \* i
    other,         \* j
    processNo,     \* idxRecord.processNo: child and slot of each record
    blankFlag,
    same,          \* l: records with the number of record i found after it
    blankPosition, \* above 0, the only child the loop over k looks at
    pos            \* the child of this group

batchVars == <<phoneNo, free>>
groupVars == <<same, blankPosition, pos>>
loopVars ==
    <<batchVars, loop, first, other, processNo, blankFlag, groupVars>>

None == [proc |-> -1, slot |-> -1]

-----------------------------------------------------------------------------
LoopInit ==
    /\ phoneNo = <<>> /\ processNo = <<>>
    /\ free = {} /\ blankFlag = {}
    /\ loop = "read" /\ first = 1 /\ other = 1
    /\ same = 0 /\ blankPosition = 0 /\ pos = 0

\* The fscanf of one index record; no record has a child yet.
ReadRecord(p) ==
    /\ loop = "read" /\ Len(phoneNo) < BatchSize
    /\ phoneNo' = Append(phoneNo, p)
    /\ processNo' = Append(processNo, None)
    /\ UNCHANGED <<free, loop, first, other, blankFlag, groupVars>>

\* The search ends when it has marked BatchSize children.
FindIdle ==
    /\ loop = "read" /\ phoneNo # <<>>
    /\ free' \in {S \in SUBSET Proc : Cardinality(S) = BatchSize}
    /\ blankFlag' = free'
    /\ loop' = "group" /\ first' = 1
    /\ UNCHANGED <<phoneNo, other, processNo, groupVars>>

-----------------------------------------------------------------------------
(* The first loop over i.                                                  *)

SkipGrouped ==
    /\ loop = "group" /\ first <= Len(phoneNo)
    /\ processNo[first] # None
    /\ same' = 0 /\ blankPosition' = 0 /\ first' = first + 1
    /\ UNCHANGED <<batchVars, loop, other, processNo, blankFlag, pos>>

StartPairs ==
    /\ loop = "group" /\ first <= Len(phoneNo)
    /\ processNo[first] = None
    /\ same' = 0 /\ blankPosition' = 0
    /\ loop' = "pair" /\ other' = first + 1
    /\ UNCHANGED <<batchVars, first, processNo, blankFlag, pos>>

EndGroups ==
    /\ loop = "group" /\ first > Len(phoneNo)
    /\ loop' = "single" /\ first' = 1
    /\ UNCHANGED <<batchVars, other, processNo, blankFlag, groupVars>>

-----------------------------------------------------------------------------
(* The loop over j.                                                        *)

Pairing == loop = "pair" /\ other <= Len(phoneNo)

LeaveGroup == loop' = "group" /\ first' = first + 1 /\ other' = other
NextOther == other' = other + 1 /\ UNCHANGED <<loop, first>>

\* Mutant: the last record does not mark the group's child as used.
ClosedNever(marked, l, k) == marked

\* The last record of the batch marks the group's child as used.
Closed(marked, l, k) ==
    IF l > 0 /\ other = Len(phoneNo) THEN marked \ {k} ELSE marked

\* Record j has a child, has no number, or has another number than record i.
PassRecord ==
    /\ Pairing
    /\ \/ processNo[other] # None
       \/ phoneNo[other] = NoPhone
       \/ phoneNo[first] # NoPhone /\ phoneNo[first] # phoneNo[other]
    /\ blankFlag' = Closed(blankFlag, same, pos)
    /\ NextOther
    /\ UNCHANGED <<batchVars, processNo, groupVars>>

\* Record i has no number and record j has one.
LeavePairs ==
    /\ Pairing
    /\ processNo[other] = None
    /\ phoneNo[first] = NoPhone /\ phoneNo[other] # NoPhone
    /\ LeaveGroup
    /\ UNCHANGED <<batchVars, processNo, blankFlag, groupVars>>

EndPairs ==
    /\ loop = "pair" /\ other > Len(phoneNo)
    /\ LeaveGroup
    /\ UNCHANGED <<batchVars, processNo, blankFlag, groupVars>>

Matching ==
    Pairing /\ processNo[other] = None /\ SameNumber(phoneNo, first, other)

\* The marked children that the loop over k looks at, and where it ends.
Looked ==
    IF blankPosition > 0 THEN blankFlag \cap {blankPosition} ELSE blankFlag
Lowest(S) == CHOOSE k \in S : \A x \in S : k <= x

GiveBoth(k, l) ==
    processNo' = [processNo EXCEPT ![first] = [proc |-> k, slot |-> 0],
                                   ![other] = [proc |-> k, slot |-> l]]

OpenGroup ==
    /\ Matching /\ same = 0 /\ Looked # {}
    /\ LET k == Lowest(Looked)
       IN  /\ same' = 1 /\ blankPosition' = k /\ pos' = k
           /\ GiveBoth(k, 1)
           /\ blankFlag' = Closed(blankFlag, 1, k)
    /\ NextOther
    /\ UNCHANGED batchVars

JoinGroup ==
    /\ Matching /\ same \in 1 .. RedoCount - 2 /\ Looked # {}
    /\ same' = same + 1 /\ pos' = blankPosition
    /\ GiveBoth(blankPosition, same + 1)
    /\ blankFlag' = Closed(blankFlag, same + 1, blankPosition)
    /\ NextOther
    /\ UNCHANGED <<batchVars, blankPosition>>

\* The record that finds the group full gets no slot of it.
FillGroup ==
    /\ Matching /\ same = RedoCount - 1 /\ Looked # {}
    /\ same' = same + 1 /\ pos' = Lowest(Looked) /\ blankPosition' = 0
    /\ blankFlag' = blankFlag \ {Lowest(Looked)}
    /\ LeaveGroup
    /\ UNCHANGED <<batchVars, processNo>>

-----------------------------------------------------------------------------
(* The second loop over i.                                                 *)

SkipGiven ==
    /\ loop = "single" /\ first <= Len(phoneNo)
    /\ processNo[first] # None
    /\ first' = first + 1
    /\ UNCHANGED <<batchVars, loop, other, processNo, blankFlag, groupVars>>

Single ==
    loop = "single" /\ first <= Len(phoneNo) /\ processNo[first] = None

GiveSingle ==
    /\ Single /\ blankFlag # {}
    /\ LET k == Lowest(blankFlag)
       IN  /\ processNo' = [processNo EXCEPT ![first] = [proc |-> k, slot |-> 0]]
           /\ blankFlag' = blankFlag \ {k}
    /\ first' = first + 1
    /\ UNCHANGED <<batchVars, loop, other, groupVars>>

EndSingles ==
    /\ loop = "single" /\ first > Len(phoneNo)
    /\ loop' = "assigned"
    /\ UNCHANGED <<batchVars, first, other, processNo, blankFlag, groupVars>>

\* The next batch finds the record and the marks zeroed; the locals of the
\* loops are set before they are read.
NextBatch ==
    /\ loop = "assigned"
    /\ phoneNo' = <<>> /\ processNo' = <<>>
    /\ free' = {} /\ blankFlag' = {}
    /\ loop' = "read" /\ first' = 1 /\ other' = 1
    /\ same' = 0 /\ blankPosition' = 0 /\ pos' = 0

LoopNext ==
    \/ \E p \in Phones \cup {NoPhone} : ReadRecord(p)
    \/ FindIdle
    \/ SkipGrouped \/ StartPairs \/ EndGroups
    \/ PassRecord \/ LeavePairs \/ EndPairs
    \/ OpenGroup \/ JoinGroup \/ FillGroup
    \/ SkipGiven \/ GiveSingle \/ EndSingles
    \/ NextBatch

LoopSpec == LoopInit /\ [][LoopNext]_loopVars

-----------------------------------------------------------------------------
\* A child is always at hand for two records of one number and for a single
\* record.  When the two passes have ended, each record has exactly the child
\* and the slot that the groups of RedoAssign name, and no other record has
\* them too.
LoopsMakeGroups ==
    /\ Matching => Looked # {}
    /\ Single => blankFlag # {}
    /\ loop = "assigned" =>
           /\ processNo = ProcessNo(phoneNo, free)
           /\ \A i, j \in DOMAIN phoneNo :
                  i # j => processNo[i] # processNo[j]

-----------------------------------------------------------------------------
(* What the loops have done so far, the inductive invariant of the proof.  *)

LoopTypes ==
    /\ phoneNo \in Seq(Phones \cup {NoPhone}) /\ Len(phoneNo) <= BatchSize
    /\ free \subseteq Proc
    /\ loop \in {"read", "group", "pair", "single", "assigned"}
    /\ loop # "read" => Cardinality(free) = BatchSize
    /\ first \in 1 .. Len(phoneNo) + 1
    /\ loop = "pair" => /\ first <= Len(phoneNo)
                       /\ other \in first + 1 .. Len(phoneNo) + 1

\* The groups before record i, and with them the single records before i.
GroupsBefore(b, i) ==
    Cardinality({l \in Leaders(b) : Shared(b, l) /\ l < i})
TurnsBefore(b, i) == Cardinality({l \in Leaders(b) : Shared(b, l) \/ l < i})

\* The records of the groups that begin before record i, and those before
\* record j of the group that begins with i.
InGroups(b, i) ==
    {m \in DOMAIN b : Shared(b, LeaderOf(b, m)) /\ LeaderOf(b, m) < i}
Members(b, i, j) == {m \in DOMAIN b : LeaderOf(b, m) = i /\ m < j}

\* The idle children but the first t.
IdleFrom(S, t) == {k \in S : Below(S, k) >= t}

\* Exactly the records of M have a child, each the one it is to have.
Given(M) ==
    processNo = [m \in DOMAIN phoneNo |->
                    IF m \in M THEN ProcessNo(phoneNo, free)[m] ELSE None]

\* The records of the number of record i between records i and j.
Between(b, i, j) == {m \in i + 1 .. j - 1 : SameNumber(b, i, m)}

\* Record i begins a group and has met the records of its number so far.
GroupOpen ==
    /\ first \in Leaders(phoneNo)
    /\ same = Cardinality(Between(phoneNo, first, other))
    /\ same < RedoCount
    /\ same = 0 => blankPosition = 0
    /\ same > 0 =>
           /\ Shared(phoneNo, first)
           /\ pos = IdleChild(free, GroupsBefore(phoneNo, first))
           /\ blankPosition = pos

LoopInv ==
    /\ LoopTypes
    /\ loop = "read" => Given({})
    /\ loop = "group" =>
           /\ Given(InGroups(phoneNo, first))
           /\ blankFlag = IdleFrom(free, GroupsBefore(phoneNo, first))
    /\ loop = "pair" =>
           /\ GroupOpen
           /\ Given(InGroups(phoneNo, first) \cup
                    IF same = 0 THEN {} ELSE Members(phoneNo, first, other))
           /\ blankFlag =
                  IdleFrom(free, GroupsBefore(phoneNo, first) +
                      IF same > 0 /\ other > Len(phoneNo) THEN 1 ELSE 0)
    /\ loop = "single" =>
           /\ Given(InGroups(phoneNo, Len(phoneNo) + 1) \cup 1 .. first - 1)
           /\ blankFlag = IdleFrom(free, TurnsBefore(phoneNo, first))
    /\ loop = "assigned" => processNo = ProcessNo(phoneNo, free)
=============================================================================
