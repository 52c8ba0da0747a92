---------------------------- MODULE RedoDispatch ----------------------------
(***************************************************************************)
(* redoServiceLog of client/redo.c: a parent reads the index of the redo   *)
(* log in batches and hands the records to its children through a shared   *)
(* memory without a lock; each child replays the services of its records   *)
(* and hands its slots back.                                               *)
(*                                                                         *)
(* flag[k][s] is TRUE while slot s of child k is free (1 in the code) and  *)
(* FALSE while it holds a record to replay (0).  A record is its position  *)
(* in the index file; Blank is what fscanf leaves when the file has no     *)
(* line any more: a zeroed record, without "-" as its phone number.        *)
(***************************************************************************)
EXTENDS RedoAssign

CONSTANTS MaxIndex,   \* bound on the length of the index file
          Ends,       \* how a replay can end: "replayed", "logged" in the error
                      \* file or, when Finit fails, "lost"
          MaxFaults   \* bound on failures of children, forks and on SIGTERMs

ASSUME DispatchAssumption ==
    /\ MaxIndex \in Nat
    /\ MaxFaults \in Nat
    /\ "logged" \in Ends /\ Ends \subseteq {"replayed", "logged", "lost"}
    /\ NoPhone \notin Phones

VARIABLES
    index,    \* log/IndexFile: the phone number of each record
    count,    \* records read, the value redoServiceLog returns
    parent,   \* where the parent is
    forked,   \* processNum
    batch,    \* idxRecord: the records of this batch
    scan,     \* i of the search for idle children
    idle,     \* the children with blankFlag 1
    fill,     \* i of the two loops that fill the shared memory
    flag,     \* shmp->flag
    slot,     \* shmp->memAccept, redoPosition, redoFile, svcName, phoneNo
    endFlag,  \* shmp->endFlag
    child,    \* where each child is
    at,       \* each child's i
    done,     \* each child's count
    rec,      \* the record each child has copied
    outcome,  \* what became of each record
    unflushed, \* error lines in each child's stdio buffer
    errorFile, \* the lines of log/ErrorFile
    faults

parentVars == <<index, count, parent, forked, batch, scan, idle, fill>>
shmVars == <<flag, slot, endFlag>>
childVars == <<child, at, done, rec, unflushed>>
logVars == <<outcome, errorFile>>
vars == <<parentVars, shmVars, childVars, logVars, faults>>

-----------------------------------------------------------------------------
Blank == 0
Records == 1 .. Len(index)
PhoneOf(r) == IF r = Blank THEN "" ELSE index[r]

Outcomes == {"waiting", "running"} \cup Ends

TypeOK ==
    /\ index \in Seq(Phones \cup {NoPhone}) /\ Len(index) <= MaxIndex
    /\ count \in Nat
    /\ parent \in {"fork", "read", "pay", "search", "fill", "raise", "end",
                   "drain", "finished", "gone"}
    /\ forked \in 0 .. ProcessNum
    /\ batch \in Seq(0 .. Len(index)) /\ Len(batch) <= BatchSize
    /\ scan \in Proc
    /\ idle \subseteq Proc
    /\ fill \in 1 .. BatchSize + 1
    /\ flag \in [Proc -> [Slot -> BOOLEAN]]
    /\ slot \in [Proc -> [Slot -> 0 .. Len(index)]]
    /\ endFlag \in 0 .. 2
    /\ child \in [Proc -> {"none", "attach", "run", "busy", "reset",
                           "exited", "dead"}]
    /\ at \in [Proc -> Slot]
    /\ done \in [Proc -> 0 .. RedoCount]
    /\ rec \in [Proc -> 0 .. Len(index)]
    /\ outcome \in [0 .. Len(index) -> Outcomes]
    /\ unflushed \in [Proc -> SUBSET (0 .. Len(index))]
    /\ errorFile \subseteq 0 .. Len(index)
    /\ faults \in 0 .. MaxFaults

\* After CreateRedoShm and redoOpenShm.
Init ==
    /\ index \in UNION {[1 .. n -> Phones \cup {NoPhone}] : n \in 0 .. MaxIndex}
    /\ count = 0
    /\ parent = "fork"
    /\ forked = 0
    /\ batch = <<>>
    /\ scan = 0
    /\ idle = {}
    /\ fill = 1
    /\ flag = [k \in Proc |-> [s \in Slot |-> TRUE]]
    /\ slot = [k \in Proc |-> [s \in Slot |-> Blank]]
    /\ endFlag = 0
    /\ child = [k \in Proc |-> "none"]
    /\ at = [k \in Proc |-> 0]
    /\ done = [k \in Proc |-> 0]
    /\ rec = [k \in Proc |-> Blank]
    /\ outcome = [r \in 0 .. Len(index) |-> "waiting"]
    /\ unflushed = [k \in Proc |-> {}]
    /\ errorFile = {}
    /\ faults = 0

-----------------------------------------------------------------------------
(* The parent.                                                             *)

Fork ==
    /\ parent = "fork"
    /\ forked' = forked + 1
    /\ parent' = IF forked + 1 = ProcessNum THEN "read" ELSE "fork"
    /\ child' = [child EXCEPT ![forked] = "attach"]
    /\ UNCHANGED <<index, count, batch, scan, idle, fill, shmVars, at, done,
                   rec, unflushed, logVars, faults>>

\* fork fails: the parent removes the shared memory and exits, and says
\* nothing to the children it has forked.
ForkFails ==
    /\ parent = "fork"
    /\ faults < MaxFaults
    /\ faults' = faults + 1
    /\ parent' = "gone"
    /\ UNCHANGED <<index, count, forked, batch, scan, idle, fill, shmVars,
                   childVars, logVars>>

\* Up to BatchSize records; at the end of the file, the end flag.  With no
\* record left, fscanf fills nothing and the zeroed record counts as read.
ReadBatch ==
    LET last == IF Len(index) - count < BatchSize
                THEN Len(index) ELSE count + BatchSize
    IN  /\ parent = "read"
        /\ batch' = IF count >= Len(index) THEN <<Blank>>
                    ELSE [n \in 1 .. last - count |-> count + n]
        /\ count' = IF count >= Len(index) THEN count + 1 ELSE last
        /\ endFlag' = IF last = Len(index) THEN 1 ELSE endFlag
        /\ parent' = "pay"
        /\ UNCHANGED <<index, forked, scan, idle, fill, flag, slot, childVars,
                       logVars, faults>>

\* Mutant: payments are not waited for.
NoPaymentRunsIgnored == TRUE

\* No child still has a payment.  Only the parent makes a slot busy, so the
\* loop that waits for one child after the other is a wait for all of them.
NoPaymentRuns ==
    \A k \in Proc : flag[k][0] \/ PhoneOf(slot[k][0]) = NoPhone

WaitForPayments ==
    /\ parent = "pay"
    /\ NoPaymentRuns
    /\ parent' = "search"
    /\ scan' = 0
    /\ idle' = {}
    /\ UNCHANGED <<index, count, forked, batch, fill, shmVars, childVars,
                   logVars, faults>>

\* One step of the search for BatchSize idle children, round and round.
SearchIdle ==
    LET found == IF flag[scan][0] THEN idle \cup {scan} ELSE idle
    IN  /\ parent = "search"
        /\ idle' = found
        /\ scan' = (scan + 1) % ProcessNum
        /\ IF Cardinality(found) >= BatchSize
           THEN parent' = "fill" /\ fill' = 1
           ELSE UNCHANGED <<parent, fill>>
        /\ UNCHANGED <<index, count, forked, batch, shmVars, childVars,
                       logVars, faults>>

Numbers == [i \in DOMAIN batch |-> PhoneOf(batch[i])]
Target(i) == ProcessNo(Numbers, idle)[i]

\* Mutant: every slot is raised while the memory is filled.
RaisedWhileFillingAll(t) == TRUE

\* Only the slots the child does not look at first are raised at once.
RaisedWhileFilling(t) == t.slot # 0

FillSlot ==
    LET t == Target(fill)
    IN  /\ parent = "fill"
        /\ slot' = [slot EXCEPT ![t.proc][t.slot] = batch[fill]]
        /\ flag' = IF RaisedWhileFilling(t)
                   THEN [flag EXCEPT ![t.proc][t.slot] = FALSE] ELSE flag
        /\ IF fill = Len(batch)
           THEN parent' = "raise" /\ fill' = 1
           ELSE fill' = fill + 1 /\ UNCHANGED parent
        /\ UNCHANGED <<index, count, forked, batch, scan, idle, endFlag,
                       childVars, logVars, faults>>

\* The slots 0, which let the children start.
RaiseFirst ==
    LET t == Target(fill)
    IN  /\ parent = "raise"
        /\ flag' = IF t.slot = 0
                   THEN [flag EXCEPT ![t.proc][0] = FALSE] ELSE flag
        /\ IF fill = Len(batch)
           THEN /\ parent' = IF endFlag = 1 THEN "end" ELSE "read"
                /\ fill' = 1
           ELSE fill' = fill + 1 /\ UNCHANGED parent
        /\ UNCHANGED <<index, count, forked, batch, scan, idle, slot, endFlag,
                       childVars, logVars, faults>>

\* After the sleep: the children may leave.
SetEnd ==
    /\ parent = "end"
    /\ endFlag' = 2
    /\ parent' = "drain"
    /\ UNCHANGED <<index, count, forked, batch, scan, idle, fill, flag, slot,
                   childVars, logVars, faults>>

\* Every slot is free again: the parent prints that the redo is complete and
\* that its errors are in the error file.  It does not wait for its children.
Finish ==
    /\ parent = "drain"
    /\ \A k \in Proc : \A s \in Slot : flag[k][s]
    /\ parent' = "finished"
    /\ UNCHANGED <<index, count, forked, batch, scan, idle, fill, shmVars,
                   childVars, logVars, faults>>

\* SIGTERM, or an index file that cannot be read again (no end flag then).
ParentQuits ==
    /\ parent \notin {"finished", "gone"}
    /\ faults < MaxFaults
    /\ faults' = faults + 1
    /\ parent' = "gone"
    /\ endFlag' = 2
    /\ UNCHANGED <<index, count, forked, batch, scan, idle, fill, flag, slot,
                   childVars, logVars>>

IndexUnreadable ==
    /\ parent = "read"
    /\ faults < MaxFaults
    /\ faults' = faults + 1
    /\ parent' = "gone"
    /\ UNCHANGED <<index, count, forked, batch, scan, idle, fill, shmVars,
                   childVars, logVars>>

-----------------------------------------------------------------------------
(* A child.                                                                *)

\* exit flushes the child's copy of the stream of the error file.
Leave(k, how) ==
    /\ child' = [child EXCEPT ![k] = how]
    /\ errorFile' = errorFile \cup unflushed[k]
    /\ unflushed' = [unflushed EXCEPT ![k] = {}]

Attach(k) ==
    /\ child[k] = "attach"
    /\ child' = [child EXCEPT ![k] = "run"]
    /\ UNCHANGED <<parentVars, shmVars, at, done, rec, unflushed, logVars,
                   faults>>

\* tpinit fails: the child logs a record it does not have and is gone.
AttachFails(k) ==
    /\ child[k] = "attach"
    /\ faults < MaxFaults
    /\ faults' = faults + 1
    /\ child' = [child EXCEPT ![k] = "dead"]
    /\ errorFile' = errorFile \cup {Blank}
    /\ UNCHANGED <<parentVars, shmVars, at, done, rec, unflushed, outcome>>

\* Mutant: the child does not wait for its first slot.
MayLookAnyTime(k) == TRUE

\* The child looks at no slot before its first one is raised.
MayLook(k) == ~flag[k][0]

BeginRecord(k) ==
    /\ child[k] = "run"
    /\ MayLook(k)
    /\ ~flag[k][at[k]]
    /\ child' = [child EXCEPT ![k] = "busy"]
    /\ rec' = [rec EXCEPT ![k] = slot[k][at[k]]]
    /\ done' = [done EXCEPT ![k] = @ + 1]
    /\ outcome' = [outcome EXCEPT ![slot[k][at[k]]] = "running"]
    /\ UNCHANGED <<parentVars, shmVars, at, unflushed, errorFile, faults>>

\* Mutant: the loop goes one slot too far.
NextSlotTooFar(k) ==
    IF at[k] < RedoCount
    THEN /\ child' = [child EXCEPT ![k] = "run"]
         /\ at' = [at EXCEPT ![k] = @ + 1]
    ELSE /\ child' = [child EXCEPT ![k] = "reset"]
         /\ at' = [at EXCEPT ![k] = done[k] - 1]

\* The next slot, or, after the last one, the loop that gives them back.
NextSlot(k) ==
    IF at[k] + 1 < RedoCount
    THEN /\ child' = [child EXCEPT ![k] = "run"]
         /\ at' = [at EXCEPT ![k] = @ + 1]
    ELSE /\ child' = [child EXCEPT ![k] = "reset"]
         /\ at' = [at EXCEPT ![k] = done[k] - 1]

\* The service is called, or one of the steps before fails.  All failures
\* are written to the error file but that of Finit; the zeroed record names
\* no file to open.
EndRecord(k, o) ==
    /\ child[k] = "busy"
    /\ rec[k] = Blank => o = "logged"
    /\ outcome' = [outcome EXCEPT ![rec[k]] = o]
    /\ unflushed' = IF o = "logged"
                    THEN [unflushed EXCEPT ![k] = @ \cup {rec[k]}]
                    ELSE unflushed
    /\ NextSlot(k)
    /\ UNCHANGED <<parentVars, shmVars, done, rec, errorFile, faults>>

SkipSlot(k) ==
    /\ child[k] = "run"
    /\ MayLook(k)
    /\ flag[k][at[k]]
    /\ NextSlot(k)
    /\ UNCHANGED <<parentVars, shmVars, done, rec, unflushed, logVars, faults>>

\* Mutant: the slots are given back from the first to the last.
NextToResetUp(k) == done[k] - 1 - at[k]

\* From the last slot to the first, which tells the parent the child is idle.
NextToReset(k) == at[k]

\* After the last one the child starts over.
ResetSlot(k) ==
    /\ child[k] = "reset"
    /\ flag' = [flag EXCEPT ![k][NextToReset(k)] = TRUE]
    /\ IF at[k] = 0
       THEN /\ child' = [child EXCEPT ![k] = "run"]
            /\ done' = [done EXCEPT ![k] = 0]
            /\ UNCHANGED at
       ELSE /\ at' = [at EXCEPT ![k] = @ - 1]
            /\ UNCHANGED <<child, done>>
    /\ UNCHANGED <<parentVars, slot, endFlag, rec, unflushed, logVars, faults>>

\* Mutant: the child leaves only if it sees the middle value of the end flag.
MayLeaveAtFileEnd == endFlag = 1

\* Parent has seen the end of the file and every child may go.
MayLeave == endFlag = 2

NothingLeft(k) == \A s \in Slot : flag[k][s]

\* The end of the outer loop, after the slots were given back or the child
\* has waited long enough for its first slot.
ChildExits(k) ==
    /\ child[k] = "run"
    /\ at[k] = 0
    /\ MayLeave
    /\ NothingLeft(k)
    /\ Leave(k, "exited")
    /\ UNCHANGED <<parentVars, shmVars, at, done, rec, outcome, faults>>

\* SIGTERM: the handler the child inherits ends the redo for everybody.
ChildQuits(k) ==
    /\ child[k] \notin {"none", "exited", "dead"}
    /\ faults < MaxFaults
    /\ faults' = faults + 1
    /\ Leave(k, "dead")
    /\ endFlag' = 2
    /\ UNCHANGED <<parentVars, flag, slot, at, done, rec, outcome>>

-----------------------------------------------------------------------------
ParentStep ==
    \/ Fork \/ ReadBatch \/ WaitForPayments \/ SearchIdle
    \/ FillSlot \/ RaiseFirst \/ SetEnd \/ Finish

ChildStep(k) ==
    \/ Attach(k) \/ BeginRecord(k) \/ SkipSlot(k)
    \/ \E o \in Ends : EndRecord(k, o)
    \/ ResetSlot(k) \/ ChildExits(k)

Fault ==
    \/ ForkFails \/ ParentQuits \/ IndexUnreadable
    \/ \E k \in Proc : AttachFails(k) \/ ChildQuits(k)

Next == ParentStep \/ (\E k \in Proc : ChildStep(k)) \/ Fault

Spec == Init /\ [][Next]_vars

\* The processes are scheduled by the operating system and every call of a
\* service returns: no process stops for ever between two of its steps.
Fairness == WF_vars(ParentStep) /\ \A k \in Proc : WF_vars(ChildStep(k))

LiveSpec == Spec /\ Fairness

-----------------------------------------------------------------------------
(* Properties.                                                             *)

Finished(r) == outcome[r] \in Ends
SamePayment(q, r) == index[q] = index[r] /\ index[r] # NoPhone

\* The batch and, among the records of its number in that batch, the group of
\* a record: with more than RedoCount of them the code opens a second group.
BatchOf(r) == (r - 1) \div BatchSize
GroupOf(r) ==
    Cardinality({q \in 1 .. r - 1 : SamePayment(q, r) /\ BatchOf(q) = BatchOf(r)})
        \div RedoCount

\* Payments of one phone number are replayed one after the other, in the
\* order of the index, whatever children and batches they fall into: a
\* payment starts only when all earlier ones of its number have ended.  The
\* only exception are groups of one batch, which overlap (RedoCount payments
\* of a number fill a child).
PaymentsInOrder ==
    \A k \in Proc : child[k] = "busy" /\ rec[k] # Blank =>
        \A q \in 1 .. rec[k] - 1 :
            SamePayment(q, rec[k]) =>
                \/ Finished(q)
                \/ BatchOf(q) = BatchOf(rec[k]) /\ GroupOf(q) # GroupOf(rec[k])

\* No service is called twice for a record, though parent and children share
\* the slots without a lock.
ReplayedOnce ==
    [][\A k \in Proc : child[k] = "run" /\ child'[k] = "busy" /\ rec'[k] # Blank
           => outcome[rec'[k]] = "waiting"]_vars

\* When the parent reports the redo as complete, no record of the index was
\* left out: every slot handed out came back only after its replay.  This
\* holds whatever children fail: their slots keep the parent waiting.  Its
\* message that the errors are in the error file is true once its children
\* have left, for until then their lines may be in their own buffers.
NoRecordSkipped ==
    parent = "finished" => \A r \in Records :
        /\ Finished(r)
        /\ outcome[r] = "logged" =>
               r \in errorFile \/ \E k \in Proc : r \in unflushed[k]
        /\ (\A k \in Proc : child[k] \in {"exited", "dead"})
               => (outcome[r] = "logged" => r \in errorFile)

\* The redo ends, and all children with it, unless the parent was stopped or
\* a child has died: nobody gives back the slots of a dead child, and the
\* parent waits for them for ever.
RedoEnds ==
    <>(\/ parent = "gone" \/ \E k \in Proc : child[k] = "dead"
       \/ parent = "finished" /\ \A k \in Proc : child[k] = "exited")

\* The children whose later slots are filled while their first is not.
HalfFilled(k) == flag[k][0] /\ \E s \in Slot : ~flag[k][s]

\* After a SIGTERM of the parent every child replays what it has and exits;
\* only a child whose slots were being filled at that moment stays for ever.
QuitLeavesNoOrphan ==
    \A k \in Proc :
        parent = "gone" /\ endFlag = 2 /\ child[k] # "none" /\ ~HalfFilled(k)
            ~> child[k] \in {"exited", "dead"}

-----------------------------------------------------------------------------
(* The inductive invariant.                                                *)

\* Slot s of child k holds a record to replay.
Held(k, s) == ~flag[k][s]

\* The records of the batch that are not yet raised.
Pending ==
    {i \in DOMAIN batch :
        \/ parent \in {"pay", "search"}
        \/ parent = "fill" /\ (i >= fill \/ Target(i).slot = 0)
        \/ parent = "raise" /\ i >= fill /\ Target(i).slot = 0}

IsPending(r) == \E i \in Pending : batch[i] = r

\* The parent forks as long as children are missing.
Forks ==
    /\ parent = "fork" => forked < ProcessNum
    /\ \A k \in Proc : k >= forked => child[k] = "none"

\* A batch is the next BatchSize records, and no record is left when the
\* parent stops reading.
BatchRead ==
    /\ count >= Len(index) \/ count % BatchSize = 0
    /\ endFlag = 1 \/ parent \in {"end", "drain", "finished"}
           => count >= Len(index)
    /\ parent \in {"pay", "search", "fill", "raise"} =>
           /\ batch # <<>>
           /\ \/ batch = <<Blank>>
              \/ \A i \in DOMAIN batch :
                     /\ batch[i] = BatchSize * BatchOf(batch[1]) + i
                     /\ batch[i] <= count
    /\ parent \in {"fill", "raise"} =>
           fill \in DOMAIN batch /\ Cardinality(idle) >= BatchSize

\* How a child goes through its slots: up to the last one, counting those it
\* replays, and back over these.
InStep(k) ==
    /\ child[k] \in {"none", "attach"} => at[k] = 0 /\ done[k] = 0
    /\ flag[k][0] =>
           child[k] \notin {"busy", "reset"} /\ at[k] = 0 /\ done[k] = 0
    /\ Held(k, 0) => \A s \in Slot : Held(k, s) => \A p \in 0 .. s : Held(k, p)
    /\ child[k] = "run" /\ Held(k, 0) =>
           /\ done[k] <= at[k]
           /\ \A s \in 0 .. at[k] - 1 : Held(k, s) <=> s < done[k]
    /\ child[k] = "busy" =>
           done[k] = at[k] + 1 /\ Held(k, at[k]) /\ rec[k] = slot[k][at[k]]
    /\ child[k] = "reset" =>
           at[k] < done[k] /\ \A s \in Slot : Held(k, s) <=> s <= at[k]

\* An idle child has no record left.
AllFree(k) == flag[k][0] => \A s \in Slot : flag[k][s]

IsTarget(i, k, s) == Target(i).proc = k /\ Target(i).slot = s

\* What the parent has written to the slots, and raised, of the batch.
Filled ==
    /\ parent \notin {"fill", "raise", "gone"} => \A k \in Proc : AllFree(k)
    /\ parent = "search" => \A k \in idle : flag[k][0]
    /\ parent = "finished" => \A k \in Proc : \A s \in Slot : flag[k][s]
    /\ parent = "fill" =>
           /\ \A k \in Proc \ idle : AllFree(k)
           /\ \A k \in idle : flag[k][0] /\ \A s \in Slot :
                  Held(k, s) => \E i \in 1 .. fill - 1 : IsTarget(i, k, s)
           /\ \A i \in 1 .. fill - 1 :
                  LET t == Target(i) IN
                  /\ slot[t.proc][t.slot] = batch[i]
                  /\ t.slot # 0 => Held(t.proc, t.slot)
    /\ parent = "raise" =>
           /\ \A i \in DOMAIN batch :
                  slot[Target(i).proc][Target(i).slot] = batch[i]
           /\ \A k \in Proc : \/ AllFree(k)
                              \/ \E i \in Pending : Target(i).proc = k
           /\ \A i \in Pending : LET k == Target(i).proc IN
                  /\ flag[k][0]
                  /\ \A s \in Slot \ {0} :
                         Held(k, s) <=> \E j \in DOMAIN batch : IsTarget(j, k, s)

\* A record not read or not raised is not replayed.
Untouched ==
    \A r \in Records : r > count \/ IsPending(r) => outcome[r] = "waiting"

\* A record that is raised has been read, is in no other slot, and is
\* replayed exactly when its child has counted it.
HeldRecord(k, s, r) ==
    /\ r <= count /\ ~IsPending(r)
    /\ s >= done[k] => outcome[r] = "waiting"
    /\ child[k] \in {"run", "reset"} /\ s < done[k] => Finished(r)
    /\ child[k] = "busy" /\ s < at[k] => Finished(r)
    /\ \A l \in Proc : \A p \in Slot :
           Held(l, p) /\ slot[l][p] = r => l = k /\ p = s

HeldOnce ==
    \A k \in Proc : \A s \in Slot :
        Held(k, s) /\ slot[k][s] # Blank => HeldRecord(k, s, slot[k][s])

\* Every record is replayed, still to be read, still to be raised, or held.
NothingLost ==
    parent # "gone" => \A r \in Records :
        \/ Finished(r) \/ r > count \/ IsPending(r)
        \/ \E k \in Proc : \E s \in Slot : Held(k, s) /\ slot[k][s] = r

\* An error is in the error file or in the buffer of a child that is there.
ErrorsKept ==
    /\ \A r \in Records : outcome[r] = "logged" =>
           r \in errorFile \/ \E k \in Proc : r \in unflushed[k]
    /\ \A k \in Proc :
           child[k] \in {"none", "attach", "exited", "dead"} => unflushed[k] = {}

\* The payments of a number that come before a record the parent may raise
\* have ended, but for those of its own batch.
BatchFollows ==
    parent \in {"search", "fill", "raise"} =>
        \A i \in DOMAIN batch : batch[i] # Blank =>
            \A q \in 1 .. batch[i] - 1 :
                SamePayment(q, batch[i]) =>
                    Finished(q) \/ BatchOf(q) = BatchOf(batch[i])

\* A child holds records of one number, and a payment comes after the
\* payments of its group.
SlotsFollow ==
    \A k \in Proc : \A s \in Slot :
        LET r == slot[k][s] IN
        Held(k, 0) /\ Held(k, s) =>
            /\ PhoneOf(r) = PhoneOf(slot[k][0])
            /\ r # Blank => \A q \in 1 .. r - 1 : SamePayment(q, r) =>
                   \/ Finished(q)
                   \/ BatchOf(q) = BatchOf(r) /\ GroupOf(q) # GroupOf(r)
                   \/ \E p \in 0 .. s - 1 : Held(k, p) /\ slot[k][p] = q

Orderly == Forks /\ BatchRead /\ (\A k \in Proc : InStep(k)) /\ Filled
Replays == Untouched /\ HeldOnce /\ NothingLost /\ ErrorsKept
Payments == BatchFollows /\ SlotsFollow
=============================================================================
