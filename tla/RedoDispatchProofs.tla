------------------------- MODULE RedoDispatchProofs -------------------------
(***************************************************************************)
(* Theorems about redoServiceLog for every number of children, slots and   *)
(* records: no service is called twice, payments keep their order and no   *)
(* record is skipped.                                                      *)
(***************************************************************************)
EXTENDS RedoDispatch, RedoAssignLoopProofs

-----------------------------------------------------------------------------
(* Types.                                                                  *)

\* The constants, spelled out.
LEMMA Sizes ==
    /\ ProcessNum \in Nat /\ RedoCount \in Nat /\ BatchSize \in Nat
    /\ BatchSize >= 1 /\ RedoCount >= 2 /\ BatchSize <= ProcessNum
    /\ 0 \in Slot /\ 0 \in Proc /\ Slot \subseteq Nat /\ Proc \subseteq Nat
    /\ MaxFaults \in Nat /\ MaxIndex \in Nat
<1>1. ProcessNum >= 2
  BY RedoAssumption
<1>2. BatchSize \in Nat /\ BatchSize >= 1 /\ BatchSize <= ProcessNum
  BY <1>1, RedoAssumption DEF BatchSize
<1> QED
  BY <1>2, RedoAssumption, DispatchAssumption DEF Slot, Proc

\* The types of the single values.
LEMMA Typed ==
    ASSUME TypeOK
    PROVE  /\ count \in Nat /\ Len(index) \in Nat /\ Len(batch) \in Nat
           /\ DOMAIN batch = 1 .. Len(batch) /\ Len(batch) <= BatchSize
           /\ \A i \in DOMAIN batch : batch[i] \in Nat /\ batch[i] <= Len(index)
           /\ fill \in Nat /\ faults \in Nat /\ faults <= MaxFaults
           /\ \A k \in Proc :
                  /\ at[k] \in Slot /\ at[k] \in Nat /\ at[k] < RedoCount
                  /\ done[k] \in Nat /\ done[k] <= RedoCount
                  /\ rec[k] \in Nat /\ rec[k] <= Len(index)
                  /\ \A s \in Slot : flag[k][s] \in BOOLEAN
                  /\ \A s \in Slot :
                         slot[k][s] \in Nat /\ slot[k][s] <= Len(index)
<1>1. count \in Nat /\ Len(index) \in Nat /\ Len(batch) \in Nat
  BY DEF TypeOK
<1>2. /\ DOMAIN batch = 1 .. Len(batch) /\ Len(batch) <= BatchSize
      /\ \A i \in DOMAIN batch : batch[i] \in 0 .. Len(index)
  BY DEF TypeOK
<1>3. /\ fill \in 1 .. BatchSize + 1 /\ faults \in 0 .. MaxFaults
      /\ BatchSize \in Nat /\ MaxFaults \in Nat /\ RedoCount \in Nat
  BY Sizes DEF TypeOK
<1>4. ASSUME NEW k \in Proc
      PROVE  /\ at[k] \in Slot /\ done[k] \in 0 .. RedoCount
             /\ rec[k] \in 0 .. Len(index)
             /\ \A s \in Slot : flag[k][s] \in BOOLEAN
             /\ \A s \in Slot : slot[k][s] \in 0 .. Len(index)
  BY DEF TypeOK
<1>5. \A s \in Slot : s \in Nat /\ s < RedoCount
  BY <1>3 DEF Slot
<1> QED
  BY <1>1, <1>2, <1>3, <1>4, <1>5

\* Writing one slot of all, and one flag.
LEMMA SlotWritten ==
    ASSUME NEW R, NEW f \in [Proc -> [Slot -> R]], NEW a, NEW b, NEW v \in R
    PROVE  [f EXCEPT ![a][b] = v] \in [Proc -> [Slot -> R]]
OBVIOUS

LEMMA FlagWritten ==
    ASSUME NEW f \in [Proc -> [Slot -> BOOLEAN]], NEW a, NEW b
    PROVE  /\ [f EXCEPT ![a][b] = TRUE] \in [Proc -> [Slot -> BOOLEAN]]
           /\ [f EXCEPT ![a][b] = FALSE] \in [Proc -> [Slot -> BOOLEAN]]
<1>1. TRUE \in BOOLEAN /\ FALSE \in BOOLEAN
  OBVIOUS
<1> QED
  BY <1>1, SlotWritten

\* Every step of the parent keeps the types.
LEMMA TypeParent ==
    ASSUME TypeOK, Forks, BatchRead, ParentStep PROVE TypeOK'
<1>1. CASE Fork
  <2>1. forked' \in 0 .. ProcessNum
    <3>1. forked \in 0 .. ProcessNum
      BY DEF TypeOK
    <3>2. forked' = forked + 1 /\ forked < ProcessNum
      BY <1>1 DEF Fork, Forks
    <3> QED
      BY <3>1, <3>2, Sizes
  <2> QED
    BY <1>1, <2>1 DEF Fork, TypeOK, shmVars, logVars
<1>2. CASE ReadBatch
  <2>1. count \in Nat /\ Len(index) \in Nat /\ batch' \in Seq(0 .. Len(index))
        /\ Len(batch') <= BatchSize /\ count' \in Nat
    <3>1. Len(index) \in Nat /\ count \in Nat
      BY DEF TypeOK
    <3>2. CASE count >= Len(index)
      <4>1. batch' = <<Blank>> /\ count' = count + 1
        BY <1>2, <3>2 DEF ReadBatch
      <4>2. Blank \in 0 .. Len(index)
        BY <3>1 DEF Blank
      <4>3. batch' \in Seq(0 .. Len(index)) /\ Len(batch') = 1
        BY <4>1, <4>2
      <4> QED
        BY <3>1, <4>1, <4>3, Sizes
    <3>3. CASE count < Len(index)
      <4> DEFINE last == IF Len(index) - count < BatchSize
                         THEN Len(index) ELSE count + BatchSize
                 m == last - count
      <4>1. batch' = [n \in 1 .. m |-> count + n] /\ count' = last
        BY <1>2, <3>1, <3>3 DEF ReadBatch
      <4>2. /\ m \in Nat /\ m <= BatchSize /\ last \in Nat
            /\ \A n \in 1 .. m : count + n \in 0 .. Len(index)
        BY <3>1, <3>3, Sizes
      <4> HIDE DEF m, last
      <4>3. batch' \in Seq(0 .. Len(index)) /\ Len(batch') = m
        BY <4>1, <4>2
      <4> QED
        BY <3>1, <4>1, <4>2, <4>3
    <3> QED
      BY <3>1, <3>2, <3>3
  <2>2. endFlag' \in 0 .. 2 /\ parent' = "pay"
    BY <1>2 DEF ReadBatch, TypeOK
  <2> QED
    BY <1>2, <2>1, <2>2 DEF ReadBatch, TypeOK, childVars, logVars
<1>3. CASE WaitForPayments
  BY <1>3, Sizes DEF WaitForPayments, TypeOK, shmVars, childVars, logVars
<1>4. CASE SearchIdle
  <2>1. scan' \in Proc
    <3>1. scan \in Nat /\ scan' = (scan + 1) % ProcessNum
      BY <1>4, Sizes DEF SearchIdle, TypeOK
    <3> QED
      BY <3>1, RedoAssumption DEF Proc
  <2>2. fill' \in 1 .. BatchSize + 1
    <3>1. fill \in 1 .. BatchSize + 1 /\ (fill' = fill \/ fill' = 1)
      BY <1>4 DEF SearchIdle, TypeOK
    <3> QED
      BY <3>1, Sizes
  <2>3. idle' \subseteq Proc /\ parent' \in {"fill", "search"}
    BY <1>4 DEF SearchIdle, TypeOK
  <2> QED
    BY <1>4, <2>1, <2>2, <2>3 DEF SearchIdle, TypeOK, shmVars, childVars, logVars
<1>5. CASE FillSlot
  <2>1. fill' \in 1 .. BatchSize + 1 /\ parent' \in {"fill", "raise"}
    <3>1. fill \in DOMAIN batch
      BY <1>5 DEF FillSlot, BatchRead
    <3>2. fill' = 1 \/ fill' = fill + 1
      BY <1>5 DEF FillSlot
    <3>3. parent' = "raise" \/ parent' = "fill"
      BY <1>5 DEF FillSlot
    <3> QED
      BY <3>1, <3>2, <3>3, Typed, Sizes
  <2>2. slot' \in [Proc -> [Slot -> 0 .. Len(index)]]
    <3>1. fill \in DOMAIN batch
      BY <1>5 DEF FillSlot, BatchRead
    <3>2. batch[fill] \in 0 .. Len(index)
      BY <3>1 DEF TypeOK
    <3>3. slot \in [Proc -> [Slot -> 0 .. Len(index)]]
      BY DEF TypeOK
    <3>4. slot' = [slot EXCEPT ![Target(fill).proc][Target(fill).slot]
                                   = batch[fill]]
      BY <1>5 DEF FillSlot
    <3> QED
      BY <3>2, <3>3, <3>4, SlotWritten
  <2>3. flag' \in [Proc -> [Slot -> BOOLEAN]]
    <3>1. flag \in [Proc -> [Slot -> BOOLEAN]]
      BY DEF TypeOK
    <3>2. \/ flag' = flag
          \/ flag' = [flag EXCEPT ![Target(fill).proc][Target(fill).slot]
                                      = FALSE]
      BY <1>5 DEF FillSlot
    <3>3. [flag EXCEPT ![Target(fill).proc][Target(fill).slot] = FALSE]
              \in [Proc -> [Slot -> BOOLEAN]]
      BY <3>1, FlagWritten
    <3> QED
      BY <3>1, <3>2, <3>3
  <2> QED
    BY <1>5, <2>1, <2>2, <2>3 DEF FillSlot, TypeOK, childVars, logVars
<1>6. CASE RaiseFirst
  <2>1. fill' \in 1 .. BatchSize + 1 /\ parent' \in {"end", "read", "raise"}
    <3>1. fill \in DOMAIN batch
      BY <1>6 DEF RaiseFirst, BatchRead
    <3>2. fill' = 1 \/ fill' = fill + 1
      BY <1>6 DEF RaiseFirst
    <3>3. parent' = "raise" \/ parent' = "read" \/ parent' = "end"
      BY <1>6 DEF RaiseFirst
    <3> QED
      BY <3>1, <3>2, <3>3, Typed, Sizes
  <2>2. flag' \in [Proc -> [Slot -> BOOLEAN]]
    <3>1. flag \in [Proc -> [Slot -> BOOLEAN]]
      BY DEF TypeOK
    <3>2. \/ flag' = flag
          \/ flag' = [flag EXCEPT ![Target(fill).proc][0] = FALSE]
      BY <1>6 DEF RaiseFirst
    <3>3. [flag EXCEPT ![Target(fill).proc][0] = FALSE]
              \in [Proc -> [Slot -> BOOLEAN]]
      BY <3>1, FlagWritten
    <3> QED
      BY <3>1, <3>2, <3>3
  <2> QED
    BY <1>6, <2>1, <2>2 DEF RaiseFirst, TypeOK, childVars, logVars
<1>7. CASE SetEnd
  BY <1>7 DEF SetEnd, TypeOK, childVars, logVars
<1>8. CASE Finish
  BY <1>8 DEF Finish, TypeOK, shmVars, childVars, logVars
<1> QED
  BY <1>1, <1>2, <1>3, <1>4, <1>5, <1>6, <1>7, <1>8 DEF ParentStep

\* So does every fault.
LEMMA TypeFault ==
    ASSUME TypeOK, Fault PROVE TypeOK'
<1>1. ASSUME faults < MaxFaults, faults' = faults + 1
      PROVE  faults' \in 0 .. MaxFaults
  BY <1>1, Typed, Sizes
<1>2. CASE ForkFails
  <2>1. faults' \in 0 .. MaxFaults
    BY <1>1, <1>2 DEF ForkFails
  <2> QED
    BY <1>2, <2>1 DEF ForkFails, TypeOK, shmVars, childVars, logVars
<1>3. CASE ParentQuits
  <2>1. faults' \in 0 .. MaxFaults
    BY <1>1, <1>3 DEF ParentQuits
  <2> QED
    BY <1>3, <2>1 DEF ParentQuits, TypeOK, childVars, logVars
<1>4. CASE IndexUnreadable
  <2>1. faults' \in 0 .. MaxFaults
    BY <1>1, <1>4 DEF IndexUnreadable
  <2> QED
    BY <1>4, <2>1 DEF IndexUnreadable, TypeOK, shmVars, childVars, logVars
<1>5. ASSUME NEW k \in Proc, AttachFails(k) PROVE TypeOK'
  <2>1. faults' \in 0 .. MaxFaults
    BY <1>1, <1>5 DEF AttachFails
  <2>2. errorFile' \subseteq 0 .. Len(index)
    <3>1. Blank \in 0 .. Len(index)
      BY Typed DEF Blank
    <3> QED
      BY <1>5, <3>1 DEF AttachFails, TypeOK
  <2> QED
    BY <1>5, <2>1, <2>2 DEF AttachFails, TypeOK, parentVars, shmVars
<1>6. ASSUME NEW k \in Proc, ChildQuits(k) PROVE TypeOK'
  <2>1. faults' \in 0 .. MaxFaults
    BY <1>1, <1>6 DEF ChildQuits
  <2>2. errorFile' \subseteq 0 .. Len(index)
    BY <1>6 DEF ChildQuits, Leave, TypeOK
  <2>3. unflushed' \in [Proc -> SUBSET (0 .. Len(index))]
    BY <1>6 DEF ChildQuits, Leave, TypeOK
  <2> QED
    BY <1>6, <2>1, <2>2, <2>3 DEF ChildQuits, Leave, TypeOK, parentVars
<1> QED
  BY <1>2, <1>3, <1>4, <1>5, <1>6 DEF Fault

\* What NextSlot keeps of the types.
LEMMA TypeNextSlot ==
    ASSUME TypeOK, NEW k \in Proc, NextSlot(k), InStep(k),
           child[k] = "busy" \/ (child[k] = "run" /\ Held(k, 0))
    PROVE  /\ at' \in [Proc -> Slot]
           /\ child' \in [Proc -> {"none", "attach", "run", "busy", "reset",
                                   "exited", "dead"}]
<1>1. at[k] \in Slot /\ done[k] \in 0 .. RedoCount
  BY DEF TypeOK
<1>2. at[k] # 0 => done[k] - 1 \in Slot
  <2>1. CASE child[k] = "busy"
    BY <1>1, <2>1, Sizes DEF InStep, Slot
  <2>2. CASE child[k] = "run" /\ Held(k, 0) /\ at[k] # 0
    <3>1. 0 \in 0 .. at[k] - 1
      BY <2>2, Typed
    <3>2. 0 < done[k]
      BY <2>2, <3>1 DEF InStep
    <3> QED
      BY <1>1, <3>2, Sizes DEF Slot
  <2> QED
    BY <2>1, <2>2
<1>3. at[k] + 1 < RedoCount => at[k] + 1 \in Slot
  BY <1>1, Sizes DEF Slot
<1>4. ~(at[k] + 1 < RedoCount) => at[k] # 0
  BY <1>1, Sizes DEF Slot
<1> QED
  BY <1>2, <1>3, <1>4 DEF NextSlot, TypeOK

\* So does every step of a child.
LEMMA TypeChild ==
    ASSUME TypeOK, NEW k \in Proc, InStep(k), ChildStep(k) PROVE TypeOK'
<1>1. CASE Attach(k)
  BY <1>1 DEF Attach, TypeOK, parentVars, shmVars, logVars
<1>2. CASE BeginRecord(k)
  <2>1. at[k] \in Slot /\ slot[k][at[k]] \in 0 .. Len(index)
    <3>1. at[k] \in Slot
      BY DEF TypeOK
    <3> QED
      BY <3>1 DEF TypeOK
  <2>2. outcome' \in [0 .. Len(index) -> Outcomes]
    BY <1>2, <2>1 DEF BeginRecord, TypeOK, Outcomes
  <2>3. done[k] + 1 \in 0 .. RedoCount
    <3>1. done[k] <= at[k]
      BY <1>2 DEF BeginRecord, MayLook, InStep, Held
    <3> QED
      BY <3>1, Typed, Sizes
  <2> QED
    BY <1>2, <2>1, <2>2, <2>3 DEF BeginRecord, TypeOK, parentVars, shmVars
<1>3. CASE SkipSlot(k)
  <2>1. Held(k, 0)
    BY <1>3 DEF SkipSlot, MayLook, Held
  <2> QED
    BY <1>3, <2>1, TypeNextSlot
       DEF SkipSlot, TypeOK, parentVars, shmVars, logVars
<1>4. ASSUME NEW o \in Ends, EndRecord(k, o) PROVE TypeOK'
  <2>1. outcome' \in [0 .. Len(index) -> Outcomes]
    BY <1>4 DEF EndRecord, TypeOK, Outcomes
  <2>2. rec[k] \in 0 .. Len(index)
    BY DEF TypeOK
  <2>3. unflushed' \in [Proc -> SUBSET (0 .. Len(index))]
    BY <1>4, <2>2 DEF EndRecord, TypeOK
  <2>4. /\ at' \in [Proc -> Slot]
        /\ child' \in [Proc -> {"none", "attach", "run", "busy", "reset",
                                "exited", "dead"}]
    <3>1. child[k] = "busy" /\ NextSlot(k)
      BY <1>4 DEF EndRecord
    <3>2. child[k] = "busy" \/ (child[k] = "run" /\ Held(k, 0))
      BY <3>1
    <3> QED
      BY <3>1, <3>2, TypeNextSlot
  <2> QED
    BY <1>4, <2>1, <2>3, <2>4 DEF EndRecord, TypeOK, parentVars, shmVars
<1>5. CASE ResetSlot(k)
  <2>1. flag' \in [Proc -> [Slot -> BOOLEAN]]
    <3>1. flag \in [Proc -> [Slot -> BOOLEAN]]
      BY DEF TypeOK
    <3>2. flag' = [flag EXCEPT ![k][at[k]] = TRUE]
      BY <1>5 DEF ResetSlot, NextToReset
    <3> QED
      BY <3>1, <3>2, FlagWritten
  <2>2. at' \in [Proc -> Slot] /\ done' \in [Proc -> 0 .. RedoCount]
    <3>1. at[k] \in Slot
      BY DEF TypeOK
    <3>2. at[k] # 0 => at[k] - 1 \in Slot
      BY <3>1, Sizes DEF Slot
    <3>3. 0 \in 0 .. RedoCount
      BY Sizes
    <3>4. at' = at \/ (at[k] # 0 /\ at' = [at EXCEPT ![k] = @ - 1])
      <4>1. CASE at[k] = 0
        BY <1>5, <4>1 DEF ResetSlot
      <4>2. CASE at[k] # 0
        BY <1>5, <4>2 DEF ResetSlot
      <4> QED
        BY <4>1, <4>2
    <3>5. done' = done \/ done' = [done EXCEPT ![k] = 0]
      BY <1>5 DEF ResetSlot
    <3>6. at \in [Proc -> Slot] /\ done \in [Proc -> 0 .. RedoCount]
      BY DEF TypeOK
    <3>7. at' \in [Proc -> Slot]
      BY <3>2, <3>4, <3>6
    <3> QED
      BY <3>3, <3>5, <3>6, <3>7
  <2>3. child' \in [Proc -> {"none", "attach", "run", "busy", "reset",
                             "exited", "dead"}]
    BY <1>5 DEF ResetSlot, TypeOK
  <2> QED
    BY <1>5, <2>1, <2>2, <2>3 DEF ResetSlot, TypeOK, parentVars, logVars
<1>6. CASE ChildExits(k)
  BY <1>6 DEF ChildExits, Leave, TypeOK, parentVars, shmVars
<1> QED
  BY <1>1, <1>2, <1>3, <1>4, <1>5, <1>6 DEF ChildStep

-----------------------------------------------------------------------------
(* The order of the steps.                                                 *)

\* The distribution, in terms of the state.
LEMMA TargetsNow ==
    ASSUME TypeOK, BatchRead, parent \in {"fill", "raise"}
    PROVE  /\ fill \in DOMAIN batch /\ DOMAIN batch = 1 .. Len(batch)
           /\ Len(batch) \in Nat
           /\ \A i \in DOMAIN batch :
                  /\ Target(i).proc \in idle /\ Target(i).proc \in Proc
                  /\ Target(i).slot \in Slot
                  /\ \A s \in Slot : s < Target(i).slot =>
                         \E j \in DOMAIN batch : IsTarget(j, Target(i).proc, s)
           /\ \A i, j \in DOMAIN batch : Target(i).proc = Target(j).proc =>
                  /\ PhoneOf(batch[i]) = PhoneOf(batch[j])
                  /\ i # j => Target(i).slot # Target(j).slot
                  /\ Target(i).slot < Target(j).slot <=> i < j
<1> DEFINE n == Len(batch)
           N == Numbers
           S == idle
<1>1. n \in Nat /\ DOMAIN batch = 1 .. n /\ n <= BatchSize
  BY Typed
<1>2. DOMAIN N = 1 .. n /\ \A i \in 1 .. n : N[i] = PhoneOf(batch[i])
  BY <1>1 DEF Numbers
<1>3. S \in SUBSET Proc /\ n <= Cardinality(S) /\ fill \in DOMAIN batch
  <2>1. S \in SUBSET Proc /\ Cardinality(S) >= BatchSize /\ fill \in DOMAIN batch
    BY DEF BatchRead, TypeOK
  <2>2. Cardinality(S) \in Nat
    <3>1. IsFiniteSet(Proc)
      BY RedoAssumption, FS_Interval DEF Proc
    <3> QED
      BY <2>1, <3>1, FS_Subset, FS_CardinalityType
  <2> QED
    BY <1>1, <2>1, <2>2, Sizes
<1>4. \A i : Target(i) = ProcessNo(N, S)[i]
  BY DEF Target
<1> HIDE DEF n, N, S
<1>5. LET t == ProcessNo(N, S) IN
      /\ \A i \in 1 .. n :
             /\ t[i].proc \in S /\ t[i].slot \in Slot
             /\ \A s \in Slot : s < t[i].slot =>
                    \E j \in 1 .. n : t[j].proc = t[i].proc /\ t[j].slot = s
      /\ \A i, j \in 1 .. n : t[i].proc = t[j].proc =>
             /\ N[i] = N[j]
             /\ i # j => t[i].slot # t[j].slot
             /\ t[i].slot < t[j].slot <=> i < j
  BY <1>1, <1>2, <1>3, Targets
<1>6. /\ \A i \in 1 .. n :
             /\ Target(i).proc \in S /\ Target(i).slot \in Slot
             /\ \A s \in Slot : s < Target(i).slot =>
                    \E j \in 1 .. n :
                        Target(j).proc = Target(i).proc /\ Target(j).slot = s
      /\ \A i, j \in 1 .. n : Target(i).proc = Target(j).proc =>
             /\ N[i] = N[j]
             /\ i # j => Target(i).slot # Target(j).slot
             /\ Target(i).slot < Target(j).slot <=> i < j
  BY <1>4, <1>5
<1> QED
  BY <1>1, <1>2, <1>3, <1>6 DEF IsTarget, S, n

\* The distribution stays the same as long as the parent fills and raises.
LEMMA TargetsStay ==
    ASSUME UNCHANGED <<index, batch, idle>>
    PROVE  /\ \A i : Target(i)' = Target(i)
           /\ \A i, k, s : IsTarget(i, k, s)' <=> IsTarget(i, k, s)
<1>1. \A r : PhoneOf(r)' = PhoneOf(r)
  BY DEF PhoneOf
<1>2. Numbers' = Numbers
  BY DEF Numbers, PhoneOf
<1>3. \A i : Target(i)' = Target(i)
  BY <1>2 DEF Target
<1> QED
  BY <1>3 DEF IsTarget

\* The batch and the pending records of it depend on the parent only.
LEMMA PendingStays ==
    ASSUME UNCHANGED parentVars
    PROVE  Pending' = Pending /\ \A r : IsPending(r)' <=> IsPending(r)
<1>1. UNCHANGED <<index, batch, idle, fill, parent>>
  BY DEF parentVars
<1>2. \A i : Target(i)' = Target(i)
  BY <1>1, TargetsStay
<1>3. Pending' = Pending
  BY <1>1, <1>2 DEF Pending
<1> QED
  BY <1>1, <1>3 DEF IsPending

\* A child nobody touches stays in step.
LEMMA InStepStays ==
    ASSUME NEW k \in Proc, InStep(k), flag'[k] = flag[k], slot'[k] = slot[k],
           child'[k] = child[k], at'[k] = at[k], done'[k] = done[k],
           rec'[k] = rec[k]
    PROVE  InStep(k)'
BY DEF InStep, Held

\* A step of a child touches nothing of another.
LEMMA ChildLocal ==
    ASSUME TypeOK, NEW k \in Proc, ChildStep(k)
    PROVE  /\ UNCHANGED <<parentVars, slot, endFlag, faults>>
           /\ child[k] \notin {"none", "exited", "dead"}
           /\ \A l \in Proc : l # k =>
                  /\ flag'[l] = flag[l] /\ slot'[l] = slot[l]
                  /\ child'[l] = child[l] /\ at'[l] = at[l]
                  /\ done'[l] = done[l] /\ rec'[l] = rec[l]
                  /\ unflushed'[l] = unflushed[l]
<1>1. /\ flag = [p \in Proc |-> flag[p]] /\ child = [p \in Proc |-> child[p]]
      /\ at = [p \in Proc |-> at[p]] /\ done = [p \in Proc |-> done[p]]
      /\ rec = [p \in Proc |-> rec[p]]
      /\ unflushed = [p \in Proc |-> unflushed[p]]
  BY DEF TypeOK
<1>2. CASE Attach(k)
  BY <1>1, <1>2 DEF Attach, shmVars
<1>3. CASE BeginRecord(k)
  BY <1>1, <1>3 DEF BeginRecord, shmVars
<1>4. CASE SkipSlot(k)
  BY <1>1, <1>4 DEF SkipSlot, NextSlot, shmVars
<1>5. CASE \E o \in Ends : EndRecord(k, o)
  BY <1>1, <1>5 DEF EndRecord, NextSlot, shmVars
<1>6. CASE ResetSlot(k)
  BY <1>1, <1>6 DEF ResetSlot
<1>7. CASE ChildExits(k)
  BY <1>1, <1>7 DEF ChildExits, Leave, shmVars
<1> QED
  BY <1>2, <1>3, <1>4, <1>5, <1>6, <1>7 DEF ChildStep

\* What the loop over the slots does at the end of a slot.
LEMMA InStepNextSlot ==
    ASSUME TypeOK, NEW k \in Proc, InStep(k), NextSlot(k), Held(k, 0),
           UNCHANGED <<flag, slot, done, rec>>,
           \/ child[k] = "busy"
           \/ child[k] = "run" /\ ~Held(k, at[k])
    PROVE  InStep(k)'
<1>1. /\ at[k] \in Nat /\ at[k] < RedoCount /\ done[k] \in Nat
      /\ at[k] \in Slot /\ done[k] <= RedoCount
  BY Typed
<1>2. \A s \in Slot : Held(k, s)' <=> Held(k, s)
  BY DEF Held
<1>3. Held(k, 0)' /\ ~flag'[k][0]
  BY DEF Held
<1>4. \A s \in Slot : Held(k, s) => \A p \in 0 .. s : Held(k, p)
  BY DEF InStep
<1>5. \A s \in 0 .. at[k] : Held(k, s) <=> s < done[k]
  <2>1. CASE child[k] = "busy"
    <3>1. done[k] = at[k] + 1 /\ Held(k, at[k])
      BY <2>1 DEF InStep
    <3> QED
      BY <1>1, <1>4, <3>1
  <2>2. CASE child[k] = "run" /\ ~Held(k, at[k])
    <3>1. /\ done[k] <= at[k]
          /\ \A s \in 0 .. at[k] - 1 : Held(k, s) <=> s < done[k]
      BY <2>2 DEF InStep
    <3>2. \A s \in 0 .. at[k] : s \in 0 .. at[k] - 1 \/ s = at[k]
      BY <1>1
    <3> QED
      BY <1>1, <2>2, <3>1, <3>2
  <2> QED
    BY <2>1, <2>2
<1>9. \A s \in Slot : Held(k, s)' => \A p \in 0 .. s : Held(k, p)'
  <2>1. \A s \in Slot : \A p \in 0 .. s : p \in Slot
    BY Sizes DEF Slot
  <2> QED
    BY <1>2, <1>4, <2>1
<1>6. done[k] > 0
  BY <1>1, <1>5
<1>7. CASE at[k] + 1 < RedoCount
  <2>1. child'[k] = "run" /\ at'[k] = at[k] + 1 /\ done'[k] = done[k]
    BY <1>7 DEF NextSlot, TypeOK
  <2>2. done[k] <= at[k] + 1
    BY <1>1 DEF InStep
  <2>3. at'[k] - 1 = at[k]
    BY <1>1, <2>1
  <2>4. \A s \in 0 .. at[k] : s \in Slot
    BY <1>1, <1>7, Sizes DEF Slot
  <2>5. \A s \in 0 .. at'[k] - 1 : Held(k, s)' <=> s < done'[k]
    BY <1>2, <1>5, <2>1, <2>3, <2>4
  <2> QED
    BY <1>1, <1>3, <1>9, <2>1, <2>2, <2>5 DEF InStep
<1>8. CASE ~(at[k] + 1 < RedoCount)
  <2>1. child'[k] = "reset" /\ at'[k] = done[k] - 1 /\ done'[k] = done[k]
    BY <1>8 DEF NextSlot, TypeOK
  <2>2. Slot = 0 .. at[k]
    BY <1>1, <1>8, Sizes DEF Slot
  <2>3. \A s \in Slot : Held(k, s)' <=> s <= at'[k]
    BY <1>1, <1>2, <1>5, <1>6, <2>1, <2>2
  <2>4. at'[k] < done'[k]
    BY <1>1, <2>1
  <2> QED
    BY <1>3, <1>9, <2>1, <2>3, <2>4 DEF InStep
<1> QED
  BY <1>7, <1>8

\* Every step of a child keeps it, and the others, in step.
LEMMA InStepChild ==
    ASSUME TypeOK, NEW k \in Proc, ChildStep(k), NEW l \in Proc,
           InStep(k), InStep(l)
    PROVE  InStep(l)'
<1>1. CASE l # k
  <2>1. /\ flag'[l] = flag[l] /\ slot'[l] = slot[l] /\ child'[l] = child[l]
        /\ at'[l] = at[l] /\ done'[l] = done[l] /\ rec'[l] = rec[l]
    BY <1>1, ChildLocal
  <2> QED
    BY <2>1, InStepStays
<1>2. CASE l = k
  <2>1. /\ at[k] \in Nat /\ at[k] < RedoCount /\ done[k] \in Nat
        /\ at[k] \in Slot /\ done[k] <= RedoCount
    BY Typed
  <2>2. CASE Attach(k)
    <3>1. /\ child'[k] = "run" /\ at'[k] = 0 /\ done'[k] = 0
          /\ UNCHANGED <<flag, slot>>
      BY <2>2 DEF Attach, shmVars, TypeOK, InStep
    <3>2. 0 .. 0 - 1 = {}
      OBVIOUS
    <3> QED
      BY <1>2, <3>1, <3>2 DEF InStep, Held
  <2>3. CASE BeginRecord(k)
    <3>1. /\ child'[k] = "busy" /\ at'[k] = at[k] /\ done'[k] = done[k] + 1
          /\ rec'[k] = slot[k][at[k]] /\ UNCHANGED <<flag, slot>>
          /\ child[k] = "run" /\ Held(k, 0) /\ Held(k, at[k])
      BY <2>3 DEF BeginRecord, MayLook, shmVars, TypeOK, Held
    <3>2. done[k] = at[k]
      <4>1. /\ done[k] <= at[k]
            /\ \A s \in 0 .. at[k] - 1 : Held(k, s) <=> s < done[k]
            /\ \A p \in 0 .. at[k] : Held(k, p)
        BY <2>1, <3>1 DEF InStep
      <4>2. ASSUME done[k] < at[k] PROVE FALSE
        BY <2>1, <4>1, <4>2
      <4> QED
        BY <2>1, <4>1, <4>2
    <3> QED
      BY <1>2, <3>1, <3>2 DEF InStep, Held
  <2>4. CASE SkipSlot(k)
    <3>1. /\ Held(k, 0) /\ ~Held(k, at[k]) /\ child[k] = "run" /\ NextSlot(k)
          /\ UNCHANGED <<flag, slot, done, rec>>
      BY <2>4 DEF SkipSlot, MayLook, Held, shmVars
    <3> QED
      BY <1>2, <3>1, InStepNextSlot
  <2>5. ASSUME NEW o \in Ends, EndRecord(k, o) PROVE InStep(k)'
    <3>1. /\ child[k] = "busy" /\ NextSlot(k)
          /\ UNCHANGED <<flag, slot, done, rec>>
      BY <2>5 DEF EndRecord, shmVars
    <3>2. Held(k, 0)
      BY <3>1 DEF InStep, Held
    <3> QED
      BY <3>1, <3>2, InStepNextSlot
  <2>6. CASE ResetSlot(k)
    <3>1. /\ child[k] = "reset" /\ at[k] < done[k] /\ ~flag[k][0]
          /\ \A s \in Slot : Held(k, s) <=> s <= at[k]
          /\ \A s \in Slot : flag'[k][s] = IF s = at[k] THEN TRUE ELSE flag[k][s]
      <4>1. child[k] = "reset" /\ flag' = [flag EXCEPT ![k][at[k]] = TRUE]
        BY <2>6 DEF ResetSlot, NextToReset
      <4>2. /\ at[k] < done[k] /\ ~flag[k][0]
            /\ \A s \in Slot : Held(k, s) <=> s <= at[k]
        BY <4>1 DEF InStep
      <4>3. flag \in [Proc -> [Slot -> BOOLEAN]]
        BY DEF TypeOK
      <4>4. \A s \in Slot : flag'[k][s] = IF s = at[k] THEN TRUE ELSE flag[k][s]
        BY <4>1, <4>3
      <4> QED
        BY <4>1, <4>2, <4>4
    <3>2. CASE at[k] = 0
      <4>1. /\ child'[k] = "run" /\ at'[k] = 0 /\ done'[k] = 0
            /\ flag'[k][0] = TRUE
        BY <2>6, <3>1, <3>2, Sizes DEF ResetSlot, TypeOK
      <4>2. 0 .. 0 - 1 = {}
        OBVIOUS
      <4> QED
        BY <1>2, <4>1, <4>2 DEF InStep, Held
    <3>3. CASE at[k] # 0
      <4>1. /\ child'[k] = "reset" /\ at'[k] = at[k] - 1 /\ done'[k] = done[k]
        BY <2>6, <3>1, <3>3 DEF ResetSlot, TypeOK
      <4>2. ASSUME NEW s \in Slot PROVE Held(k, s)' <=> s <= at'[k]
        <5>1. s \in Nat /\ (Held(k, s) <=> s <= at[k])
          BY <3>1, Sizes
        <5>2. Held(k, s)' <=> Held(k, s) /\ s # at[k]
          BY <3>1 DEF Held
        <5> QED
          BY <2>1, <4>1, <5>1, <5>2
      <4>3. at'[k] \in Nat /\ at'[k] < done'[k]
        BY <2>1, <3>1, <3>3, <4>1
      <4>4. 0 \in Slot /\ ~flag'[k][0]
        BY <4>2, <4>3, Sizes DEF Held
      <4>5. \A s \in Slot : Held(k, s)' => \A p \in 0 .. s : Held(k, p)'
        <5>1. \A s \in Slot : \A p \in 0 .. s : p \in Slot
          BY Sizes DEF Slot
        <5> QED
          BY <4>2, <4>3, <5>1, Sizes
      <4> QED
        BY <1>2, <4>1, <4>2, <4>3, <4>4, <4>5 DEF InStep
    <3> QED
      BY <3>2, <3>3
  <2>7. CASE ChildExits(k)
    <3>1. /\ child'[k] = "exited" /\ at'[k] = at[k] /\ done'[k] = done[k]
          /\ UNCHANGED <<flag, slot>>
      BY <2>7 DEF ChildExits, Leave, shmVars, TypeOK
    <3> QED
      BY <1>2, <3>1 DEF InStep, Held
  <2> QED
    BY <1>2, <2>2, <2>3, <2>4, <2>5, <2>6, <2>7 DEF ChildStep
<1> QED
  BY <1>1, <1>2

\* Faults take a child out of the race and leave its slots alone.
LEMMA InStepFault ==
    ASSUME TypeOK, Fault, NEW l \in Proc, InStep(l) PROVE InStep(l)'
<1>1. /\ UNCHANGED <<flag, slot, at, done, rec>>
      /\ child'[l] = child[l] \/ child'[l] = "dead"
  BY DEF Fault, ForkFails, ParentQuits, IndexUnreadable, AttachFails,
         ChildQuits, Leave, shmVars, childVars, TypeOK
<1>2. CASE child'[l] = child[l]
  BY <1>1, <1>2, InStepStays
<1>3. CASE child'[l] = "dead"
  BY <1>1, <1>3 DEF InStep, Held
<1> QED
  BY <1>1, <1>2, <1>3

\* The child of a pending first slot has not started: its other slots are
\* those of the batch.
LEMMA FirstRaised ==
    ASSUME TypeOK, BatchRead, Filled, \A l \in Proc : InStep(l), RaiseFirst,
           Target(fill).slot = 0, NEW k, k = Target(fill).proc
    PROVE  /\ k \in Proc /\ fill \in Pending /\ flag[k][0]
           /\ child[k] \notin {"busy", "reset"} /\ at[k] = 0 /\ done[k] = 0
           /\ \A s \in Slot : Held(k, s)' <=>
                  \E j \in DOMAIN batch : IsTarget(j, k, s)
           /\ \A l \in Proc : \A s \in Slot :
                  l # k => (Held(l, s)' <=> Held(l, s))
<1>1. parent = "raise" /\ parent \in {"fill", "raise"}
  BY DEF RaiseFirst
<1>2. fill \in DOMAIN batch /\ fill \in Nat /\ k \in Proc
  BY <1>1, TargetsNow, Typed
<1>3. fill \in Pending
  BY <1>1, <1>2 DEF Pending
<1>4. /\ flag[k][0]
      /\ \A s \in Slot \ {0} :
             Held(k, s) <=> \E j \in DOMAIN batch : IsTarget(j, k, s)
  BY <1>1, <1>3 DEF Filled
<1>5. child[k] \notin {"busy", "reset"} /\ at[k] = 0 /\ done[k] = 0
  BY <1>2, <1>4 DEF InStep
<1>6. flag' = [flag EXCEPT ![k][0] = FALSE]
  BY DEF RaiseFirst
<1>7. \A l \in Proc : \A s \in Slot :
          Held(l, s)' <=> Held(l, s) \/ (l = k /\ s = 0)
  <2>1. flag \in [Proc -> [Slot -> BOOLEAN]]
    BY DEF TypeOK
  <2> QED
    BY <1>2, <1>6, <2>1 DEF Held
<1>8. IsTarget(fill, k, 0)
  BY DEF IsTarget
<1>9. ASSUME NEW s \in Slot
      PROVE  Held(k, s)' <=> \E j \in DOMAIN batch : IsTarget(j, k, s)
  BY <1>2, <1>4, <1>7, <1>8
<1> QED
  BY <1>2, <1>3, <1>4, <1>5, <1>7, <1>9

\* The slots a record of the batch is written to are free, and its child has
\* not started.
LEMMA SlotFilled ==
    ASSUME TypeOK, BatchRead, Filled, \A l \in Proc : InStep(l), FillSlot,
           NEW k, k = Target(fill).proc, NEW t, t = Target(fill).slot
    PROVE  /\ k \in Proc /\ k \in idle /\ t \in Slot /\ flag[k][0] /\ ~Held(k, t)
           /\ child[k] \notin {"busy", "reset"} /\ at[k] = 0 /\ done[k] = 0
           /\ slot'[k][t] = batch[fill]
           /\ \A l \in Proc : \A s \in Slot :
                  /\ Held(l, s)' <=> Held(l, s) \/ (l = k /\ s = t /\ t # 0)
                  /\ l # k \/ s # t => slot'[l][s] = slot[l][s]
<1>1. parent = "fill" /\ parent \in {"fill", "raise"}
  BY DEF FillSlot
<1>2. fill \in DOMAIN batch /\ fill \in Nat /\ k \in Proc /\ k \in idle
      /\ t \in Slot
  BY <1>1, TargetsNow, Typed
<1>3. flag[k][0]
  BY <1>1, <1>2 DEF Filled
<1>4. child[k] \notin {"busy", "reset"} /\ at[k] = 0 /\ done[k] = 0
  BY <1>2, <1>3 DEF InStep
<1>5. ~Held(k, t)
  <2> SUFFICES ASSUME Held(k, t) PROVE FALSE
    OBVIOUS
  <2>1. PICK i \in 1 .. fill - 1 : IsTarget(i, k, t)
    BY <1>1, <1>2 DEF Filled
  <2>2. i \in DOMAIN batch /\ i # fill
    BY <1>1, <1>2, TargetsNow
  <2> QED
    BY <1>1, <1>2, <2>1, <2>2, TargetsNow DEF IsTarget
<1>6. \A l \in Proc : \A s \in Slot :
          Held(l, s)' <=> Held(l, s) \/ (l = k /\ s = t /\ t # 0)
  <2>1. flag \in [Proc -> [Slot -> BOOLEAN]]
    BY DEF TypeOK
  <2>2. CASE t # 0
    <3>1. flag' = [flag EXCEPT ![k][t] = FALSE]
      BY <2>2 DEF FillSlot, RaisedWhileFilling
    <3> QED
      BY <1>2, <2>1, <2>2, <3>1 DEF Held
  <2>3. CASE t = 0
    <3>1. flag' = flag
      BY <2>3 DEF FillSlot, RaisedWhileFilling
    <3> QED
      BY <2>3, <3>1 DEF Held
  <2> QED
    BY <2>2, <2>3
<1>7. /\ slot'[k][t] = batch[fill]
      /\ \A l \in Proc : \A s \in Slot :
             l # k \/ s # t => slot'[l][s] = slot[l][s]
  <2>1. slot \in [Proc -> [Slot -> 0 .. Len(index)]]
    BY DEF TypeOK
  <2>2. slot' = [slot EXCEPT ![k][t] = batch[fill]]
    BY DEF FillSlot
  <2> QED
    BY <1>2, <2>1, <2>2
<1> QED
  BY <1>2, <1>3, <1>4, <1>5, <1>6, <1>7

\* A child that has not started is in step with whatever it finds.
LEMMA InStepStart ==
    ASSUME NEW k \in Proc, InStep(k), at[k] = 0, done[k] = 0,
           child[k] \notin {"busy", "reset"}, UNCHANGED <<child, at, done>>,
           \A s \in Slot : Held(k, 0)' /\ Held(k, s)' =>
               \A p \in 0 .. s : Held(k, p)'
    PROVE  InStep(k)'
<1>1. 0 .. 0 - 1 = {}
  OBVIOUS
<1>2. at'[k] = 0 /\ done'[k] = 0 /\ child'[k] \notin {"busy", "reset"}
  OBVIOUS
<1> QED
  BY <1>1, <1>2 DEF InStep

\* The parent keeps the children in step.
LEMMA InStepParent ==
    ASSUME TypeOK, Forks, BatchRead, Filled, \A l \in Proc : InStep(l),
           ParentStep, NEW k \in Proc
    PROVE  InStep(k)'
<1>1. CASE Fork
  <2>1. UNCHANGED <<flag, slot, at, done, rec>>
    BY <1>1 DEF Fork, shmVars
  <2>2. CASE k = forked
    <3>1. child[k] = "none" /\ child'[k] = "attach"
      BY <1>1, <2>2, Sizes DEF Fork, Forks, TypeOK
    <3> QED
      BY <2>1, <3>1 DEF InStep, Held
  <2>3. CASE k # forked
    <3>1. child'[k] = child[k]
      BY <1>1, <2>3 DEF Fork, TypeOK
    <3> QED
      BY <2>1, <3>1, InStepStays
  <2> QED
    BY <2>2, <2>3
<1>2. CASE FillSlot
  <2> DEFINE p == Target(fill).proc
             t == Target(fill).slot
  <2>1. PICK m, u : m = p /\ u = t
    OBVIOUS
  <2>2. UNCHANGED <<child, at, done, rec>>
    BY <1>2 DEF FillSlot, childVars
  <2>3. /\ m \in Proc /\ u \in Slot /\ flag[m][0] /\ at[m] = 0 /\ done[m] = 0
        /\ child[m] \notin {"busy", "reset"}
        /\ \A l \in Proc : \A s \in Slot :
               /\ Held(l, s)' <=> Held(l, s) \/ (l = m /\ s = u /\ u # 0)
               /\ l # m \/ s # u => slot'[l][s] = slot[l][s]
    BY <1>2, <2>1, SlotFilled
  <2>4. CASE k = m
    <3>1. ~Held(k, 0)'
      BY <2>3, <2>4, Sizes DEF Held
    <3> QED
      BY <2>2, <2>3, <2>4, <3>1, InStepStart
  <2>5. CASE k # m
    <3>1. flag'[k] = flag[k] /\ slot'[k] = slot[k]
      <4>1. flag' = flag \/ flag' = [flag EXCEPT ![m][u] = FALSE]
        BY <1>2, <2>1 DEF FillSlot
      <4>2. slot' = [slot EXCEPT ![m][u] = batch[fill]]
        BY <1>2, <2>1 DEF FillSlot
      <4>3. /\ flag = [l \in Proc |-> flag[l]] /\ slot = [l \in Proc |-> slot[l]]
        BY DEF TypeOK
      <4> QED
        BY <2>5, <4>1, <4>2, <4>3
    <3> QED
      BY <2>2, <3>1, InStepStays
  <2> QED
    BY <2>4, <2>5
<1>3. CASE RaiseFirst
  <2>1. UNCHANGED <<child, at, done, rec, slot>>
    BY <1>3 DEF RaiseFirst, childVars
  <2>2. CASE Target(fill).slot # 0
    <3>1. flag' = flag
      BY <1>3, <2>2 DEF RaiseFirst
    <3> QED
      BY <2>1, <3>1, InStepStays
  <2>3. CASE Target(fill).slot = 0
    <3>1. PICK m : m = Target(fill).proc
      OBVIOUS
    <3>2. /\ m \in Proc /\ at[m] = 0 /\ done[m] = 0
          /\ child[m] \notin {"busy", "reset"}
          /\ \A s \in Slot : Held(m, s)' <=>
                 \E j \in DOMAIN batch : IsTarget(j, m, s)
      BY <1>3, <2>3, <3>1, FirstRaised
    <3>3. CASE k = m
      <4>1. parent \in {"fill", "raise"}
        BY <1>3 DEF RaiseFirst
      <4>2. ASSUME NEW s \in Slot, Held(k, s)', NEW q \in 0 .. s
            PROVE  Held(k, q)'
        <5>1. PICK j \in DOMAIN batch : IsTarget(j, k, s)
          BY <3>2, <3>3, <4>2
        <5>2. q \in Slot /\ (q < s \/ q = s)
          BY Sizes DEF Slot
        <5>3. \E i \in DOMAIN batch : IsTarget(i, k, q)
          BY <4>1, <5>1, <5>2, TargetsNow DEF IsTarget
        <5> QED
          BY <3>2, <3>3, <5>2, <5>3
      <4> QED
        BY <2>1, <3>2, <3>3, <4>2, InStepStart
    <3>4. CASE k # m
      <4>1. flag'[k] = flag[k]
        <5>1. flag' = [flag EXCEPT ![m][0] = FALSE]
          BY <1>3, <2>3, <3>1 DEF RaiseFirst
        <5>2. flag = [l \in Proc |-> flag[l]]
          BY DEF TypeOK
        <5> QED
          BY <3>4, <5>1, <5>2
      <4> QED
        BY <2>1, <4>1, InStepStays
    <3> QED
      BY <3>3, <3>4
  <2> QED
    BY <2>2, <2>3
<1>4. CASE ReadBatch \/ WaitForPayments \/ SearchIdle \/ SetEnd \/ Finish
  <2>1. UNCHANGED <<flag, slot, child, at, done, rec>>
    BY <1>4 DEF ReadBatch, WaitForPayments, SearchIdle, SetEnd, Finish,
                shmVars, childVars
  <2> QED
    BY <2>1, InStepStays
<1> QED
  BY <1>1, <1>2, <1>3, <1>4 DEF ParentStep

\* The parent forks each child once.
LEMMA ForksStep ==
    ASSUME TypeOK, Forks, ParentStep \/ Fault \/ \E k \in Proc : ChildStep(k)
    PROVE  Forks'
<1>1. CASE Fork
  <2>1. forked \in Nat /\ \A k \in Proc : k \in Nat
    BY Sizes DEF TypeOK
  <2>2. forked' = forked + 1 /\ (parent' = "fork" => forked + 1 # ProcessNum)
    BY <1>1 DEF Fork
  <2>3. \A k \in Proc : k # forked => child'[k] = child[k]
    BY <1>1 DEF Fork, TypeOK
  <2>4. forked < ProcessNum
    BY <1>1 DEF Fork, Forks
  <2> QED
    BY <2>1, <2>2, <2>3, <2>4, Sizes DEF Forks
<1>2. CASE ~Fork
  <2>1. /\ forked' = forked
        /\ parent' = "fork" => parent = "fork"
        /\ \A k \in Proc : child[k] = "none" => child'[k] = "none"
    <3>1. CASE ParentStep
      BY <1>2, <3>1 DEF ParentStep, ReadBatch, WaitForPayments, SearchIdle,
             FillSlot, RaiseFirst, SetEnd, Finish, childVars
    <3>2. CASE Fault
      BY <3>2 DEF Fault, ForkFails, ParentQuits, IndexUnreadable, AttachFails,
             ChildQuits, Leave, parentVars, childVars, TypeOK
    <3>3. ASSUME NEW k \in Proc, ChildStep(k)
          PROVE  /\ forked' = forked /\ parent' = parent
                 /\ \A l \in Proc : child[l] = "none" => child'[l] = "none"
      BY <3>3, ChildLocal DEF parentVars
    <3> QED
      BY <3>1, <3>2, <3>3
  <2> QED
    BY <2>1 DEF Forks
<1> QED
  BY <1>1, <1>2

\* Reading a batch gives the next BatchSize records or the blank one.
LEMMA BatchReadRead ==
    ASSUME TypeOK, BatchRead, ReadBatch PROVE BatchRead'
<1>1. count \in Nat /\ Len(index) \in Nat /\ parent' = "pay" /\ index' = index
  BY Typed DEF ReadBatch
<1>2. CASE count >= Len(index)
  <2>1. batch' = <<Blank>> /\ count' = count + 1
    BY <1>2 DEF ReadBatch
  <2>2. count' >= Len(index')
    BY <1>1, <1>2, <2>1
  <2>3. batch' # <<>>
    BY <2>1
  <2> QED
    BY <1>1, <2>1, <2>2, <2>3 DEF BatchRead, Blank
<1>3. CASE count < Len(index)
  <2> DEFINE last == IF Len(index) - count < BatchSize
                     THEN Len(index) ELSE count + BatchSize
             m == last - count
             q == count \div BatchSize
  <2>1. /\ batch' = [n \in 1 .. m |-> count + n] /\ count' = last
        /\ endFlag' = IF last = Len(index) THEN 1 ELSE endFlag
    BY <1>1, <1>3 DEF ReadBatch
  <2>2. m \in Nat /\ m >= 1 /\ last \in Nat /\ last = count + m
    BY <1>1, <1>3, Sizes
  <2>3. q \in Nat /\ count = BatchSize * q
    <3>1. count % BatchSize = 0
      BY <1>1, <1>3 DEF BatchRead
    <3>2. BatchSize \in Nat \ {0}
      BY Sizes
    <3>3. count \div BatchSize \in Nat
      BY <1>1, <3>2
    <3>4. count = (BatchSize * (count \div BatchSize)) + (count % BatchSize)
      BY <1>1, <3>2
    <3>5. BatchSize * (count \div BatchSize) \in Nat
      BY <3>2, <3>3
    <3> QED
      BY <1>1, <3>1, <3>3, <3>4, <3>5
  <2>4. last >= Len(index) \/ last % BatchSize = 0
    <3>1. CASE Len(index) - count < BatchSize
      BY <1>1, <3>1
    <3>2. CASE ~(Len(index) - count < BatchSize)
      <4>1. last = BatchSize * q + BatchSize
        BY <2>3, <3>2
      <4> HIDE DEF q, last
      <4>2. BatchSize * (q + 1) = BatchSize * q + BatchSize
        BY <2>3, Sizes
      <4>3. (BatchSize * (q + 1)) % BatchSize = 0
        <5>1. BatchSize \in Nat \ {0} /\ q + 1 \in Nat
          BY <2>3, Sizes
        <5> QED
          BY <5>1, Division
      <4> QED
        BY <4>1, <4>2, <4>3
    <3> QED
      BY <3>1, <3>2
  <2>5. last = Len(index) => last >= Len(index)
    BY <1>1
  <2>6. endFlag' = 1 => last >= Len(index)
    <3>1. endFlag = 1 => FALSE
      BY <1>1, <1>3 DEF BatchRead
    <3> QED
      BY <2>1, <2>5, <3>1
  <2> HIDE DEF last
  <2>7. batch' # <<>> /\ DOMAIN batch' = 1 .. m
        /\ \A i \in 1 .. m : batch'[i] = count + i
    <3>1. DOMAIN batch' = 1 .. m /\ \A i \in 1 .. m : batch'[i] = count + i
      BY <2>1
    <3>2. 1 \in DOMAIN batch'
      BY <2>2, <3>1
    <3>3. DOMAIN <<>> = {}
      OBVIOUS
    <3> QED
      BY <3>1, <3>2, <3>3
  <2>8. ((batch'[1]) - 1) \div BatchSize = q
    <3>1. (count + 1) - 1 = count /\ 1 \in 1 .. m
      BY <1>1, <2>2
    <3> QED
      BY <2>7, <3>1
  <2> HIDE DEF q, m
  <2>9. \A i \in DOMAIN batch' :
            batch'[i] = BatchSize * q + i /\ batch'[i] <= count'
    BY <1>1, <2>1, <2>2, <2>3, <2>7
  <2>10. \A i \in DOMAIN batch' :
             /\ batch'[i] = BatchSize * BatchOf(batch[1])' + i
             /\ batch'[i] <= count'
    BY <2>8, <2>9 DEF BatchOf
  <2> QED
    BY <1>1, <2>1, <2>4, <2>6, <2>7, <2>10 DEF BatchRead
<1> QED
  BY <1>1, <1>2, <1>3

\* What is left when the batch and the counts stay.
LEMMA BatchReadStays ==
    ASSUME BatchRead, UNCHANGED <<index, count, batch>>,
           endFlag' = 1 => endFlag = 1 \/ count >= Len(index),
           parent' \in {"end", "drain", "finished"} =>
               endFlag = 1 \/ parent \in {"end", "drain", "finished"},
           parent' \in {"pay", "search", "fill", "raise"} =>
               parent \in {"pay", "search", "fill", "raise"},
           parent' \in {"fill", "raise"} =>
               fill' \in DOMAIN batch /\ Cardinality(idle') >= BatchSize
    PROVE  BatchRead'
<1>1. BatchOf(batch[1])' = BatchOf(batch[1])
  BY DEF BatchOf
<1> QED
  BY <1>1 DEF BatchRead

\* Every other step keeps what BatchRead says.
LEMMA BatchReadStep ==
    ASSUME TypeOK, BatchRead,
           ParentStep \/ Fault \/ \E k \in Proc : ChildStep(k)
    PROVE  BatchRead'
<1>1. CASE Fork
  BY <1>1, BatchReadStays DEF Fork, shmVars
<1>2. CASE ReadBatch
  BY <1>2, BatchReadRead
<1>3. CASE WaitForPayments
  BY <1>3, BatchReadStays DEF WaitForPayments, shmVars
<1>4. CASE SearchIdle
  <2>1. parent = "search" /\ UNCHANGED <<index, count, batch, endFlag>>
        /\ parent' \in {"search", "fill"}
        /\ (parent' = "fill" => fill' = 1 /\ Cardinality(idle') >= BatchSize)
    BY <1>4 DEF SearchIdle, shmVars
  <2>2. 1 \in DOMAIN batch
    <3>1. batch # <<>>
      BY <2>1 DEF BatchRead
    <3>2. Len(batch) \in Nat /\ batch \in Seq(0 .. Len(index))
      BY DEF TypeOK
    <3> QED
      BY <3>1, <3>2
  <2> QED
    BY <2>1, <2>2, BatchReadStays
<1>5. ASSUME parent = "fill" \/ parent = "raise",
             fill' = 1 \/ (fill # Len(batch) /\ fill' = fill + 1)
      PROVE  fill' \in DOMAIN batch
  <2>1. fill \in DOMAIN batch
    BY <1>5 DEF BatchRead
  <2> QED
    BY <1>5, <2>1, Typed
<1>6. CASE FillSlot
  <2>1. /\ parent = "fill" /\ UNCHANGED <<index, count, batch, endFlag, idle>>
        /\ parent' \in {"fill", "raise"}
        /\ fill' = 1 \/ (fill # Len(batch) /\ fill' = fill + 1)
    BY <1>6 DEF FillSlot
  <2>2. Cardinality(idle) >= BatchSize
    BY <2>1 DEF BatchRead
  <2> QED
    BY <1>5, <2>1, <2>2, BatchReadStays
<1>7. CASE RaiseFirst
  <2>1. /\ parent = "raise" /\ UNCHANGED <<index, count, batch, endFlag, idle>>
        /\ parent' = "raise" \/ parent' = "read" \/ (parent' = "end" /\ endFlag = 1)
        /\ fill' = 1 \/ (fill # Len(batch) /\ fill' = fill + 1)
    BY <1>7 DEF RaiseFirst
  <2>2. Cardinality(idle) >= BatchSize
    BY <2>1 DEF BatchRead
  <2> QED
    BY <1>5, <2>1, <2>2, BatchReadStays
<1>8. CASE SetEnd
  BY <1>8, BatchReadStays DEF SetEnd
<1>9. CASE Finish
  BY <1>9, BatchReadStays DEF Finish, shmVars
<1>10. CASE Fault
  <2>1. /\ UNCHANGED <<index, count, batch, idle, fill>>
        /\ parent' = parent \/ parent' = "gone"
        /\ endFlag' = endFlag \/ endFlag' = 2
    BY <1>10 DEF Fault, ForkFails, ParentQuits, IndexUnreadable, AttachFails,
           ChildQuits, parentVars, shmVars
  <2> QED
    BY <2>1, BatchReadStays DEF BatchRead
<1>11. CASE \E k \in Proc : ChildStep(k)
  BY <1>11, ChildLocal, BatchReadStays DEF parentVars, BatchRead
<1> QED
  BY <1>1, <1>2, <1>3, <1>4, <1>6, <1>7, <1>8, <1>9, <1>10, <1>11 DEF ParentStep

\* A child in its loop makes a step: the slots stay as the parent filled them.
LEMMA FilledChild ==
    ASSUME TypeOK, BatchRead, Filled, NEW k \in Proc, InStep(k), ChildStep(k)
    PROVE  Filled'
<1>1. /\ UNCHANGED <<index, batch, idle, fill, parent>> /\ slot' = slot
      /\ UNCHANGED parentVars
  BY ChildLocal DEF parentVars
<1>2. Pending' = Pending
  BY <1>1, PendingStays
<1>3. /\ \A i : Target(i)' = Target(i)
      /\ \A i, l, s : IsTarget(i, l, s)' <=> IsTarget(i, l, s)
  BY <1>1, TargetsStay
<1>4. CASE flag' = flag
  <2>1. \A l, s : Held(l, s)' <=> Held(l, s)
    BY <1>4 DEF Held
  <2>2. \A l : AllFree(l)' <=> AllFree(l)
    BY <1>4 DEF AllFree
  <2> QED
    BY <1>1, <1>2, <1>3, <1>4, <2>1, <2>2 DEF Filled
<1>5. CASE ResetSlot(k)
  <2>1. child[k] = "reset" /\ flag' = [flag EXCEPT ![k][at[k]] = TRUE]
    BY <1>5 DEF ResetSlot, NextToReset
  <2>2. ~flag[k][0] /\ \A s \in Slot : Held(k, s) <=> s <= at[k]
    BY <2>1 DEF InStep
  <2>3. at[k] \in Slot /\ at[k] \in Nat /\ flag \in [Proc -> [Slot -> BOOLEAN]]
    BY Typed DEF TypeOK
  <2>4. /\ \A l \in Proc : \A s \in Slot : flag[l][s] => flag'[l][s]
        /\ \A l \in Proc : l # k => flag'[l] = flag[l]
        /\ \A s \in Slot : flag'[k][s] = (flag[k][s] \/ s = at[k])
    <3>1. \A l \in Proc : l # k => flag'[l] = flag[l]
      BY <2>1, <2>3
    <3>2. \A s \in Slot : flag'[k][s] = IF s = at[k] THEN TRUE ELSE flag[k][s]
      BY <2>1, <2>3
    <3> QED
      BY <2>3, <3>1, <3>2
  <2>5. \A l \in Proc : l # k => /\ \A s : Held(l, s)' <=> Held(l, s)
                                 /\ AllFree(l)' <=> AllFree(l)
    BY <2>4 DEF Held, AllFree
  <2>6. AllFree(k)'
    <3> SUFFICES ASSUME flag'[k][0], NEW s \in Slot PROVE flag'[k][s]
      BY DEF AllFree
    <3>1. at[k] = 0
      BY <2>2, <2>4, Sizes
    <3>2. s = 0 \/ flag[k][s]
      BY <2>2, <3>1, Sizes DEF Held
    <3> QED
      BY <2>4, <3>1, <3>2
  <2>7. parent # "search" \/ k \notin idle
    BY <2>2 DEF Filled
  <2>8. parent # "finished"
    BY <2>2, Sizes DEF Filled
  <2>9. parent = "fill" =>
            k \notin idle /\ \A i \in 1 .. fill - 1 : Target(i).proc # k
    <3> SUFFICES ASSUME parent = "fill"
                 PROVE  /\ k \notin idle
                        /\ \A i \in 1 .. fill - 1 : Target(i).proc # k
      OBVIOUS
    <3>1. k \notin idle
      BY <2>2 DEF Filled
    <3>2. /\ fill \in DOMAIN batch /\ DOMAIN batch = 1 .. Len(batch)
          /\ Len(batch) \in Nat /\ \A i \in DOMAIN batch : Target(i).proc \in idle
      BY TargetsNow
    <3> QED
      BY <3>1, <3>2
  <2>10. parent = "raise" => \A i \in Pending : Target(i).proc # k
    BY <2>2 DEF Filled
  <2>11. CASE parent = "fill"
    <3>1. \A i \in 1 .. fill - 1 : Target(i).proc \in Proc
      BY <2>11, TargetsNow
    <3>2. idle \subseteq Proc
      BY DEF TypeOK
    <3> QED
      BY <1>1, <1>3, <2>4, <2>5, <2>6, <2>9, <2>11, <3>1, <3>2 DEF Filled
  <2>12. CASE parent = "raise"
    <3>1. \A i \in Pending : Target(i).proc \in Proc
      BY <2>12, TargetsNow DEF Pending
    <3>2. \A i \in Pending : flag'[Target(i).proc] = flag[Target(i).proc]
      BY <2>4, <2>10, <2>12, <3>1
    <3> QED
      BY <1>1, <1>2, <1>3, <2>5, <2>6, <2>10, <2>12, <3>1, <3>2 DEF Filled
  <2>13. CASE parent \notin {"fill", "raise"}
    <3>1. parent \notin {"fill", "raise", "gone"} => \A l \in Proc : AllFree(l)'
      BY <2>5, <2>6, <2>13 DEF Filled
    <3>2. parent = "search" => \A l \in idle : flag'[l][0]
      <4>1. idle \subseteq Proc
        BY DEF TypeOK
      <4> QED
        BY <2>4, <4>1, Sizes DEF Filled
    <3> QED
      BY <1>1, <2>8, <2>13, <3>1, <3>2 DEF Filled
  <2> QED
    BY <2>11, <2>12, <2>13
<1> QED
  BY <1>4, <1>5 DEF ChildStep, Attach, BeginRecord, SkipSlot, EndRecord,
     ChildExits, shmVars

\* The parent writes a record to its slot.
LEMMA FilledFill ==
    ASSUME TypeOK, BatchRead, Filled, \A l \in Proc : InStep(l), FillSlot
    PROVE  Filled'
<1>1. /\ UNCHANGED <<index, batch, idle>> /\ parent = "fill"
      /\ parent \in {"fill", "raise"}
  BY DEF FillSlot
<1>2. /\ \A i : Target(i)' = Target(i)
      /\ \A i, l, s : IsTarget(i, l, s)' <=> IsTarget(i, l, s)
  BY <1>1, TargetsStay
<1>3. PICK k, t : k = Target(fill).proc /\ t = Target(fill).slot
  OBVIOUS
<1>4. /\ k \in Proc /\ k \in idle /\ t \in Slot /\ flag[k][0] /\ ~Held(k, t)
      /\ slot'[k][t] = batch[fill]
      /\ \A l \in Proc : \A s \in Slot :
             /\ Held(l, s)' <=> Held(l, s) \/ (l = k /\ s = t /\ t # 0)
             /\ l # k \/ s # t => slot'[l][s] = slot[l][s]
  BY <1>3, SlotFilled
<1>5. /\ fill \in DOMAIN batch /\ DOMAIN batch = 1 .. Len(batch)
      /\ Len(batch) \in Nat /\ fill \in Nat
      /\ \A i \in DOMAIN batch :
             Target(i).proc \in Proc /\ Target(i).proc \in idle
             /\ Target(i).slot \in Slot
      /\ \A i \in DOMAIN batch : IsTarget(i, k, t) => i = fill
  BY <1>1, <1>3, TargetsNow DEF IsTarget
<1>6. ASSUME NEW l \in Proc \ idle PROVE AllFree(l)'
  <2>1. AllFree(l) /\ l # k
    BY <1>1, <1>4, <1>6 DEF Filled
  <2> QED
    BY <1>4, <2>1, Sizes DEF AllFree, Held
<1>7. ASSUME NEW l \in idle
      PROVE  /\ flag'[l][0]
             /\ \A s \in Slot : Held(l, s)' =>
                    \E i \in 1 .. fill : IsTarget(i, l, s)
  <2>1. /\ l \in Proc /\ flag[l][0]
        /\ \A s \in Slot : Held(l, s) => \E i \in 1 .. fill - 1 : IsTarget(i, l, s)
    BY <1>1 DEF Filled, TypeOK
  <2>2. ~Held(l, 0)'
    BY <1>4, <2>1, Sizes DEF Held
  <2>3. IsTarget(fill, k, t)
    BY <1>3 DEF IsTarget
  <2>4. 1 .. fill - 1 \subseteq 1 .. fill /\ fill \in 1 .. fill
    BY <1>5
  <2> QED
    BY <1>4, <2>1, <2>2, <2>3, <2>4 DEF Held
<1>8. ASSUME NEW i \in 1 .. fill, NEW p, NEW u,
             p = Target(i).proc, u = Target(i).slot
      PROVE  slot'[p][u] = batch[i] /\ (u # 0 => Held(p, u)')
  <2>1. p = Target(i).proc /\ u = Target(i).slot
    BY <1>8
  <2>2. i \in DOMAIN batch /\ p \in Proc /\ u \in Slot
    BY <1>5, <2>1
  <2>3. CASE i = fill
    <3>1. p = k /\ u = t
      BY <1>3, <2>1, <2>3
    <3> QED
      BY <1>4, <2>3, <3>1
  <2>4. CASE i # fill
    <3>1. i \in 1 .. fill - 1
      BY <1>5, <2>4
    <3>2. slot[p][u] = batch[i] /\ (u # 0 => Held(p, u))
      BY <1>1, <2>1, <3>1 DEF Filled
    <3>3. p # k \/ u # t
      BY <1>5, <2>1, <2>2, <2>4 DEF IsTarget
    <3> QED
      BY <1>4, <2>1, <2>2, <3>2, <3>3
  <2> QED
    BY <2>3, <2>4
<1>9. CASE fill # Len(batch)
  <2>1. parent' = "fill" /\ fill' = fill + 1 /\ fill' - 1 = fill
    BY <1>5, <1>9, <1>1 DEF FillSlot
  <2>2. \A l \in idle' : flag'[l][0] /\ \A s \in Slot :
            Held(l, s)' => \E i \in 1 .. fill' - 1 : IsTarget(i, l, s)'
    BY <1>1, <1>2, <1>7, <2>1
  <2>3. \A i \in 1 .. fill' - 1 :
            /\ slot'[Target(i)'.proc][Target(i)'.slot] = batch'[i]
            /\ Target(i)'.slot # 0 => ~flag'[Target(i)'.proc][Target(i)'.slot]
    BY <1>1, <1>2, <1>8, <2>1 DEF Held
  <2> QED
    BY <1>1, <1>2, <1>6, <2>1, <2>2, <2>3 DEF Filled, Held
<1>10. CASE fill = Len(batch)
  <2>1. parent' = "raise" /\ fill' = 1
    BY <1>10 DEF FillSlot
  <2>2. 1 .. fill = DOMAIN batch /\ DOMAIN batch' = DOMAIN batch
    BY <1>1, <1>5, <1>10
  <2>3. Pending' = {i \in DOMAIN batch : Target(i).slot = 0}
    <3>1. \A i \in DOMAIN batch : i >= 1
      BY <1>5
    <3> QED
      BY <1>1, <1>2, <2>1, <3>1 DEF Pending
  <2>4. \A i \in DOMAIN batch :
            slot'[Target(i).proc][Target(i).slot] = batch[i]
    BY <1>8, <2>2
  <2>5. ASSUME NEW l \in Proc
        PROVE  AllFree(l)' \/ \E i \in Pending' : Target(i).proc = l
    <3>1. CASE l \notin idle
      BY <1>6, <3>1
    <3>2. CASE l \in idle
      <4> SUFFICES ASSUME NEW s \in Slot, Held(l, s)'
                   PROVE  \E i \in Pending' : Target(i).proc = l
        BY DEF AllFree, Held
      <4>1. PICK i \in DOMAIN batch : IsTarget(i, l, s)
        BY <1>7, <2>2, <3>2
      <4>2. s # 0
        BY <1>7, <3>2 DEF Held
      <4>3. 0 \in Slot /\ 0 < s
        BY <4>2, Sizes
      <4>4. \E j \in DOMAIN batch : IsTarget(j, l, 0)
        BY <1>1, <4>1, <4>3, TargetsNow DEF IsTarget
      <4> QED
        BY <2>3, <4>4 DEF IsTarget
    <3> QED
      BY <3>1, <3>2
  <2>6. ASSUME NEW i \in Pending', NEW l, l = Target(i).proc
        PROVE  /\ flag'[l][0]
               /\ \A s \in Slot \ {0} :
                      Held(l, s)' <=> \E j \in DOMAIN batch : IsTarget(j, l, s)
    <3>1. l \in idle /\ l \in Proc
      BY <1>5, <2>3, <2>6
    <3>2. \A s \in Slot : Held(l, s)' => \E j \in DOMAIN batch : IsTarget(j, l, s)
      BY <1>7, <2>2, <3>1
    <3>3. ASSUME NEW s \in Slot \ {0}, NEW j \in DOMAIN batch, IsTarget(j, l, s)
          PROVE  Held(l, s)'
      BY <1>8, <2>2, <3>3 DEF IsTarget
    <3> QED
      BY <1>7, <3>1, <3>2, <3>3
  <2>7. parent' \notin {"search", "finished", "fill"}
    BY <2>1
  <2>8. \A i \in Pending' : flag'[Target(i).proc][0] /\ \A s \in Slot \ {0} :
            Held(Target(i).proc, s)' <=>
                \E j \in DOMAIN batch' : IsTarget(j, Target(i).proc, s)'
    BY <1>2, <2>2, <2>6
  <2> QED
    BY <1>1, <1>2, <2>1, <2>2, <2>4, <2>5, <2>8 DEF Filled
<1> QED
  BY <1>9, <1>10

\* The parent raises the first slot of a record that has one.
LEMMA FilledRaise ==
    ASSUME TypeOK, BatchRead, Filled, \A l \in Proc : InStep(l), RaiseFirst
    PROVE  Filled'
<1>1. /\ UNCHANGED <<index, batch, idle, slot>> /\ parent = "raise"
      /\ parent \in {"fill", "raise"}
  BY DEF RaiseFirst
<1>2. /\ \A i : Target(i)' = Target(i)
      /\ \A i, l, s : IsTarget(i, l, s)' <=> IsTarget(i, l, s)
  BY <1>1, TargetsStay
<1>3. PICK k : k = Target(fill).proc
  OBVIOUS
<1>4. /\ fill \in DOMAIN batch /\ DOMAIN batch = 1 .. Len(batch)
      /\ Len(batch) \in Nat /\ fill \in Nat /\ k \in Proc
      /\ \A i \in DOMAIN batch : Target(i).proc \in Proc
  BY <1>1, <1>3, TargetsNow
<1> DEFINE Rest == {i \in Pending : i # fill}
<1>5. /\ \A l \in Proc : l # k => flag'[l] = flag[l]
      /\ Target(fill).slot # 0 => flag' = flag
      /\ Target(fill).slot = 0 => ~flag'[k][0]
  <2>1. /\ Target(fill).slot # 0 => flag' = flag
        /\ Target(fill).slot = 0 => flag' = [flag EXCEPT ![k][0] = FALSE]
    BY <1>3 DEF RaiseFirst
  <2>2. flag \in [Proc -> [Slot -> BOOLEAN]]
    BY DEF TypeOK
  <2> QED
    BY <1>4, <2>1, <2>2, Sizes
<1>6. ASSUME NEW i \in Rest, Target(fill).slot = 0 PROVE Target(i).proc # k
  <2>1. i \in DOMAIN batch /\ Target(i).slot = 0 /\ i # fill
    BY <1>1 DEF Pending
  <2> QED
    BY <1>1, <1>3, <1>4, <1>6, <2>1, TargetsNow
<1>7. ASSUME NEW l \in Proc
      PROVE  AllFree(l)' \/ \E i \in Rest : Target(i).proc = l
  <2>1. AllFree(l) \/ \E i \in Pending : Target(i).proc = l
    BY <1>1 DEF Filled
  <2>2. CASE Target(fill).slot # 0
    <3>1. fill \notin Pending
      BY <1>1, <2>2 DEF Pending
    <3> QED
      BY <1>5, <2>1, <2>2, <3>1 DEF AllFree
  <2>3. CASE Target(fill).slot = 0 /\ l = k
    BY <1>5, <2>3 DEF AllFree
  <2>4. CASE Target(fill).slot = 0 /\ l # k
    BY <1>3, <1>5, <2>1, <2>4 DEF AllFree
  <2> QED
    BY <2>2, <2>3, <2>4
<1>8. ASSUME NEW i \in Rest, NEW l, l = Target(i).proc
      PROVE  /\ flag'[l][0]
             /\ \A s \in Slot \ {0} :
                    Held(l, s)' <=> \E j \in DOMAIN batch : IsTarget(j, l, s)
  <2>1. l \in Proc /\ i \in Pending
    BY <1>4, <1>8 DEF Pending
  <2>2. /\ flag[l][0]
        /\ \A s \in Slot \ {0} :
               Held(l, s) <=> \E j \in DOMAIN batch : IsTarget(j, l, s)
    BY <1>1, <1>8, <2>1 DEF Filled
  <2>3. flag'[l] = flag[l]
    BY <1>5, <1>6, <1>8, <2>1
  <2> QED
    BY <2>2, <2>3 DEF Held
<1>9. CASE fill # Len(batch)
  <2>1. parent' = "raise" /\ fill' = fill + 1
    BY <1>1, <1>9 DEF RaiseFirst
  <2>2. Pending' = Rest
    <3>1. \A i \in DOMAIN batch : i >= fill + 1 <=> i >= fill /\ i # fill
      BY <1>4
    <3>2. Pending' = {i \in DOMAIN batch : i >= fill + 1 /\ Target(i).slot = 0}
      BY <1>1, <1>2, <2>1 DEF Pending
    <3>3. Pending = {i \in DOMAIN batch : i >= fill /\ Target(i).slot = 0}
      BY <1>1 DEF Pending
    <3> QED
      BY <3>1, <3>2, <3>3
  <2>3. \A i \in Pending' : flag'[Target(i).proc][0] /\ \A s \in Slot \ {0} :
            Held(Target(i).proc, s)' <=>
                \E j \in DOMAIN batch' : IsTarget(j, Target(i).proc, s)'
    BY <1>1, <1>2, <1>8, <2>2
  <2>4. \A l \in Proc : AllFree(l)' \/ \E i \in Pending' : Target(i)'.proc = l
    BY <1>2, <1>7, <2>2
  <2>5. \A i \in DOMAIN batch' :
            slot'[Target(i)'.proc][Target(i)'.slot] = batch'[i]
    BY <1>1, <1>2 DEF Filled
  <2> QED
    BY <1>2, <2>1, <2>3, <2>4, <2>5 DEF Filled
<1>10. CASE fill = Len(batch)
  <2>1. parent' \in {"end", "read"}
    BY <1>10 DEF RaiseFirst
  <2>2. Rest = {}
    <3>1. \A i \in Pending : i \in DOMAIN batch /\ i >= fill
      BY <1>1 DEF Pending
    <3> QED
      BY <1>4, <1>10, <3>1
  <2> QED
    BY <1>7, <2>1, <2>2 DEF Filled
<1> QED
  BY <1>9, <1>10

\* The parent's other steps, and the faults, leave the slots alone.
LEMMA FilledStep ==
    ASSUME TypeOK, BatchRead, Filled, \A l \in Proc : InStep(l),
           ParentStep \/ Fault \/ \E k \in Proc : ChildStep(k)
    PROVE  Filled'
<1>1. ASSUME flag' = flag PROVE \A l : AllFree(l)' <=> AllFree(l)
  BY <1>1 DEF AllFree
<1>2. CASE Fork \/ ReadBatch \/ SetEnd
  <2>1. /\ flag' = flag /\ parent \in {"fork", "read", "end"}
        /\ parent' \in {"fork", "read", "pay", "drain"}
    BY <1>2 DEF Fork, ReadBatch, SetEnd, shmVars
  <2> QED
    BY <1>1, <2>1 DEF Filled
<1>3. CASE WaitForPayments
  <2>1. flag' = flag /\ parent = "pay" /\ parent' = "search" /\ idle' = {}
    BY <1>3 DEF WaitForPayments, shmVars
  <2> QED
    BY <1>1, <2>1 DEF Filled
<1>4. CASE Finish
  <2>1. /\ flag' = flag /\ parent = "drain" /\ parent' = "finished"
        /\ \A k \in Proc : \A s \in Slot : flag[k][s]
    BY <1>4 DEF Finish, shmVars
  <2> QED
    BY <1>1, <2>1 DEF Filled
<1>5. CASE SearchIdle
  <2>1. /\ flag' = flag /\ slot' = slot /\ batch' = batch /\ parent = "search"
        /\ parent' = "search" \/ (parent' = "fill" /\ fill' = 1)
        /\ \A l \in idle' : l \in idle \/ (l = scan /\ flag[scan][0])
    BY <1>5 DEF SearchIdle, shmVars
  <2>2. scan \in Proc /\ idle \subseteq Proc
    BY DEF TypeOK
  <2>3. \A l \in idle' : flag'[l][0] /\ l \in Proc
    BY <2>1, <2>2 DEF Filled
  <2>4. \A l \in Proc : AllFree(l)' /\ AllFree(l)
    BY <1>1, <2>1 DEF Filled
  <2>5. CASE parent' = "search"
    BY <2>3, <2>4, <2>5 DEF Filled
  <2>6. CASE parent' = "fill" /\ fill' = 1
    <3>1. 1 .. fill' - 1 = {}
      BY <2>6
    <3>2. \A l \in idle' : \A s \in Slot : ~Held(l, s)'
      BY <2>3, <2>4 DEF AllFree, Held
    <3> QED
      BY <2>3, <2>4, <2>6, <3>1, <3>2 DEF Filled
  <2> QED
    BY <2>1, <2>5, <2>6
<1>6. CASE Fault
  <2>1. flag' = flag /\ slot' = slot
    BY <1>6 DEF Fault, ForkFails, ParentQuits, IndexUnreadable, AttachFails,
           ChildQuits, shmVars
  <2>2. CASE parent' = "gone"
    BY <2>2 DEF Filled
  <2>3. CASE parent' # "gone"
    <3>1. UNCHANGED parentVars
      BY <1>6, <2>3 DEF Fault, ForkFails, ParentQuits, IndexUnreadable,
             AttachFails, ChildQuits
    <3>2. UNCHANGED <<index, batch, idle, fill, parent>>
      BY <3>1 DEF parentVars
    <3>3. /\ \A i : Target(i)' = Target(i)
          /\ \A i, l, s : IsTarget(i, l, s)' <=> IsTarget(i, l, s)
      BY <3>2, TargetsStay
    <3>4. Pending' = Pending
      BY <3>1, PendingStays
    <3>5. \A l, s : Held(l, s)' <=> Held(l, s)
      BY <2>1 DEF Held
    <3> QED
      BY <1>1, <2>1, <3>2, <3>3, <3>4, <3>5 DEF Filled
  <2> QED
    BY <2>2, <2>3
<1> QED
  BY <1>2, <1>3, <1>4, <1>5, <1>6, FilledFill, FilledRaise, FilledChild
     DEF ParentStep

\* The phases of the parent, the loops of the children and the slots of the
\* shared memory fit together, and every variable keeps its type.
THEOREM OrderlyHolds == Spec => [](TypeOK /\ Orderly)
<1>1. Init => TypeOK /\ Orderly
  <2> SUFFICES ASSUME Init PROVE TypeOK /\ Orderly
    OBVIOUS
  <2>1. index \in Seq(Phones \cup {NoPhone}) /\ Len(index) <= MaxIndex
    <3>1. PICK n \in 0 .. MaxIndex : index \in [1 .. n -> Phones \cup {NoPhone}]
      BY DEF Init
    <3>2. n \in Nat /\ n <= MaxIndex
      BY <3>1, Sizes
    <3> QED
      BY <3>1, <3>2
  <2>2. TypeOK
    <3>1. Len(index) \in Nat /\ Blank \in 0 .. Len(index)
      BY <2>1 DEF Blank
    <3>2. batch \in Seq(0 .. Len(index)) /\ Len(batch) <= BatchSize
      BY Sizes DEF Init
    <3>3. /\ flag \in [Proc -> [Slot -> BOOLEAN]]
          /\ slot \in [Proc -> [Slot -> 0 .. Len(index)]]
      BY <3>1 DEF Init
    <3>4. /\ at \in [Proc -> Slot] /\ done \in [Proc -> 0 .. RedoCount]
          /\ rec \in [Proc -> 0 .. Len(index)] /\ faults \in 0 .. MaxFaults
          /\ fill \in 1 .. BatchSize + 1 /\ forked \in 0 .. ProcessNum
          /\ scan \in Proc /\ idle \subseteq Proc /\ endFlag \in 0 .. 2
          /\ count \in Nat
      BY <3>1, Sizes DEF Init
    <3>5. /\ outcome \in [0 .. Len(index) -> Outcomes]
          /\ unflushed \in [Proc -> SUBSET (0 .. Len(index))]
          /\ errorFile \subseteq 0 .. Len(index)
      BY DEF Init, Outcomes
    <3> QED
      BY <2>1, <3>2, <3>3, <3>4, <3>5 DEF Init, TypeOK
  <2>3. Forks
    BY Sizes DEF Init, Forks
  <2>4. BatchRead
    <3>1. BatchSize \in Nat \ {0}
      BY Sizes
    <3>2. 0 % BatchSize = 0
      BY <3>1
    <3> QED
      BY <3>2 DEF Init, BatchRead
  <2>5. \A k \in Proc : InStep(k)
    BY Sizes DEF Init, InStep, Held
  <2>6. Filled
    BY DEF Init, Filled, AllFree
  <2> QED
    BY <2>2, <2>3, <2>4, <2>5, <2>6 DEF Orderly
<1>2. TypeOK /\ Orderly /\ [Next]_vars => (TypeOK /\ Orderly)'
  <2> SUFFICES ASSUME TypeOK, Orderly, [Next]_vars PROVE TypeOK' /\ Orderly'
    OBVIOUS
  <2> USE DEF Orderly
  <2>1. CASE Next
    <3>1. ParentStep \/ Fault \/ \E k \in Proc : ChildStep(k)
      BY <2>1 DEF Next
    <3>2. TypeOK'
      BY <3>1, TypeParent, TypeFault, TypeChild
    <3>3. \A l \in Proc : InStep(l)'
      BY <3>1, InStepParent, InStepFault, InStepChild
    <3>4. Forks' /\ BatchRead' /\ Filled'
      BY <3>1, ForksStep, BatchReadStep, FilledStep
    <3> QED
      BY <3>2, <3>3, <3>4
  <2>2. CASE UNCHANGED vars
    <3>1. UNCHANGED <<index, count, parent, forked, batch, scan, idle, fill, flag,
                      slot, endFlag, child, at, done, rec, unflushed, outcome,
                      errorFile, faults>> /\ UNCHANGED parentVars
      BY <2>2 DEF vars, parentVars, shmVars, childVars, logVars
    <3>2. TypeOK'
      BY <3>1 DEF TypeOK
    <3>3. Forks'
      BY <3>1 DEF Forks
    <3>4. BatchRead'
      BY <3>1, BatchReadStays DEF BatchRead
    <3>5. \A l \in Proc : InStep(l)'
      BY <3>1, InStepStays
    <3>6. Filled'
      <4>1. /\ \A i : Target(i)' = Target(i)
            /\ \A i, l, s : IsTarget(i, l, s)' <=> IsTarget(i, l, s)
        BY <3>1, TargetsStay
      <4>2. Pending' = Pending
        BY <3>1, PendingStays
      <4>3. /\ \A l, s : Held(l, s)' <=> Held(l, s)
            /\ \A l : AllFree(l)' <=> AllFree(l)
        BY <3>1 DEF Held, AllFree
      <4> QED
        BY <3>1, <4>1, <4>2, <4>3 DEF Filled
    <3> QED
      BY <3>2, <3>3, <3>4, <3>5, <3>6
  <2> QED
    BY <2>1, <2>2
<1> QED
  BY <1>1, <1>2, PTL DEF Spec

-----------------------------------------------------------------------------
(* The records.                                                            *)

Kept == Untouched /\ HeldOnce /\ NothingLost

\* A batch holds no record twice.
LEMMA BatchDistinct ==
    ASSUME TypeOK, BatchRead, parent \in {"pay", "search", "fill", "raise"},
           NEW i \in DOMAIN batch, NEW j \in DOMAIN batch, batch[i] = batch[j]
    PROVE  i = j
<1>1. i \in Nat /\ j \in Nat
  BY Typed
<1>2. CASE batch = <<Blank>>
  BY <1>2
<1>3. CASE batch # <<Blank>>
  <2>1. PICK m : m = BatchSize * BatchOf(batch[1])
    OBVIOUS
  <2>3. batch[i] = m + i /\ batch[j] = m + j
    BY <1>3, <2>1 DEF BatchRead
  <2>2. m \in Int
    <3>1. batch[1] \in Nat
      <4>1. 1 \in DOMAIN batch
        BY Typed
      <4> QED
        BY <4>1, Typed
    <3>2. BatchSize \in Nat \ {0}
      BY Sizes
    <3>3. batch[1] - 1 \in Int
      BY <3>1
    <3>4. (batch[1] - 1) \div BatchSize \in Int
      BY <3>2, <3>3
    <3> QED
      BY <2>1, <3>2, <3>4 DEF BatchOf
  <2>4. m + i = m + j
    BY <2>3
  <2>5. ASSUME NEW x \in Nat, NEW y \in Nat, NEW z \in Int, z + x = z + y
        PROVE  x = y
    BY <2>5
  <2> QED
    BY <1>1, <2>2, <2>4, <2>5
<1> QED
  BY <1>2, <1>3

\* To show HeldOnce of the next state, record by record.
LEMMA HeldOnceNext ==
    ASSUME \A k \in Proc : \A s \in Slot : \A r :
               Held(k, s)' /\ slot'[k][s] = r /\ r # Blank =>
                   HeldRecord(k, s, r)'
    PROVE  HeldOnce'
<1> SUFFICES ASSUME NEW k \in Proc, NEW s \in Slot,
                    Held(k, s)', slot'[k][s] # Blank
             PROVE  HeldRecord(k, s, slot[k][s])'
  BY DEF HeldOnce, Blank
<1>1. PICK r : r = slot'[k][s]
  OBVIOUS
<1>2. HeldRecord(k, s, r)'
  BY <1>1
<1> QED
  BY <1>1, <1>2 DEF HeldRecord, IsPending, Finished

\* The records are kept by a step that moves none.
LEMMA KeptStays ==
    ASSUME Kept, UNCHANGED <<index, count, outcome, done>>,
           \A k \in Proc : \A s \in Slot :
               /\ Held(k, s)' <=> Held(k, s)
               /\ Held(k, s) => slot'[k][s] = slot[k][s],
           \A r : IsPending(r)' => IsPending(r),
           parent' # "gone" =>
               parent # "gone" /\ \A r : IsPending(r) => IsPending(r)',
           \A k \in Proc :
               /\ child'[k] \in {"run", "reset"} =>
                      child[k] \in {"run", "reset"} \/ done[k] = 0
               /\ child'[k] = "busy" => child[k] = "busy" /\ at'[k] = at[k]
    PROVE  Kept'
<1> USE DEF Kept
<1>1. Records' = Records /\ \A r : Finished(r)' <=> Finished(r)
  BY DEF Records, Finished
<1>2. Untouched'
  BY <1>1 DEF Untouched
<1>3. ASSUME NEW k \in Proc, NEW s \in Slot, NEW r,
             Held(k, s)', slot'[k][s] = r, r # Blank
      PROVE  HeldRecord(k, s, r)'
  <2>1. Held(k, s) /\ slot[k][s] = r /\ r # Blank
    BY <1>3
  <2>3. /\ r <= count /\ ~IsPending(r)
        /\ s >= done[k] => outcome[r] = "waiting"
        /\ child[k] \in {"run", "reset"} /\ s < done[k] => Finished(r)
        /\ child[k] = "busy" /\ s < at[k] => Finished(r)
        /\ \A l \in Proc : \A p \in Slot :
               Held(l, p) /\ slot[l][p] = r => l = k /\ p = s
    BY <2>1 DEF HeldOnce, HeldRecord
  <2>4. done[k] = 0 => ~(s < done[k])
    BY Sizes
  <2>5. /\ r <= count' /\ ~IsPending(r)'
        /\ s >= done'[k] => outcome'[r] = "waiting"
    BY <2>3
  <2>6. child'[k] \in {"run", "reset"} /\ s < done'[k] => Finished(r)'
    BY <1>1, <2>3, <2>4
  <2>7. child'[k] = "busy" /\ s < at'[k] => Finished(r)'
    BY <1>1, <2>3
  <2>8. \A l \in Proc : \A p \in Slot :
            Held(l, p)' /\ slot'[l][p] = r => l = k /\ p = s
    BY <2>3
  <2> QED
    BY <2>5, <2>6, <2>7, <2>8 DEF HeldRecord
<1>4. HeldOnce'
  BY <1>3, HeldOnceNext
<1>5. NothingLost'
  BY <1>1 DEF NothingLost
<1> QED
  BY <1>2, <1>4, <1>5

\* A record that is raised leaves the batch for a slot of its own.
LEMMA KeptRaised ==
    ASSUME Kept, TypeOK, BatchRead,
           parent \in {"pay", "search", "fill", "raise"}, parent' # "gone",
           UNCHANGED <<index, count, batch, outcome, child, at, done>>,
           NEW k \in Proc, NEW t \in Slot, NEW i \in Pending,
           ~Held(k, t), done[k] = 0, child[k] \notin {"busy", "reset"},
           slot'[k][t] = batch[i], Pending' = Pending \ {i},
           \A l \in Proc : \A s \in Slot :
               /\ Held(l, s)' <=> Held(l, s) \/ (l = k /\ s = t)
               /\ l # k \/ s # t => slot'[l][s] = slot[l][s]
    PROVE  Kept'
<1> USE DEF Kept
<1>1. Records' = Records /\ \A r : Finished(r)' <=> Finished(r)
  BY DEF Records, Finished
<1>2. /\ Pending \subseteq DOMAIN batch
      /\ \A j \in Pending : batch[j] = batch[i] => j = i
  BY BatchDistinct DEF Pending
<1>3. \A r : IsPending(r)' <=> IsPending(r) /\ r # batch[i]
  BY <1>2 DEF IsPending
<1>4. IsPending(batch[i])
  BY DEF IsPending
<1>5. Untouched'
  BY <1>1, <1>3 DEF Untouched
<1>6. batch[i] # Blank => /\ batch[i] \in Records /\ batch[i] <= count
                          /\ outcome[batch[i]] = "waiting"
  <2> SUFFICES ASSUME batch[i] # Blank
               PROVE  /\ batch[i] \in Records /\ batch[i] <= count
                      /\ outcome[batch[i]] = "waiting"
    OBVIOUS
  <2>1. batch[i] \in Records
    BY <1>2, Typed DEF Records, Blank
  <2>2. batch[i] <= count
    <3>1. batch # <<Blank>>
      BY <1>2
    <3> QED
      BY <1>2, <3>1 DEF BatchRead
  <2> QED
    BY <1>4, <2>1, <2>2 DEF Untouched
<1>7. ASSUME NEW l \in Proc, NEW s \in Slot, NEW r,
             Held(l, s)', slot'[l][s] = r, r # Blank
      PROVE  HeldRecord(l, s, r)'
  <2>1. CASE l = k /\ s = t
    <3>1. r = batch[i]
      BY <1>7, <2>1
    <3>2. /\ r <= count' /\ ~IsPending(r)'
          /\ s >= done'[l] => outcome'[r] = "waiting"
      BY <1>3, <1>6, <1>7, <3>1
    <3>3. ~(s < done'[l]) /\ child'[l] # "busy"
      BY <2>1, Sizes
    <3>4. ASSUME NEW m \in Proc, NEW p \in Slot, Held(m, p)', slot'[m][p] = r
          PROVE  m = k /\ p = t
      <4> SUFFICES ASSUME m # k \/ p # t PROVE FALSE
        OBVIOUS
      <4>1. Held(m, p) /\ slot[m][p] = r
        BY <3>4
      <4>2. ~IsPending(r)
        BY <1>7, <4>1 DEF HeldOnce, HeldRecord
      <4> QED
        BY <1>4, <3>1, <4>2
    <3> QED
      BY <2>1, <3>2, <3>3, <3>4 DEF HeldRecord
  <2>2. CASE l # k \/ s # t
    <3>1. Held(l, s) /\ slot[l][s] = r
      BY <1>7, <2>2
    <3>2. /\ r <= count /\ ~IsPending(r)
          /\ s >= done[l] => outcome[r] = "waiting"
          /\ child[l] \in {"run", "reset"} /\ s < done[l] => Finished(r)
          /\ child[l] = "busy" /\ s < at[l] => Finished(r)
          /\ \A m \in Proc : \A p \in Slot :
                 Held(m, p) /\ slot[m][p] = r => m = l /\ p = s
      BY <1>7, <3>1 DEF HeldOnce, HeldRecord
    <3>3. r # batch[i]
      BY <1>4, <3>2
    <3>4. ASSUME NEW m \in Proc, NEW p \in Slot, Held(m, p)', slot'[m][p] = r
          PROVE  m = l /\ p = s
      <4>1. Held(m, p) /\ slot[m][p] = r
        BY <3>3, <3>4
      <4> QED
        BY <3>2, <4>1
    <3>5. /\ r <= count' /\ ~IsPending(r)'
          /\ s >= done'[l] => outcome'[r] = "waiting"
      BY <1>3, <3>2
    <3>6. /\ child'[l] \in {"run", "reset"} /\ s < done'[l] => Finished(r)'
          /\ child'[l] = "busy" /\ s < at'[l] => Finished(r)'
      BY <1>1, <3>2
    <3> QED
      BY <3>4, <3>5, <3>6 DEF HeldRecord
  <2> QED
    BY <2>1, <2>2
<1>8. HeldOnce'
  BY <1>7, HeldOnceNext
<1>9. NothingLost'
  <2> SUFFICES ASSUME NEW r \in Records
               PROVE  \/ Finished(r)' \/ r > count' \/ IsPending(r)'
                      \/ \E l \in Proc : \E s \in Slot :
                             Held(l, s)' /\ slot'[l][s] = r
    BY <1>1 DEF NothingLost
  <2>1. CASE r = batch[i]
    BY <2>1
  <2>2. CASE r # batch[i]
    <3>1. \/ Finished(r) \/ r > count \/ IsPending(r)
          \/ \E l \in Proc : \E s \in Slot : Held(l, s) /\ slot[l][s] = r
      BY DEF NothingLost
    <3> QED
      BY <1>1, <1>3, <2>2, <3>1
  <2> QED
    BY <2>1, <2>2
<1> QED
  BY <1>5, <1>8, <1>9

\* The records read are the batch.
LEMMA KeptRead ==
    ASSUME Kept, TypeOK, BatchRead, BatchRead', ReadBatch
    PROVE  Kept'
<1> USE DEF Kept
<1>1. /\ Records' = Records /\ \A r : Finished(r)' <=> Finished(r)
      /\ \A k, s : Held(k, s)' <=> Held(k, s)
      /\ UNCHANGED <<index, outcome, flag, slot, child, at, done>>
      /\ parent = "read" /\ parent' = "pay"
  BY DEF Records, Finished, Held, ReadBatch, childVars, logVars
<1>2. count \in Nat /\ Len(index) \in Nat
  BY Typed
<1>3. \A r : ~IsPending(r)
  BY <1>1 DEF IsPending, Pending
<1>4. \A r : IsPending(r)' <=> \E i \in DOMAIN batch' : batch'[i] = r
  BY <1>1 DEF IsPending, Pending
<1>5. /\ count' \in Nat /\ count <= count'
      /\ \A r \in Records : IsPending(r)' <=> r > count /\ r <= count'
  <2>1. CASE count >= Len(index)
    <3>1. batch' = <<Blank>> /\ count' = count + 1
      BY <2>1 DEF ReadBatch
    <3>2. \A r : IsPending(r)' <=> r = Blank
      BY <1>4, <3>1
    <3> QED
      BY <1>2, <2>1, <3>1, <3>2 DEF Records, Blank
  <2>2. CASE count < Len(index)
    <3> DEFINE last == IF Len(index) - count < BatchSize
                       THEN Len(index) ELSE count + BatchSize
    <3>1. /\ batch' = [n \in 1 .. last - count |-> count + n]
          /\ count' = last
      BY <1>2, <2>2 DEF ReadBatch
    <3>2. last \in Nat /\ last >= count
      BY <1>2, <2>2, Sizes
    <3> HIDE DEF last
    <3>3. ASSUME NEW r \in Records PROVE IsPending(r)' <=> r > count /\ r <= last
      <4>1. r \in Nat
        BY DEF Records
      <4>2. IsPending(r)' <=> \E n \in 1 .. last - count : count + n = r
        BY <1>4, <3>1
      <4>3. ASSUME r > count, r <= last
            PROVE  r - count \in 1 .. last - count /\ count + (r - count) = r
        BY <1>2, <3>2, <4>1, <4>3
      <4>4. ASSUME NEW n \in 1 .. last - count, count + n = r
            PROVE  r > count /\ r <= last
        BY <1>2, <3>2, <4>1, <4>4
      <4> QED
        BY <4>2, <4>3, <4>4
    <3> QED
      BY <3>1, <3>2, <3>3
  <2> QED
    BY <1>2, <2>1, <2>2
<1>6. \A r \in Records : r \in Nat
  BY DEF Records
<1>7. Untouched'
  <2>1. \A r \in Records : r > count' \/ IsPending(r)' => r > count
    BY <1>2, <1>5, <1>6
  <2> QED
    BY <1>1, <2>1 DEF Untouched
<1>8. ASSUME NEW k \in Proc, NEW s \in Slot, NEW r,
             Held(k, s)', slot'[k][s] = r, r # Blank
      PROVE  HeldRecord(k, s, r)'
  <2>1. Held(k, s) /\ slot[k][s] = r
    BY <1>1, <1>8
  <2>2. HeldRecord(k, s, r) /\ r <= count
    BY <1>8, <2>1 DEF HeldOnce, HeldRecord
  <2>3. r \in Records
    BY <1>8, <2>1, Typed DEF Records, Blank
  <2>4. r <= count' /\ ~IsPending(r)'
    BY <1>2, <1>5, <1>6, <2>2, <2>3
  <2> QED
    BY <1>1, <2>2, <2>4 DEF HeldRecord
<1>10. HeldOnce'
  BY <1>8, HeldOnceNext
<1>9. NothingLost'
  <2>1. \A r \in Records : r > count => r > count' \/ IsPending(r)'
    BY <1>2, <1>5, <1>6
  <2> QED
    BY <1>1, <1>3, <2>1 DEF NothingLost
<1> QED
  BY <1>7, <1>9, <1>10

\* The parent keeps the records.
LEMMA KeptParent ==
    ASSUME TypeOK, Orderly, Orderly', Kept, ParentStep PROVE Kept'
<1> USE DEF Orderly
<1>1. ASSUME UNCHANGED <<index, count, batch, flag, slot, outcome, done, at>>,
             \A r : IsPending(r)' <=> IsPending(r),
             parent # "gone", parent' # "gone",
             \A k \in Proc : child'[k] = child[k] \/ child'[k] = "attach"
      PROVE  Kept'
  <2>1. \A k, s : Held(k, s)' <=> Held(k, s)
    BY <1>1 DEF Held
  <2>2. \A k \in Proc :
            /\ child'[k] \in {"run", "reset"} =>
                   child[k] \in {"run", "reset"} \/ done[k] = 0
            /\ child'[k] = "busy" => child[k] = "busy" /\ at'[k] = at[k]
    BY <1>1
  <2> QED
    BY <1>1, <2>1, <2>2, KeptStays
<1>2. CASE Fork \/ SetEnd \/ Finish
  <2>1. /\ UNCHANGED <<index, count, batch, flag, slot, outcome, done, at>>
        /\ parent \in {"fork", "end", "drain"}
        /\ parent' \in {"fork", "read", "drain", "finished"}
        /\ \A k \in Proc : child'[k] = child[k] \/ child'[k] = "attach"
    BY <1>2 DEF Fork, SetEnd, Finish, shmVars, childVars, logVars, TypeOK
  <2>2. Pending = {} /\ Pending' = {}
    BY <2>1 DEF Pending
  <2> QED
    BY <1>1, <2>1, <2>2 DEF IsPending
<1>3. CASE ReadBatch
  BY <1>3, KeptRead
<1>4. CASE WaitForPayments \/ SearchIdle
  <2>1. /\ UNCHANGED <<index, count, batch, flag, slot, outcome, done, at, child>>
        /\ parent \in {"pay", "search"}
        /\ parent' = "search" \/ (parent' = "fill" /\ fill' = 1)
    BY <1>4 DEF WaitForPayments, SearchIdle, shmVars, childVars, logVars
  <2>2. Pending = DOMAIN batch
    BY <2>1 DEF Pending
  <2>3. Pending' = DOMAIN batch
    <3>1. \A i \in DOMAIN batch : i >= 1
      BY Typed
    <3> QED
      BY <2>1, <3>1 DEF Pending
  <2>4. \A r : IsPending(r)' <=> IsPending(r)
    BY <2>1, <2>2, <2>3 DEF IsPending
  <2>5. parent # "gone" /\ parent' # "gone"
    BY <2>1
  <2> QED
    BY <1>1, <2>1, <2>4, <2>5
<1>5. CASE FillSlot
  <2>1. PICK k, t : k = Target(fill).proc /\ t = Target(fill).slot
    OBVIOUS
  <2>2. /\ k \in Proc /\ k \in idle /\ t \in Slot /\ ~Held(k, t)
        /\ child[k] \notin {"busy", "reset"} /\ done[k] = 0
        /\ slot'[k][t] = batch[fill]
        /\ \A l \in Proc : \A s \in Slot :
               /\ Held(l, s)' <=> Held(l, s) \/ (l = k /\ s = t /\ t # 0)
               /\ l # k \/ s # t => slot'[l][s] = slot[l][s]
    BY <1>5, <2>1, SlotFilled
  <2>3. /\ UNCHANGED <<index, count, batch, idle, outcome, child, at, done>>
        /\ parent = "fill"
        /\ \/ fill = Len(batch) /\ parent' = "raise" /\ fill' = 1
           \/ fill # Len(batch) /\ parent' = "fill" /\ fill' = fill + 1
    BY <1>5 DEF FillSlot, childVars, logVars
  <2>4. /\ fill \in DOMAIN batch /\ DOMAIN batch = 1 .. Len(batch)
        /\ Len(batch) \in Nat /\ fill \in Nat
    BY <2>3, TargetsNow
  <2>5. \A i : Target(i)' = Target(i)
    BY <2>3, TargetsStay
  <2>6. Pending' = IF t # 0 THEN Pending \ {fill} ELSE Pending
    <3>1. \A i \in DOMAIN batch : i >= 1 /\ i <= Len(batch) /\ i \in Nat
      BY <2>4
    <3>2. Pending = {i \in DOMAIN batch : i >= fill \/ Target(i).slot = 0}
      BY <2>3 DEF Pending
    <3>3. CASE fill = Len(batch)
      <4>1. Pending' = {i \in DOMAIN batch : Target(i).slot = 0}
        BY <2>3, <2>5, <3>1, <3>3 DEF Pending
      <4>2. \A i \in DOMAIN batch : i >= fill <=> i = fill
        BY <2>4, <3>1, <3>3
      <4> QED
        BY <2>1, <2>4, <3>2, <4>1, <4>2
    <3>4. CASE fill # Len(batch)
      <4>1. Pending' = {i \in DOMAIN batch : i >= fill + 1 \/ Target(i).slot = 0}
        BY <2>3, <2>5, <3>4 DEF Pending
      <4>2. \A i \in DOMAIN batch : i >= fill + 1 <=> i >= fill /\ i # fill
        BY <2>4, <3>1
      <4> QED
        BY <2>1, <2>4, <3>2, <4>1, <4>2
    <3> QED
      BY <3>3, <3>4
  <2>7. fill \in Pending /\ parent' # "gone"
    BY <2>3, <2>4 DEF Pending
  <2>8. CASE t # 0
    BY <2>2, <2>3, <2>6, <2>7, <2>8, KeptRaised
  <2>9. CASE t = 0
    <3>1. \A l \in Proc : \A s \in Slot :
              /\ Held(l, s)' <=> Held(l, s)
              /\ Held(l, s) => slot'[l][s] = slot[l][s]
      BY <2>2, <2>9
    <3>2. \A r : IsPending(r)' <=> IsPending(r)
      BY <2>3, <2>6, <2>9 DEF IsPending
    <3> QED
      BY <2>3, <2>7, <3>1, <3>2, KeptStays
  <2> QED
    BY <2>8, <2>9
<1>6. CASE RaiseFirst
  <2>1. PICK k : k = Target(fill).proc
    OBVIOUS
  <2>2. /\ UNCHANGED <<index, count, batch, idle, slot, outcome, child, at, done>>
        /\ parent = "raise"
        /\ \/ fill = Len(batch) /\ parent' \in {"end", "read"}
           \/ fill # Len(batch) /\ parent' = "raise" /\ fill' = fill + 1
    BY <1>6 DEF RaiseFirst, childVars, logVars
  <2>3. /\ fill \in DOMAIN batch /\ DOMAIN batch = 1 .. Len(batch)
        /\ Len(batch) \in Nat /\ fill \in Nat /\ k \in Proc
    BY <2>1, <2>2, TargetsNow
  <2>4. \A i : Target(i)' = Target(i)
    BY <2>2, TargetsStay
  <2>5. Pending' = Pending \ {fill}
    <3>1. \A i \in DOMAIN batch : i >= 1 /\ i <= Len(batch) /\ i \in Nat
      BY <2>3
    <3>2. Pending = {i \in DOMAIN batch : i >= fill /\ Target(i).slot = 0}
      BY <2>2 DEF Pending
    <3>3. CASE fill = Len(batch)
      <4>1. Pending' = {}
        BY <2>2, <3>3 DEF Pending
      <4>2. \A i \in DOMAIN batch : i >= fill => i = fill
        BY <2>3, <3>1, <3>3
      <4> QED
        BY <3>2, <4>1, <4>2
    <3>4. CASE fill # Len(batch)
      <4>1. Pending' = {i \in DOMAIN batch : i >= fill + 1 /\ Target(i).slot = 0}
        BY <2>2, <2>4, <3>4 DEF Pending
      <4>2. \A i \in DOMAIN batch : i >= fill + 1 <=> i >= fill /\ i # fill
        BY <2>3, <3>1
      <4> QED
        BY <3>2, <4>1, <4>2
    <3> QED
      BY <3>3, <3>4
  <2>6. parent' # "gone"
    BY <2>2
  <2>7. CASE Target(fill).slot = 0
    <3>1. /\ fill \in Pending /\ flag[k][0] /\ child[k] \notin {"busy", "reset"}
          /\ done[k] = 0
      BY <1>6, <2>1, <2>7, FirstRaised
    <3>2. slot'[k][0] = batch[fill]
      BY <2>1, <2>2, <2>3, <2>7 DEF Filled
    <3>3. \A l \in Proc : \A s \in Slot :
              Held(l, s)' <=> Held(l, s) \/ (l = k /\ s = 0)
      <4>1. flag' = [flag EXCEPT ![k][0] = FALSE]
        BY <1>6, <2>1, <2>7 DEF RaiseFirst
      <4>2. flag \in [Proc -> [Slot -> BOOLEAN]]
        BY DEF TypeOK
      <4> QED
        BY <2>3, <4>1, <4>2 DEF Held
    <3>4. ~Held(k, 0) /\ 0 \in Slot
      BY <3>1, Sizes DEF Held
    <3> QED
      BY <2>2, <2>3, <2>5, <2>6, <3>1, <3>2, <3>3, <3>4, KeptRaised
  <2>8. CASE Target(fill).slot # 0
    <3>1. flag' = flag
      BY <1>6, <2>8 DEF RaiseFirst
    <3>2. fill \notin Pending
      BY <2>2, <2>8 DEF Pending
    <3>3. \A r : IsPending(r)' <=> IsPending(r)
      BY <2>2, <2>5, <3>2 DEF IsPending
    <3> QED
      BY <1>1, <2>2, <2>6, <3>1, <3>3
  <2> QED
    BY <2>7, <2>8
<1> QED
  BY <1>2, <1>3, <1>4, <1>5, <1>6 DEF ParentStep

\* Faults keep the records where they are.
LEMMA KeptFault ==
    ASSUME TypeOK, Kept, Fault PROVE Kept'
<1>1. /\ UNCHANGED <<index, count, batch, idle, fill, flag, slot, outcome, done,
                     at>>
      /\ \A k \in Proc : child'[k] = child[k] \/ child'[k] = "dead"
  <2>1. child = [p \in Proc |-> child[p]]
    BY DEF TypeOK
  <2>2. CASE ForkFails \/ ParentQuits \/ IndexUnreadable
    BY <2>2 DEF ForkFails, ParentQuits, IndexUnreadable, shmVars, childVars,
                logVars
  <2>3. ASSUME NEW k \in Proc, AttachFails(k) \/ ChildQuits(k)
        PROVE  /\ UNCHANGED <<index, count, batch, idle, fill, flag, slot,
                               outcome, done, at>>
               /\ \A l \in Proc : child'[l] = child[l] \/ child'[l] = "dead"
    BY <2>1, <2>3 DEF AttachFails, ChildQuits, Leave, parentVars, shmVars
  <2> QED
    BY <2>2, <2>3 DEF Fault
<1>2. \A k, s : Held(k, s)' <=> Held(k, s)
  BY <1>1 DEF Held
<1>3. CASE parent' = "gone"
  <2>1. \A r : ~IsPending(r)'
    BY <1>3 DEF IsPending, Pending
  <2> QED
    BY <1>1, <1>2, <1>3, <2>1, KeptStays
<1>4. CASE parent' # "gone"
  <2>1. UNCHANGED parentVars
    BY <1>4 DEF Fault, ForkFails, ParentQuits, IndexUnreadable, AttachFails,
           ChildQuits
  <2>2. \A r : IsPending(r)' <=> IsPending(r)
    BY <2>1, PendingStays
  <2>3. parent # "gone"
    BY <1>4, <2>1 DEF parentVars
  <2> QED
    BY <1>1, <1>2, <2>2, <2>3, KeptStays
<1> QED
  BY <1>3, <1>4

\* A child that begins, or ends, the record of its slot.
LEMMA KeptReplay ==
    ASSUME TypeOK, Kept, NEW k \in Proc, NEW x, NEW o,
           UNCHANGED <<parentVars, flag, slot>>,
           x = slot[k][at[k]], Held(k, at[k]),
           outcome' = [outcome EXCEPT ![x] = o],
           \A l \in Proc : l # k =>
               child'[l] = child[l] /\ at'[l] = at[l] /\ done'[l] = done[l],
           \/ /\ child[k] = "run" /\ done[k] = at[k] /\ o = "running"
              /\ child'[k] = "busy" /\ at'[k] = at[k] /\ done'[k] = done[k] + 1
           \/ /\ child[k] = "busy" /\ done[k] = at[k] + 1 /\ o \in Ends
              /\ child'[k] \in {"run", "reset"} /\ done'[k] = done[k]
    PROVE  Kept'
<1>1. /\ UNCHANGED <<index, count, batch, parent>>
      /\ Records' = Records /\ \A r : IsPending(r)' <=> IsPending(r)
      /\ \A l, s : Held(l, s)' <=> Held(l, s)
  BY PendingStays DEF parentVars, Records, Held
<1>2. /\ at[k] \in Slot /\ at[k] \in Nat /\ done[k] \in Nat
      /\ x \in 0 .. Len(index) /\ count \in Nat
  <2>1. at[k] \in Slot /\ at[k] \in Nat /\ done[k] \in Nat /\ count \in Nat
    BY Typed
  <2>2. slot[k][at[k]] \in 0 .. Len(index)
    BY <2>1 DEF TypeOK
  <2> QED
    BY <2>1, <2>2
<1> USE DEF Kept
<1>3. \A r \in Records : r # x => outcome'[r] = outcome[r]
  BY DEF TypeOK, Records
<1>4. x # Blank => HeldRecord(k, at[k], x) /\ x \in Records /\ outcome'[x] = o
  BY <1>2 DEF HeldOnce, TypeOK, Records, Blank
<1>5. x # Blank => x <= count /\ ~IsPending(x) /\ (Finished(x) => o \in Ends)
  <2> SUFFICES ASSUME x # Blank
               PROVE  x <= count /\ ~IsPending(x) /\ (Finished(x) => o \in Ends)
    OBVIOUS
  <2>1. x <= count /\ ~IsPending(x)
    BY <1>4 DEF HeldRecord
  <2>2. child[k] = "run" => o \in Ends \/ ~Finished(x)
    <3> SUFFICES ASSUME child[k] = "run" PROVE ~Finished(x)
      OBVIOUS
    <3>1. outcome[x] = "waiting"
      BY <1>2, <1>4 DEF HeldRecord
    <3> QED
      BY <3>1, DispatchAssumption DEF Finished
  <2> QED
    BY <2>1, <2>2
<1>6. ASSUME NEW r \in Records, Finished(r) PROVE Finished(r)'
  <2>1. r # Blank
    BY DEF Records, Blank
  <2> QED
    BY <1>3, <1>4, <1>5, <1>6, <2>1 DEF Finished
<1>7. Untouched'
  <2> SUFFICES ASSUME NEW r \in Records, r > count \/ IsPending(r)
               PROVE  outcome'[r] = "waiting"
    BY <1>1 DEF Untouched
  <2>1. r # x
    <3>1. r # Blank /\ r \in Nat
      BY DEF Records, Blank
    <3> QED
      BY <1>2, <1>5, <3>1
  <2> QED
    BY <1>3, <2>1 DEF Untouched
<1>8. ASSUME NEW l \in Proc, NEW s \in Slot, NEW r,
             Held(l, s)', slot'[l][s] = r, r # Blank
      PROVE  HeldRecord(l, s, r)'
  <2>1. Held(l, s) /\ slot[l][s] = r /\ r \in Records
    <3>1. Held(l, s) /\ slot[l][s] = r
      BY <1>1, <1>8
    <3> QED
      BY <1>8, <3>1, Typed DEF Records, Blank
  <2>2. HeldRecord(l, s, r)
    BY <1>8, <2>1 DEF HeldOnce
  <2>3. /\ r <= count' /\ ~IsPending(r)'
        /\ \A m \in Proc : \A p \in Slot :
               Held(m, p)' /\ slot'[m][p] = r => m = l /\ p = s
    BY <1>1, <2>2 DEF HeldRecord
  <2>4. s \in Nat
    BY Sizes
  <2>5. CASE l = k /\ s = at[k]
    <3>1. r = x /\ outcome'[r] = o
      BY <1>4, <1>8, <2>1, <2>5
    <3>2. child[k] = "run" => ~(s >= done'[k]) /\ child'[k] = "busy" /\ ~(s < at'[k])
      BY <1>2, <2>5
    <3>3. child[k] # "run" => /\ ~(s >= done'[k]) /\ child'[k] # "busy"
                              /\ o \in Ends
      BY <1>2, <2>5
    <3>4. o \in Ends => Finished(r)'
      BY <3>1 DEF Finished
    <3> QED
      BY <2>3, <2>5, <3>2, <3>3, <3>4 DEF HeldRecord
  <2>6. CASE ~(l = k /\ s = at[k])
    <3>1. r # x
      BY <1>2, <2>1, <2>2, <2>6 DEF HeldRecord
    <3>2. outcome'[r] = outcome[r] /\ (Finished(r)' <=> Finished(r))
      BY <1>3, <2>1, <3>1 DEF Finished
    <3>3. CASE l # k
      BY <2>2, <2>3, <3>2, <3>3 DEF HeldRecord
    <3>4. CASE l = k
      <4>1. s # at[k]
        BY <2>6, <3>4
      <4>2. CASE child[k] = "run"
        <5>1. /\ s >= done'[k] => s >= done[k]
              /\ child'[k] = "busy" /\ (s < at'[k] => s < done[k])
          BY <1>2, <2>4, <4>1, <4>2
        <5> QED
          BY <2>2, <2>3, <3>2, <3>4, <4>2, <5>1 DEF HeldRecord
      <4>3. CASE child[k] # "run"
        <5>1. /\ s >= done'[k] => s >= done[k]
              /\ child[k] = "busy" /\ child'[k] # "busy"
              /\ s < done'[k] => s < at[k]
          BY <1>2, <2>4, <4>1, <4>3
        <5> QED
          BY <2>2, <2>3, <3>2, <3>4, <5>1 DEF HeldRecord
      <4> QED
        BY <4>2, <4>3
    <3> QED
      BY <3>3, <3>4
  <2> QED
    BY <2>5, <2>6
<1>9. HeldOnce'
  BY <1>8, HeldOnceNext
<1>10. NothingLost'
  BY <1>1, <1>6 DEF NothingLost
<1> QED
  BY <1>7, <1>9, <1>10

\* A child gives back a slot whose record has ended.
LEMMA KeptReset ==
    ASSUME TypeOK, Kept, NEW k \in Proc, InStep(k), ResetSlot(k)
    PROVE  Kept'
<1> USE DEF Kept
<1>1. /\ UNCHANGED parentVars /\ UNCHANGED <<index, count, batch, parent>>
      /\ UNCHANGED <<slot, outcome>>
      /\ Records' = Records /\ \A r : IsPending(r)' <=> IsPending(r)
      /\ \A r : Finished(r)' <=> Finished(r)
  BY PendingStays DEF ResetSlot, parentVars, Records, Finished, logVars
<1>2. /\ at[k] \in Slot /\ at[k] \in Nat /\ done[k] \in Nat
  BY Typed
<1>3. /\ child[k] = "reset" /\ at[k] < done[k]
      /\ \A s \in Slot : Held(k, s) <=> s <= at[k]
  BY DEF ResetSlot, InStep
<1>4. \A l \in Proc : \A s \in Slot :
          Held(l, s)' <=> Held(l, s) /\ ~(l = k /\ s = at[k])
  <2>1. flag' = [flag EXCEPT ![k][at[k]] = TRUE]
    BY DEF ResetSlot, NextToReset
  <2>2. flag \in [Proc -> [Slot -> BOOLEAN]]
    BY DEF TypeOK
  <2> QED
    BY <1>2, <2>1, <2>2 DEF Held
<1>5. /\ \A l \in Proc : l # k =>
             child'[l] = child[l] /\ at'[l] = at[l] /\ done'[l] = done[l]
      /\ at[k] # 0 => done'[k] = done[k] /\ child'[k] = "reset"
  BY DEF ResetSlot, TypeOK
<1>6. Untouched'
  BY <1>1 DEF Untouched
<1>7. ASSUME NEW l \in Proc, NEW s \in Slot, NEW r,
             Held(l, s)', slot'[l][s] = r, r # Blank
      PROVE  HeldRecord(l, s, r)'
  <2>1. Held(l, s) /\ slot[l][s] = r /\ ~(l = k /\ s = at[k])
    BY <1>1, <1>4, <1>7
  <2>2. HeldRecord(l, s, r)
    BY <1>7, <2>1 DEF HeldOnce
  <2>3. /\ r <= count' /\ ~IsPending(r)'
        /\ \A m \in Proc : \A p \in Slot :
               Held(m, p)' /\ slot'[m][p] = r => m = l /\ p = s
    BY <1>1, <1>4, <2>2 DEF HeldRecord
  <2>4. CASE l # k
    BY <1>1, <1>5, <2>2, <2>3, <2>4 DEF HeldRecord
  <2>5. CASE l = k
    <3>1. at[k] # 0
      <4>1. s <= at[k] /\ s # at[k] /\ s \in Nat
        BY <1>3, <2>1, <2>5, Sizes
      <4> QED
        BY <1>2, <4>1
    <3> QED
      BY <1>1, <1>3, <1>5, <2>2, <2>3, <2>5, <3>1 DEF HeldRecord
  <2> QED
    BY <2>4, <2>5
<1>8. HeldOnce'
  BY <1>7, HeldOnceNext
<1>9. NothingLost'
  <2> SUFFICES ASSUME parent # "gone", NEW r \in Records
               PROVE  \/ Finished(r) \/ r > count \/ IsPending(r)
                      \/ \E l \in Proc : \E s \in Slot :
                             Held(l, s)' /\ slot[l][s] = r
    BY <1>1 DEF NothingLost
  <2>1. CASE slot[k][at[k]] = r
    <3>1. r # Blank /\ Held(k, at[k])
      BY <1>2, <1>3 DEF Records, Blank
    <3>2. HeldRecord(k, at[k], r)
      BY <1>2, <2>1, <3>1 DEF HeldOnce
    <3> QED
      BY <1>3, <3>2 DEF HeldRecord
  <2>2. CASE slot[k][at[k]] # r
    BY <1>4, <2>2 DEF NothingLost
  <2> QED
    BY <2>1, <2>2
<1> QED
  BY <1>6, <1>8, <1>9

\* A child begins with the first record it has not counted.
LEMMA BeginsNext ==
    ASSUME TypeOK, NEW k \in Proc, InStep(k), BeginRecord(k)
    PROVE  /\ child[k] = "run" /\ Held(k, 0) /\ Held(k, at[k])
           /\ at[k] \in Slot /\ at[k] \in Nat /\ done[k] = at[k]
<1>1. child[k] = "run" /\ Held(k, 0) /\ Held(k, at[k])
  BY DEF BeginRecord, MayLook, Held
<1>2. at[k] \in Slot /\ at[k] \in Nat /\ done[k] \in Nat
  BY Typed
<1>3. /\ done[k] <= at[k]
      /\ \A s \in 0 .. at[k] - 1 : Held(k, s) <=> s < done[k]
      /\ \A p \in 0 .. at[k] : Held(k, p)
  BY <1>1, <1>2 DEF InStep
<1>4. ASSUME done[k] < at[k] PROVE FALSE
  BY <1>2, <1>3, <1>4
<1> QED
  BY <1>1, <1>2, <1>3, <1>4

\* The children keep the records.
LEMMA KeptChild ==
    ASSUME TypeOK, Kept, NEW k \in Proc, InStep(k), ChildStep(k)
    PROVE  Kept'
<1>1. UNCHANGED parentVars /\ \A l \in Proc : l # k =>
          child'[l] = child[l] /\ at'[l] = at[l] /\ done'[l] = done[l]
  BY ChildLocal
<1>2. CASE Attach(k) \/ SkipSlot(k) \/ ChildExits(k)
  <2>1. /\ UNCHANGED <<flag, slot, outcome, done>>
        /\ child'[k] \in {"run", "reset"} => child[k] \in {"attach", "run"}
        /\ child'[k] # "busy"
    BY <1>2 DEF Attach, SkipSlot, NextSlot, ChildExits, Leave, shmVars, logVars,
                TypeOK
  <2>2. child[k] = "attach" => done[k] = 0
    BY DEF InStep
  <2>3. \A r : IsPending(r)' <=> IsPending(r)
    BY <1>1, PendingStays
  <2>4. UNCHANGED <<index, count, parent>>
    BY <1>1 DEF parentVars
  <2>5. \A l, s : Held(l, s)' <=> Held(l, s)
    BY <2>1 DEF Held
  <2>6. \A l \in Proc :
            /\ child'[l] \in {"run", "reset"} =>
                   child[l] \in {"run", "reset"} \/ done[l] = 0
            /\ child'[l] = "busy" => child[l] = "busy" /\ at'[l] = at[l]
    BY <1>1, <2>1, <2>2
  <2> QED
    BY <2>1, <2>3, <2>4, <2>5, <2>6, KeptStays
<1>3. CASE BeginRecord(k)
  <2>1. PICK x : x = slot[k][at[k]]
    OBVIOUS
  <2>2. /\ UNCHANGED <<flag, slot>>
        /\ outcome' = [outcome EXCEPT ![x] = "running"]
        /\ child'[k] = "busy" /\ at'[k] = at[k] /\ done'[k] = done[k] + 1
    BY <1>3, <2>1 DEF BeginRecord, shmVars, TypeOK
  <2> QED
    BY <1>1, <1>3, <2>1, <2>2, BeginsNext, KeptReplay
<1>4. ASSUME NEW o \in Ends, EndRecord(k, o) PROVE Kept'
  <2>1. PICK x : x = slot[k][at[k]]
    OBVIOUS
  <2>2. child[k] = "busy" /\ done[k] = at[k] + 1 /\ Held(k, at[k]) /\ rec[k] = x
    BY <1>4, <2>1 DEF EndRecord, InStep
  <2>3. /\ UNCHANGED <<flag, slot>>
        /\ outcome' = [outcome EXCEPT ![x] = o]
        /\ child'[k] \in {"run", "reset"} /\ done'[k] = done[k]
    BY <1>4, <2>2 DEF EndRecord, NextSlot, shmVars, TypeOK
  <2> QED
    BY <1>1, <2>1, <2>2, <2>3, KeptReplay
<1>5. CASE ResetSlot(k)
  BY <1>5, KeptReset
<1> QED
  BY <1>2, <1>3, <1>4, <1>5 DEF ChildStep

\* The errors are kept by a step that forgets none.
LEMMA ErrorsStay ==
    ASSUME ErrorsKept, UNCHANGED index, errorFile \subseteq errorFile',
           \A r \in Records : outcome'[r] = "logged" =>
               outcome[r] = "logged" \/ \E k \in Proc : r \in unflushed'[k],
           \A k \in Proc : unflushed[k] \subseteq unflushed'[k] \cup errorFile',
           \A k \in Proc :
               child'[k] \in {"none", "attach", "exited", "dead"} =>
                   unflushed'[k] = {}
    PROVE  ErrorsKept'
<1>1. ASSUME NEW r \in Records, outcome'[r] = "logged"
      PROVE  r \in errorFile' \/ \E k \in Proc : r \in unflushed'[k]
  <2>1. CASE outcome[r] = "logged"
    BY <2>1 DEF ErrorsKept
  <2> QED
    BY <1>1, <2>1
<1> QED
  BY <1>1 DEF ErrorsKept, Records

\* No step loses an error: exit flushes what the child has not written.
LEMMA ErrorsStep ==
    ASSUME TypeOK, ErrorsKept, Orderly,
           ParentStep \/ Fault \/ \E k \in Proc : ChildStep(k)
    PROVE  ErrorsKept'
<1> DEFINE Out == {"none", "attach", "exited", "dead"}
<1>1. \A k \in Proc : child[k] \in Out => unflushed[k] = {}
  BY DEF ErrorsKept
<1>2. ASSUME UNCHANGED <<index, errorFile, outcome, unflushed>>,
             \A k \in Proc : child'[k] \in Out => child[k] \in Out
      PROVE  ErrorsKept'
  BY <1>1, <1>2, ErrorsStay
<1>3. ASSUME NEW k \in Proc, UNCHANGED <<index, outcome>>,
             \E how \in Out : Leave(k, how)
      PROVE  ErrorsKept'
  <2>1. /\ errorFile' = errorFile \cup unflushed[k] /\ unflushed'[k] = {}
        /\ \A l \in Proc : l # k =>
               child'[l] = child[l] /\ unflushed'[l] = unflushed[l]
    BY <1>3 DEF Leave, TypeOK
  <2> QED
    BY <1>1, <1>3, <2>1, ErrorsStay
<1>4. child = [p \in Proc |-> child[p]]
  BY DEF TypeOK
<1>5. CASE ParentStep
  <2>1. CASE Fork
    <3>1. forked \in Proc => child[forked] = "none"
      BY Sizes DEF Orderly, Forks, Proc
    <3>2. \A k \in Proc : k # forked => child'[k] = child[k]
      BY <1>4, <2>1 DEF Fork
    <3>3. UNCHANGED <<index, errorFile, outcome, unflushed>>
      BY <2>1 DEF Fork, logVars
    <3> QED
      BY <1>2, <3>1, <3>2, <3>3
  <2>2. CASE ~Fork
    <3>1. UNCHANGED <<index, errorFile, outcome, unflushed, child>>
      BY <1>5, <2>2 DEF ParentStep, ReadBatch, WaitForPayments, SearchIdle,
         FillSlot, RaiseFirst, SetEnd, Finish, childVars, logVars
    <3> QED
      BY <1>2, <3>1
  <2> QED
    BY <2>1, <2>2
<1>6. CASE ForkFails \/ ParentQuits \/ IndexUnreadable
  BY <1>2, <1>6 DEF ForkFails, ParentQuits, IndexUnreadable, childVars, logVars
<1>7. ASSUME NEW k \in Proc, AttachFails(k) PROVE ErrorsKept'
  <2>1. /\ UNCHANGED <<index, outcome, unflushed>>
        /\ errorFile' = errorFile \cup {Blank} /\ child[k] \in Out
        /\ \A l \in Proc : l # k => child'[l] = child[l]
    BY <1>4, <1>7 DEF AttachFails, parentVars
  <2> QED
    BY <1>1, <2>1, ErrorsStay
<1>8. ASSUME NEW k \in Proc, ChildQuits(k) PROVE ErrorsKept'
  <2>1. UNCHANGED <<index, outcome>> /\ Leave(k, "dead")
    BY <1>8 DEF ChildQuits, parentVars
  <2> QED
    BY <1>3, <2>1
<1>9. ASSUME NEW k \in Proc, ChildStep(k) PROVE ErrorsKept'
  <2>1. /\ UNCHANGED index /\ child[k] \notin {"none", "exited", "dead"}
        /\ \A l \in Proc : l # k =>
               child'[l] = child[l] /\ unflushed'[l] = unflushed[l]
    BY <1>9, ChildLocal DEF parentVars
  <2>2. CASE Attach(k) \/ SkipSlot(k) \/ ResetSlot(k)
    <3>1. /\ UNCHANGED <<errorFile, outcome, unflushed>>
          /\ child'[k] \notin Out
      BY <1>4, <2>2 DEF Attach, SkipSlot, NextSlot, ResetSlot, logVars
    <3> QED
      BY <1>2, <2>1, <3>1
  <2>3. CASE BeginRecord(k)
    <3>1. PICK x : x = slot[k][at[k]]
      OBVIOUS
    <3>2. /\ UNCHANGED <<errorFile, unflushed>> /\ child'[k] = "busy"
          /\ outcome' = [outcome EXCEPT ![x] = "running"]
      BY <1>4, <2>3, <3>1 DEF BeginRecord
    <3>3. \A r \in Records : outcome'[r] = "logged" => outcome[r] = "logged"
      BY <3>2 DEF Records, TypeOK
    <3> QED
      BY <1>1, <2>1, <3>2, <3>3, ErrorsStay
  <2>4. ASSUME NEW o \in Ends, EndRecord(k, o) PROVE ErrorsKept'
    <3>1. PICK x : x = rec[k]
      OBVIOUS
    <3>2. /\ UNCHANGED errorFile /\ child'[k] \in {"run", "reset"}
          /\ outcome' = [outcome EXCEPT ![x] = o]
      BY <1>4, <2>4, <3>1 DEF EndRecord, NextSlot
    <3>3. /\ o = "logged" => unflushed'[k] = unflushed[k] \cup {x}
          /\ o # "logged" => unflushed'[k] = unflushed[k]
      BY <2>4, <3>1 DEF EndRecord, TypeOK
    <3>4. \A r \in Records : outcome'[r] = "logged" =>
              outcome[r] = "logged" \/ r \in unflushed'[k]
      <4>1. \A r \in Records : r # x => outcome'[r] = outcome[r]
        BY <3>2 DEF Records, TypeOK
      <4>2. x \in Records => outcome'[x] = o
        BY <3>2 DEF Records, TypeOK
      <4> QED
        BY <3>3, <4>1, <4>2
    <3> QED
      BY <1>1, <2>1, <3>2, <3>3, <3>4, ErrorsStay
  <2>5. CASE ChildExits(k)
    <3>1. UNCHANGED <<index, outcome>> /\ Leave(k, "exited")
      BY <2>5 DEF ChildExits, parentVars
    <3> QED
      BY <1>3, <3>1
  <2> QED
    BY <1>9, <2>2, <2>3, <2>4, <2>5 DEF ChildStep
<1> QED
  BY <1>5, <1>6, <1>7, <1>8, <1>9 DEF Fault

\* Every record of the index is replayed, still to be read, still to be
\* raised, or in exactly one slot; its replay state is the one its child's
\* count says, and no error line is lost.
THEOREM RecordsKept == Spec => []Replays
<1>1. Init => Replays
  <2> SUFFICES ASSUME Init PROVE Replays
    OBVIOUS
  <2>1. /\ \A k, s : k \in Proc /\ s \in Slot => ~Held(k, s)
        /\ \A r \in Records : r > count
    BY DEF Init, Held, Records
  <2>2. \A r \in Records : outcome[r] = "waiting" /\ outcome[r] # "logged"
    BY DEF Init, Records
  <2>3. \A k \in Proc : unflushed[k] = {}
    BY DEF Init
  <2> QED
    BY <2>1, <2>2, <2>3
    DEF Replays, Untouched, HeldOnce, NothingLost, ErrorsKept
<1>2. TypeOK /\ Orderly /\ (TypeOK /\ Orderly)' /\ Replays /\ [Next]_vars
          => Replays'
  <2> SUFFICES ASSUME TypeOK, Orderly, Orderly', Kept, ErrorsKept, [Next]_vars
               PROVE  Kept' /\ ErrorsKept'
    BY DEF Replays, Kept
  <2>1. CASE Next
    <3>1. ParentStep \/ Fault \/ \E k \in Proc : ChildStep(k)
      BY <2>1 DEF Next
    <3>2. \A k \in Proc : InStep(k)
      BY DEF Orderly
    <3> QED
      BY <3>1, <3>2, KeptParent, KeptFault, KeptChild, ErrorsStep
  <2>2. CASE UNCHANGED vars
    <3>1. /\ UNCHANGED parentVars
          /\ UNCHANGED <<index, count, parent, flag, slot, child, at, done,
                         unflushed, outcome, errorFile>>
      BY <2>2 DEF vars, parentVars, shmVars, childVars, logVars
    <3>2. \A r : IsPending(r)' <=> IsPending(r)
      BY <3>1, PendingStays
    <3>3. \A k, s : Held(k, s)' <=> Held(k, s)
      BY <3>1 DEF Held
    <3>4. Kept'
      BY <3>1, <3>2, <3>3, KeptStays
    <3>5. ErrorsKept'
      BY <3>1 DEF ErrorsKept, Records
    <3> QED
      BY <3>4, <3>5
  <2> QED
    BY <2>1, <2>2
<1> QED
  BY <1>1, <1>2, OrderlyHolds, PTL DEF Spec

\* No service is called twice for a record: a child that begins one is at
\* the first it has not counted, which nobody has replayed.
THEOREM ReplayedOnceHolds == Spec => ReplayedOnce
<1> DEFINE Once == \A k \in Proc :
              child[k] = "run" /\ child'[k] = "busy" /\ rec'[k] # Blank
                  => outcome[rec'[k]] = "waiting"
<1>1. TypeOK /\ Orderly /\ Replays /\ [Next]_vars => [Once]_vars
  <2> SUFFICES ASSUME TypeOK, Orderly, Replays, Next, NEW k \in Proc,
                      child[k] = "run", child'[k] = "busy", rec'[k] # Blank
               PROVE  outcome[rec'[k]] = "waiting"
    OBVIOUS
  <2>1. child = [p \in Proc |-> child[p]]
    BY DEF TypeOK
  <2>2. ASSUME ParentStep PROVE FALSE
    <3>1. child'[k] = child[k] \/ child'[k] = "attach"
      BY <2>1, <2>2 DEF ParentStep, Fork, ReadBatch, WaitForPayments,
         SearchIdle, FillSlot, RaiseFirst, SetEnd, Finish, childVars
    <3> QED
      BY <3>1
  <2>3. ASSUME Fault PROVE FALSE
    <3>1. ASSUME ForkFails \/ ParentQuits \/ IndexUnreadable
          PROVE  child'[k] = child[k]
      BY <3>1 DEF ForkFails, ParentQuits, IndexUnreadable, childVars
    <3>2. ASSUME NEW l \in Proc, AttachFails(l) \/ ChildQuits(l)
          PROVE  child'[k] = child[k] \/ child'[k] = "dead"
      BY <2>1, <3>2 DEF AttachFails, ChildQuits, Leave
    <3> QED
      BY <2>3, <3>1, <3>2 DEF Fault
  <2>4. PICK l \in Proc : ChildStep(l)
    BY <2>2, <2>3 DEF Next
  <2>5. l = k
    BY <2>4, ChildLocal
  <2>6. BeginRecord(k)
    <3>1. CASE Attach(k) \/ SkipSlot(k)
      BY <2>1, <3>1 DEF Attach, SkipSlot, NextSlot
    <3>2. CASE ResetSlot(k) \/ \E o \in Ends : EndRecord(k, o)
      BY <3>2 DEF ResetSlot, EndRecord
    <3>3. CASE ChildExits(k)
      BY <2>1, <3>3 DEF ChildExits, Leave
    <3> QED
      BY <2>4, <2>5, <3>1, <3>2, <3>3 DEF ChildStep
  <2>7. /\ child[k] = "run" /\ Held(k, at[k]) /\ at[k] \in Slot
        /\ at[k] \in Nat /\ done[k] = at[k]
    BY <2>6, BeginsNext DEF Orderly
  <2>8. rec'[k] = slot[k][at[k]]
    BY <2>6 DEF BeginRecord, TypeOK
  <2>9. HeldRecord(k, at[k], slot[k][at[k]])
    BY <2>7, <2>8 DEF Replays, HeldOnce
  <2> QED
    BY <2>7, <2>8, <2>9 DEF HeldRecord
<1> QED
  BY <1>1, OrderlyHolds, RecordsKept, PTL DEF Spec, ReplayedOnce

\* When the parent reports the redo as complete, every record of the index
\* has been replayed, or logged as an error that is in the error file or in
\* the buffer of a child that has not left.
THEOREM NoRecordSkippedHolds == Spec => []NoRecordSkipped
<1>1. TypeOK /\ Orderly /\ Replays => NoRecordSkipped
  <2> SUFFICES ASSUME TypeOK, Orderly, Replays, parent = "finished",
                      NEW r \in Records
               PROVE  /\ Finished(r)
                      /\ outcome[r] = "logged" =>
                             \/ r \in errorFile
                             \/ \E k \in Proc : r \in unflushed[k]
                      /\ (\A k \in Proc : child[k] \in {"exited", "dead"})
                             => (outcome[r] = "logged" => r \in errorFile)
    BY DEF NoRecordSkipped
  <2>1. Finished(r)
    <3>1. \A k \in Proc : \A s \in Slot : ~Held(k, s)
      BY DEF Orderly, Filled, Held
    <3>2. ~(r > count)
      <4>1. count >= Len(index)
        BY DEF Orderly, BatchRead
      <4> QED
        BY <4>1, Typed DEF Records
    <3>3. ~IsPending(r)
      BY DEF IsPending, Pending
    <3> QED
      BY <3>1, <3>2, <3>3 DEF Replays, NothingLost
  <2>2. outcome[r] = "logged" =>
            r \in errorFile \/ \E k \in Proc : r \in unflushed[k]
    BY DEF Replays, ErrorsKept
  <2>3. ASSUME \A k \in Proc : child[k] \in {"exited", "dead"}
        PROVE  \A k \in Proc : unflushed[k] = {}
    BY <2>3 DEF Replays, ErrorsKept
  <2> QED
    BY <2>1, <2>2, <2>3
<1> QED
  BY <1>1, OrderlyHolds, RecordsKept, PTL

-----------------------------------------------------------------------------
(* The order of the payments.                                              *)

\* Where the records of one batch are.
LEMMA Places ==
    ASSUME NEW m \in Nat, NEW q \in Nat \ {0}
    PROVE  /\ BatchSize * m \in Nat
           /\ \A i \in 1 .. BatchSize : q = (BatchSize * m) + i => BatchOf(q) = m
           /\ BatchOf(q) = m =>
                  q - (BatchSize * m) \in 1 .. BatchSize
<1> DEFINE b == BatchSize
<1>1. b \in Nat \ {0}
  BY Sizes
<1> HIDE DEF b
<1>2. ASSUME NEW i \in 1 .. b, q = (b * m) + i PROVE (q - 1) \div b = m
  <2>1. b * m \in Nat /\ i - 1 \in 0 .. b - 1
    BY <1>1
  <2>2. q - 1 = b * m + (i - 1)
    BY <1>2, <2>1
  <2> QED
    BY <1>1, <2>1, <2>2, Division
<1>3. ASSUME (q - 1) \div b = m PROVE q - (b * m) \in 1 .. b
  <2>1. q - 1 \in Nat /\ (q - 1) % b \in 0 .. b - 1
    BY <1>1
  <2>2. q - 1 = (b * ((q - 1) \div b)) + ((q - 1) % b)
    BY <1>1, <2>1
  <2>3. b * m \in Nat
    BY <1>1
  <2>4. q - 1 = (b * m) + ((q - 1) % b)
    BY <1>3, <2>2
  <2> QED
    BY <1>1, <2>1, <2>3, <2>4
<1>4. b * m \in Nat
  BY <1>1
<1> QED
  BY <1>2, <1>3, <1>4 DEF b, BatchOf

\* The records of the batch are those of one batch number, in their order.
LEMMA BatchPlaces ==
    ASSUME TypeOK, BatchRead, parent \in {"pay", "search", "fill", "raise"},
           NEW i \in DOMAIN batch, batch[i] # Blank
    PROVE  \E m \in Nat :
               /\ \A j \in DOMAIN batch :
                      /\ batch[j] = (BatchSize * m) + j /\ batch[j] # Blank
                      /\ BatchOf(batch[j]) = m
               /\ \A q \in 1 .. batch[i] : BatchOf(q) = m =>
                      \E j \in 1 .. i : j \in DOMAIN batch /\ batch[j] = q
<1> DEFINE b == BatchSize
<1>1. /\ b \in Nat \ {0} /\ DOMAIN batch = 1 .. Len(batch) /\ Len(batch) \in Nat
      /\ Len(batch) <= b /\ batch[i] \in Nat \ {0} /\ i \in 1 .. b
  BY Typed, Sizes DEF Blank
<1>2. batch # <<Blank>>
  <2>1. batch = <<Blank>> => batch[i] = Blank
    OBVIOUS
  <2> QED
    BY <2>1
<1>3. PICK m : m = BatchOf(batch[1])
  OBVIOUS
<1>4. \A j \in DOMAIN batch : batch[j] = b * m + j
  BY <1>2, <1>3 DEF BatchRead
<1>5. m \in Int
  <2>1. 1 \in DOMAIN batch /\ batch[1] \in Nat
    BY <1>1, Typed
  <2> QED
    BY <1>1, <1>3, <2>1 DEF BatchOf
<1>6. m \in Nat
  <2> HIDE DEF b
  <2>1. batch[i] = (b * m) + i /\ b * m \in Int
    BY <1>1, <1>4, <1>5
  <2>2. b * m > 0 - b
    BY <1>1, <2>1
  <2>3. ASSUME m < 0 PROVE b * m <= 0 - b
    BY <1>1, <1>5, <2>3
  <2> QED
    BY <1>1, <1>5, <2>1, <2>2, <2>3
<1>7. b * m \in Nat
  BY <1>1, <1>6
<1>8. ASSUME NEW j \in DOMAIN batch
      PROVE  /\ batch[j] = (b * m) + j /\ batch[j] # Blank
             /\ BatchOf(batch[j]) = m
  <2>1. batch[j] = (b * m) + j /\ j \in 1 .. b
    BY <1>1, <1>4
  <2>2. batch[j] \in Nat \ {0}
    BY <1>7, <2>1
  <2> QED
    BY <1>6, <2>1, <2>2, Places DEF Blank
<1>9. ASSUME NEW q \in 1 .. batch[i], BatchOf(q) = m
      PROVE  \E j \in 1 .. i : j \in DOMAIN batch /\ batch[j] = q
  <2>1. q \in Nat \ {0} /\ q <= batch[i]
    BY <1>1
  <2>2. PICK j : j = q - (b * m)
    OBVIOUS
  <2>3. j \in 1 .. b
    BY <1>6, <1>9, <2>1, <2>2, Places
  <2>4. j \in 1 .. i /\ q = (b * m) + j
    <3>1. batch[i] = (b * m) + i
      BY <1>8
    <3> QED
      BY <1>1, <1>7, <2>1, <2>2, <2>3, <3>1
  <2>5. j \in DOMAIN batch
    BY <1>1, <2>4
  <2> QED
    BY <1>8, <2>4, <2>5
<1> QED
  BY <1>6, <1>8, <1>9

\* The rank of a record in its batch counts the payments of its number that
\* come before it in that batch.
LEMMA RankCounts ==
    ASSUME TypeOK, BatchRead, parent \in {"pay", "search", "fill", "raise"},
           NEW i \in DOMAIN batch, batch[i] # Blank
    PROVE  Rank(Numbers, i) =
               Cardinality({q \in 1 .. batch[i] - 1 :
                   SamePayment(q, batch[i]) /\ BatchOf(q) = BatchOf(batch[i])})
<1>1. PICK m \in Nat :
          /\ \A j \in DOMAIN batch :
                 /\ batch[j] = (BatchSize * m) + j /\ batch[j] # Blank
                 /\ BatchOf(batch[j]) = m
          /\ \A q \in 1 .. batch[i] : BatchOf(q) = m =>
                 \E j \in 1 .. i : j \in DOMAIN batch /\ batch[j] = q
  BY BatchPlaces
<1>2. /\ DOMAIN batch = 1 .. Len(batch) /\ Len(batch) \in Nat
      /\ i \in Nat /\ i <= Len(batch)
      /\ BatchSize * m \in Nat /\ \A j \in DOMAIN batch : batch[j] \in Nat
  BY Typed, Sizes
<1>3. \A j \in DOMAIN batch : Numbers[j] = index[batch[j]]
  BY <1>1 DEF Numbers, PhoneOf
<1> DEFINE S == {j \in 1 .. i - 1 : SameNumber(Numbers, i, j)}
           T == {q \in 1 .. batch[i] - 1 :
                    SamePayment(q, batch[i]) /\ BatchOf(q) = BatchOf(batch[i])}
           f == [j \in S |-> batch[j]]
<1>4. IsFiniteSet(S)
  <2>1. IsFiniteSet(1 .. i - 1)
    BY <1>2, FS_Interval
  <2> QED
    BY <2>1, FS_Subset
<1>5. ASSUME NEW j \in 1 .. i - 1
      PROVE  /\ j \in DOMAIN batch /\ batch[j] \in 1 .. batch[i] - 1
             /\ SameNumber(Numbers, i, j) <=> SamePayment(batch[j], batch[i])
  <2>1. j \in DOMAIN batch
    BY <1>2
  <2>2. batch[j] = (BatchSize * m) + j /\ batch[i] = (BatchSize * m) + i
    BY <1>1, <2>1
  <2>3. batch[j] \in 1 .. batch[i] - 1
    BY <1>2, <2>2
  <2>4. Numbers[j] = index[batch[j]] /\ Numbers[i] = index[batch[i]]
    BY <1>3, <2>1
  <2> QED
    BY <2>1, <2>3, <2>4 DEF SameNumber, SamePayment
<1>6. f \in [S -> T]
  <2> SUFFICES ASSUME NEW j \in S PROVE batch[j] \in T
    OBVIOUS
  <2>1. j \in 1 .. i - 1 /\ SameNumber(Numbers, i, j)
    OBVIOUS
  <2>2. BatchOf(batch[j]) = m /\ BatchOf(batch[i]) = m
    BY <1>1, <1>5, <2>1
  <2> QED
    BY <1>5, <2>1, <2>2
<1>7. \A x, y \in S : f[x] = f[y] => x = y
  <2> SUFFICES ASSUME NEW x \in S, NEW y \in S, batch[x] = batch[y]
               PROVE  x = y
    OBVIOUS
  <2>1. x \in DOMAIN batch /\ y \in DOMAIN batch
    BY <1>5
  <2> QED
    BY <2>1, BatchDistinct
<1>8. ASSUME NEW q \in T PROVE \E j \in S : f[j] = q
  <2>1. q \in 1 .. batch[i] - 1 /\ BatchOf(q) = m /\ SamePayment(q, batch[i])
    BY <1>1
  <2>2. q \in 1 .. batch[i] /\ q # batch[i]
    BY <1>2, <2>1
  <2>3. PICK j \in 1 .. i : j \in DOMAIN batch /\ batch[j] = q
    BY <1>1, <2>1, <2>2
  <2>4. j \in 1 .. i - 1
    <3>1. j # i
      BY <2>2, <2>3
    <3> QED
      BY <1>2, <3>1
  <2>5. j \in S
    BY <1>5, <2>1, <2>3, <2>4
  <2> QED
    BY <2>3, <2>5
<1> HIDE DEF f, S, T
<1>9. f \in Bijection(S, T)
  <2>1. f \in Injection(S, T)
    <3>1. IsInjective(f)
      BY <1>6, <1>7 DEF IsInjective
    <3> QED
      BY <1>6, <3>1 DEF Injection
  <2>2. f \in Surjection(S, T)
    BY <1>6, <1>8 DEF Surjection
  <2> QED
    BY <2>1, <2>2 DEF Bijection
<1>10. Cardinality(T) = Cardinality(S)
  <2>1. ExistsBijection(S, T)
    BY <1>9 DEF ExistsBijection
  <2> QED
    BY <1>4, <2>1, FS_Bijection
<1> QED
  BY <1>10 DEF Rank, S, T

\* Payments of one group are given to one child.
LEMMA GroupTogether ==
    ASSUME TypeOK, BatchRead, parent \in {"fill", "raise"},
           NEW i \in DOMAIN batch, NEW j \in DOMAIN batch,
           batch[i] # Blank, batch[j] # Blank, SamePayment(batch[i], batch[j]),
           GroupOf(batch[i]) = GroupOf(batch[j])
    PROVE  Target(i).proc = Target(j).proc
<1> DEFINE n == Len(batch)
           N == Numbers
           S == idle
<1>1. n \in Nat /\ DOMAIN batch = 1 .. n /\ n <= BatchSize
  BY Typed
<1>2. DOMAIN N = 1 .. n /\ \A l \in 1 .. n : N[l] = PhoneOf(batch[l])
  BY <1>1 DEF Numbers
<1>3. S \in SUBSET Proc /\ n <= Cardinality(S)
  <2>1. S \in SUBSET Proc /\ Cardinality(S) >= BatchSize
    BY DEF BatchRead, TypeOK
  <2>2. Cardinality(S) \in Nat
    <3>1. IsFiniteSet(Proc)
      BY RedoAssumption, FS_Interval DEF Proc
    <3> QED
      BY <2>1, <3>1, FS_Subset, FS_CardinalityType
  <2> QED
    BY <1>1, <2>1, <2>2, Sizes
<1>4. SameNumber(N, i, j)
  BY <1>1, <1>2 DEF SameNumber, SamePayment, PhoneOf
<1>5. Rank(N, i) \div RedoCount = Rank(N, j) \div RedoCount
  BY RankCounts DEF GroupOf
<1>6. \A l : Target(l) = ProcessNo(N, S)[l]
  BY DEF Target
<1> HIDE DEF n, N, S
<1>7. \A x, y \in 1 .. n :
          /\ SameNumber(N, x, y)
          /\ Rank(N, x) \div RedoCount = Rank(N, y) \div RedoCount
          => ProcessNo(N, S)[x].proc = ProcessNo(N, S)[y].proc
  BY <1>1, <1>2, <1>3, Targets
<1> QED
  BY <1>1, <1>4, <1>5, <1>6, <1>7

\* No step writes the index, so no payment changes its place in it.
LEMMA IndexStays ==
    ASSUME TypeOK, ParentStep \/ Fault \/ \E k \in Proc : ChildStep(k)
    PROVE  UNCHANGED index
<1>1. CASE ParentStep
  BY <1>1 DEF ParentStep, Fork, ReadBatch, WaitForPayments, SearchIdle,
         FillSlot, RaiseFirst, SetEnd, Finish
<1>2. CASE Fault
  BY <1>2 DEF Fault, ForkFails, ParentQuits, IndexUnreadable, AttachFails,
         ChildQuits, parentVars
<1>3. ASSUME NEW k \in Proc, ChildStep(k) PROVE UNCHANGED index
  BY <1>3, ChildLocal DEF parentVars
<1> QED
  BY <1>1, <1>2, <1>3

LEMMA PlacesStay ==
    ASSUME UNCHANGED index
    PROVE  /\ Records' = Records
           /\ \A q, r : SamePayment(q, r)' <=> SamePayment(q, r)
           /\ \A r : /\ BatchOf(r)' = BatchOf(r) /\ GroupOf(r)' = GroupOf(r)
                     /\ PhoneOf(r)' = PhoneOf(r)
<1>1. \A q, r : SamePayment(q, r)' <=> SamePayment(q, r)
  BY DEF SamePayment
<1>2. \A r : BatchOf(r)' = BatchOf(r)
  BY DEF BatchOf
<1>3. \A r : GroupOf(r)' = GroupOf(r)
  BY <1>1, <1>2 DEF GroupOf
<1> QED
  BY <1>1, <1>2, <1>3 DEF Records, PhoneOf

\* A replay that has ended is never begun again.
LEMMA FinishedStays ==
    ASSUME TypeOK, Orderly, Replays,
           ParentStep \/ Fault \/ \E k \in Proc : ChildStep(k),
           NEW r \in Records, Finished(r)
    PROVE  Finished(r)'
<1>1. CASE outcome' = outcome
  BY <1>1 DEF Finished
<1>2. CASE ParentStep
  <2>1. outcome' = outcome
    BY <1>2 DEF ParentStep, Fork, ReadBatch, WaitForPayments, SearchIdle,
           FillSlot, RaiseFirst, SetEnd, Finish, logVars
  <2> QED
    BY <1>1, <2>1
<1>3. CASE Fault
  <2>1. outcome' = outcome
    BY <1>3 DEF Fault, ForkFails, ParentQuits, IndexUnreadable, AttachFails,
           ChildQuits, logVars
  <2> QED
    BY <1>1, <2>1
<1>4. ASSUME NEW k \in Proc, ChildStep(k) PROVE Finished(r)'
  <2>1. CASE Attach(k) \/ SkipSlot(k) \/ ResetSlot(k) \/ ChildExits(k)
    <3>1. outcome' = outcome
      BY <2>1 DEF Attach, SkipSlot, ResetSlot, ChildExits, logVars
    <3> QED
      BY <1>1, <3>1
  <2>2. CASE BeginRecord(k)
    <3>1. PICK x : x = slot[k][at[k]]
      OBVIOUS
    <3>2. outcome' = [outcome EXCEPT ![x] = "running"]
      BY <2>2, <3>1 DEF BeginRecord
    <3>3. ASSUME x = r PROVE FALSE
      <4>1. /\ Held(k, at[k]) /\ at[k] \in Slot /\ at[k] \in Nat
            /\ done[k] = at[k]
        BY <2>2, BeginsNext DEF Orderly
      <4>2. HeldRecord(k, at[k], r)
        <5>1. slot[k][at[k]] = r /\ r # Blank
          BY <3>1, <3>3 DEF Records, Blank
        <5> QED
          BY <4>1, <5>1 DEF Replays, HeldOnce
      <4>3. outcome[r] = "waiting"
        BY <4>1, <4>2 DEF HeldRecord
      <4> QED
        BY <4>3, DispatchAssumption DEF Finished
    <3>4. outcome'[r] = outcome[r]
      BY <3>2, <3>3 DEF TypeOK, Records
    <3> QED
      BY <3>4 DEF Finished
  <2>3. ASSUME NEW o \in Ends, EndRecord(k, o) PROVE Finished(r)'
    <3>1. PICK x : x = rec[k]
      OBVIOUS
    <3>2. outcome' = [outcome EXCEPT ![x] = o]
      BY <2>3, <3>1 DEF EndRecord
    <3>3. outcome'[r] = outcome[r] \/ outcome'[r] = o
      BY <3>2 DEF TypeOK, Records
    <3> QED
      BY <3>3 DEF Finished
  <2> QED
    BY <1>4, <2>1, <2>2, <2>3 DEF ChildStep
<1> QED
  BY <1>2, <1>3, <1>4

\* What SlotsFollow says of one child.
ChildFollows(k) ==
    \A s \in Slot : Held(k, 0) /\ Held(k, s) =>
        /\ PhoneOf(slot[k][s]) = PhoneOf(slot[k][0])
        /\ slot[k][s] # Blank => \A q \in 1 .. slot[k][s] - 1 :
               SamePayment(q, slot[k][s]) =>
                   \/ Finished(q)
                   \/ /\ BatchOf(q) = BatchOf(slot[k][s])
                      /\ GroupOf(q) # GroupOf(slot[k][s])
                   \/ \E p \in 0 .. s - 1 : Held(k, p) /\ slot[k][p] = q

\* A child whose slots are at most given back keeps its order.
LEMMA ChildFollowsStays ==
    ASSUME TypeOK, NEW k \in Proc, ChildFollows(k), UNCHANGED index,
           \A r \in Records : Finished(r) => Finished(r)',
           \A s \in Slot : Held(k, 0)' /\ Held(k, s)' =>
               /\ Held(k, 0) /\ Held(k, s) /\ slot'[k][0] = slot[k][0]
               /\ slot'[k][s] = slot[k][s]
               /\ \A p \in 0 .. s - 1 :
                      Held(k, p) => Held(k, p)' /\ slot'[k][p] = slot[k][p]
    PROVE  ChildFollows(k)'
<1> SUFFICES ASSUME NEW s \in Slot, Held(k, 0)', Held(k, s)'
             PROVE  /\ PhoneOf(slot[k][s])' = PhoneOf(slot[k][0])'
                    /\ slot'[k][s] # Blank =>
                         \A q \in 1 .. slot'[k][s] - 1 :
                           SamePayment(q, slot[k][s])' =>
                             \/ Finished(q)'
                             \/ /\ BatchOf(q)' = BatchOf(slot[k][s])'
                                /\ GroupOf(q)' # GroupOf(slot[k][s])'
                             \/ \E p \in 0 .. s - 1 :
                                    Held(k, p)' /\ slot'[k][p] = q
  BY DEF ChildFollows, Blank
<1>1. PICK r, z : r = slot[k][s] /\ z = slot[k][0]
  OBVIOUS
<1>2. /\ slot'[k][s] = r /\ slot'[k][0] = z
      /\ r \in Nat /\ r <= Len(index) /\ Len(index) \in Nat
  BY <1>1, Typed
<1>3. /\ PhoneOf(slot[k][s])' = PhoneOf(r) /\ PhoneOf(slot[k][0])' = PhoneOf(z)
      /\ BatchOf(slot[k][s])' = BatchOf(r) /\ GroupOf(slot[k][s])' = GroupOf(r)
      /\ \A q : SamePayment(q, slot[k][s])' <=> SamePayment(q, r)
      /\ \A q : BatchOf(q)' = BatchOf(q) /\ GroupOf(q)' = GroupOf(q)
  <2>1. \A q : SamePayment(q, slot[k][s])' <=> SamePayment(q, r)'
    BY <1>2 DEF SamePayment
  <2>2. /\ BatchOf(slot[k][s])' = BatchOf(r)'
        /\ PhoneOf(slot[k][s])' = PhoneOf(r)'
        /\ PhoneOf(slot[k][0])' = PhoneOf(z)'
    BY <1>2 DEF BatchOf, PhoneOf
  <2>3. GroupOf(slot[k][s])' = GroupOf(r)'
    BY <1>2 DEF GroupOf, SamePayment, BatchOf
  <2> QED
    BY <2>1, <2>2, <2>3, PlacesStay
<1>4. /\ PhoneOf(r) = PhoneOf(z)
      /\ r # Blank => \A q \in 1 .. r - 1 : SamePayment(q, r) =>
             \/ Finished(q)
             \/ BatchOf(q) = BatchOf(r) /\ GroupOf(q) # GroupOf(r)
             \/ \E p \in 0 .. s - 1 : Held(k, p) /\ slot[k][p] = q
  BY <1>1 DEF ChildFollows
<1>5. \A q \in 1 .. r - 1 : q \in Records
  BY <1>2 DEF Records
<1> QED
  BY <1>2, <1>3, <1>4, <1>5

\* A payment that is raised comes after the payments of its group.
LEMMA FollowsRaise ==
    ASSUME TypeOK, Orderly, BatchFollows, RaiseFirst,
           NEW k \in Proc, ChildFollows(k)
    PROVE  ChildFollows(k)'
<1> USE DEF Orderly
<1>1. /\ UNCHANGED <<index, batch, idle, slot, outcome>> /\ parent = "raise"
      /\ parent \in {"fill", "raise"}
  BY DEF RaiseFirst, logVars
<1>2. \A r \in Records : Finished(r) => Finished(r)'
  BY <1>1 DEF Finished
<1>3. CASE Target(fill).slot # 0 \/ Target(fill).proc # k
  <2>1. \A s \in Slot : Held(k, s)' <=> Held(k, s)
    <3>1. CASE Target(fill).slot # 0
      BY <3>1 DEF RaiseFirst, Held
    <3>2. CASE Target(fill).slot = 0
      BY <1>3, <3>2, FirstRaised
    <3> QED
      BY <3>1, <3>2
  <2>2. \A s \in Slot : \A p \in 0 .. s - 1 : p \in Slot
    BY Sizes DEF Slot
  <2> QED
    BY <1>1, <1>2, <2>1, <2>2, Sizes, ChildFollowsStays
<1>4. CASE Target(fill).slot = 0 /\ Target(fill).proc = k
  <2>1. \A s \in Slot : Held(k, s)' <=> \E j \in DOMAIN batch : IsTarget(j, k, s)
    BY <1>4, FirstRaised
  <2>2. \A j \in DOMAIN batch : \A s : IsTarget(j, k, s) => slot[k][s] = batch[j]
    BY <1>1 DEF Filled, IsTarget
  <2>3. fill \in DOMAIN batch /\ IsTarget(fill, k, 0)
    BY <1>1, <1>4, TargetsNow DEF IsTarget
  <2>4. ASSUME NEW s \in Slot, NEW r, r = slot[k][s], Held(k, s)'
        PROVE  /\ PhoneOf(r) = PhoneOf(slot[k][0])
               /\ r # Blank => \A q \in 1 .. r - 1 : SamePayment(q, r) =>
                      \/ Finished(q)
                      \/ BatchOf(q) = BatchOf(r) /\ GroupOf(q) # GroupOf(r)
                      \/ \E p \in 0 .. s - 1 : Held(k, p)' /\ slot[k][p] = q
    <3>1. PICK j \in DOMAIN batch : IsTarget(j, k, s)
      BY <2>1, <2>4
    <3>2. r = batch[j] /\ slot[k][0] = batch[fill]
      BY <2>2, <2>3, <2>4, <3>1
    <3>3. PhoneOf(r) = PhoneOf(slot[k][0])
      BY <1>1, <2>3, <3>1, <3>2, TargetsNow DEF IsTarget
    <3>4. ASSUME r # Blank, NEW q \in 1 .. r - 1, SamePayment(q, r), ~Finished(q),
                 ~(BatchOf(q) = BatchOf(r) /\ GroupOf(q) # GroupOf(r))
          PROVE  \E p \in 0 .. s - 1 : Held(k, p)' /\ slot[k][p] = q
      <4>1. BatchOf(q) = BatchOf(r)
        BY <1>1, <3>2, <3>4 DEF BatchFollows
      <4>2. GroupOf(q) = GroupOf(r)
        BY <3>4, <4>1
      <4>3. r \in Nat /\ q \in Nat /\ q # r /\ q \in 1 .. r
        BY <3>2, <3>4, Typed
      <4>4. PICK m \in Nat :
                /\ \A l \in DOMAIN batch :
                       batch[l] # Blank /\ BatchOf(batch[l]) = m
                /\ \A x \in 1 .. r : BatchOf(x) = m =>
                       \E l \in 1 .. j : l \in DOMAIN batch /\ batch[l] = x
        BY <1>1, <3>2, <3>4, BatchPlaces
      <4>5. BatchOf(q) = m
        BY <3>2, <4>1, <4>4
      <4>6. PICK i \in 1 .. j : i \in DOMAIN batch /\ batch[i] = q
        BY <4>3, <4>4, <4>5
      <4>7. j \in Nat /\ i < j
        <5>1. i # j /\ j \in Nat
          BY <3>2, <4>3, <4>6, Typed
        <5> QED
          BY <4>6, <5>1
      <4>8. Target(i).proc = Target(j).proc
        BY <1>1, <3>2, <3>4, <4>2, <4>4, <4>6, GroupTogether
      <4>9. PICK p : p = Target(i).slot
        OBVIOUS
      <4>10. p \in Slot /\ p < s /\ IsTarget(i, k, p)
        <5>1. Target(i).slot \in Slot /\ Target(i).slot < Target(j).slot
          BY <1>1, <4>6, <4>7, <4>8, TargetsNow
        <5> QED
          BY <3>1, <4>8, <4>9, <5>1 DEF IsTarget
      <4>11. p \in 0 .. s - 1
        BY <4>10, Sizes DEF Slot
      <4>12. Held(k, p)' /\ slot[k][p] = q
        BY <2>1, <2>2, <4>6, <4>10
      <4> QED
        BY <4>11, <4>12
    <3> QED
      BY <3>3, <3>4
  <2> SUFFICES ASSUME NEW s \in Slot, Held(k, s)'
               PROVE  /\ PhoneOf(slot[k][s])' = PhoneOf(slot[k][0])'
                      /\ slot'[k][s] # Blank =>
                           \A q \in 1 .. slot'[k][s] - 1 :
                             SamePayment(q, slot[k][s])' =>
                               \/ Finished(q)'
                               \/ /\ BatchOf(q)' = BatchOf(slot[k][s])'
                                  /\ GroupOf(q)' # GroupOf(slot[k][s])'
                               \/ \E p \in 0 .. s - 1 :
                                      Held(k, p)' /\ slot'[k][p] = q
    BY DEF ChildFollows, Blank
  <2>5. PICK r, z : r = slot[k][s] /\ z = slot[k][0]
    OBVIOUS
  <2>6. /\ slot'[k][s] = r /\ slot'[k][0] = z
        /\ \A q : Finished(q)' <=> Finished(q)
    BY <1>1, <2>5 DEF Finished
  <2>7. /\ PhoneOf(slot[k][s])' = PhoneOf(r) /\ PhoneOf(slot[k][0])' = PhoneOf(z)
        /\ BatchOf(slot[k][s])' = BatchOf(r) /\ GroupOf(slot[k][s])' = GroupOf(r)
        /\ \A q : SamePayment(q, slot[k][s])' <=> SamePayment(q, r)
        /\ \A q : BatchOf(q)' = BatchOf(q) /\ GroupOf(q)' = GroupOf(q)
    <3>1. \A q : SamePayment(q, slot[k][s])' <=> SamePayment(q, r)'
      BY <2>6 DEF SamePayment
    <3>2. /\ BatchOf(slot[k][s])' = BatchOf(r)'
          /\ PhoneOf(slot[k][s])' = PhoneOf(r)'
          /\ PhoneOf(slot[k][0])' = PhoneOf(z)'
      BY <2>6 DEF BatchOf, PhoneOf
    <3>3. GroupOf(slot[k][s])' = GroupOf(r)'
      BY <2>6 DEF GroupOf, SamePayment, BatchOf
    <3> QED
      BY <1>1, <3>1, <3>2, <3>3, PlacesStay
  <2>8. /\ PhoneOf(r) = PhoneOf(z)
        /\ r # Blank => \A q \in 1 .. r - 1 : SamePayment(q, r) =>
               \/ Finished(q)
               \/ BatchOf(q) = BatchOf(r) /\ GroupOf(q) # GroupOf(r)
               \/ \E p \in 0 .. s - 1 : Held(k, p)' /\ slot[k][p] = q
    BY <2>4, <2>5
  <2>9. \A p : slot'[k][p] = slot[k][p]
    BY <1>1
  <2> QED
    BY <2>6, <2>7, <2>8, <2>9
<1> QED
  BY <1>3, <1>4

\* The slots keep their order.
LEMMA FollowsStep ==
    ASSUME TypeOK, Orderly, Replays, BatchFollows,
           ParentStep \/ Fault \/ \E l \in Proc : ChildStep(l),
           NEW k \in Proc, ChildFollows(k)
    PROVE  ChildFollows(k)'
<1>1. UNCHANGED index /\ \A r \in Records : Finished(r) => Finished(r)'
  BY IndexStays, FinishedStays
<1>2. \A s \in Slot : \A p \in 0 .. s - 1 : p \in Slot
  BY Sizes DEF Slot
<1>3. ASSUME flag'[k] = flag[k], slot'[k] = slot[k] PROVE ChildFollows(k)'
  <2>1. \A s : Held(k, s)' <=> Held(k, s)
    BY <1>3 DEF Held
  <2> QED
    BY <1>1, <1>3, <2>1, ChildFollowsStays
<1>4. CASE ParentStep
  <2>1. CASE FillSlot
    <3>1. PICK j, t : j = Target(fill).proc /\ t = Target(fill).slot
      OBVIOUS
    <3>2. /\ j \in Proc /\ t \in Slot /\ ~Held(j, 0)
          /\ \A l \in Proc : \A s \in Slot :
                 /\ Held(l, s)' <=> Held(l, s) \/ (l = j /\ s = t /\ t # 0)
                 /\ l # j \/ s # t => slot'[l][s] = slot[l][s]
      BY <2>1, <3>1, SlotFilled DEF Orderly, Held
    <3>3. CASE k = j
      <4>1. ~Held(k, 0)'
        BY <3>2, <3>3, Sizes
      <4> QED
        BY <4>1 DEF ChildFollows
    <3>4. CASE k # j
      BY <1>1, <1>2, <3>2, <3>4, Sizes, ChildFollowsStays
    <3> QED
      BY <3>3, <3>4
  <2>2. CASE RaiseFirst
    BY <2>2, FollowsRaise
  <2>3. CASE ~FillSlot /\ ~RaiseFirst
    <3>1. UNCHANGED <<flag, slot>>
      BY <1>4, <2>3 DEF ParentStep, Fork, ReadBatch, WaitForPayments,
         SearchIdle, SetEnd, Finish, shmVars
    <3> QED
      BY <1>3, <3>1
  <2> QED
    BY <2>1, <2>2, <2>3
<1>5. CASE Fault
  <2>1. UNCHANGED <<flag, slot>>
    BY <1>5 DEF Fault, ForkFails, ParentQuits, IndexUnreadable, AttachFails,
           ChildQuits, shmVars
  <2> QED
    BY <1>3, <2>1
<1>6. ASSUME NEW l \in Proc, ChildStep(l) PROVE ChildFollows(k)'
  <2>1. slot' = slot /\ (k # l => flag'[k] = flag[k])
    BY <1>6, ChildLocal
  <2>2. CASE ResetSlot(l) /\ k = l
    <3>1. /\ child[k] = "reset" /\ flag' = [flag EXCEPT ![k][at[k]] = TRUE]
          /\ at[k] \in Slot /\ at[k] \in Nat
          /\ flag \in [Proc -> [Slot -> BOOLEAN]]
      BY <2>2, Typed DEF ResetSlot, NextToReset, TypeOK
    <3>2. \A s \in Slot : Held(k, s) <=> s <= at[k]
      BY <3>1 DEF Orderly, InStep
    <3>3. \A s \in Slot : Held(k, s)' <=> Held(k, s) /\ s # at[k]
      BY <3>1 DEF Held
    <3>4. ASSUME NEW s \in Slot, Held(k, 0)', Held(k, s)',
                 NEW p \in 0 .. s - 1, Held(k, p)
          PROVE  Held(k, p)'
      <4>1. s <= at[k] /\ s \in Nat
        BY <3>2, <3>3, <3>4, Sizes
      <4>2. p # at[k]
        BY <3>1, <4>1
      <4> QED
        BY <1>2, <3>3, <3>4, <4>2
    <3> QED
      BY <1>1, <2>1, <3>3, <3>4, Sizes, ChildFollowsStays
  <2>3. CASE ~ResetSlot(l)
    <3>1. flag' = flag
      BY <1>6, <2>3 DEF ChildStep, Attach, BeginRecord, SkipSlot, EndRecord,
         ChildExits, shmVars
    <3> QED
      BY <1>3, <2>1, <3>1
  <2> QED
    BY <1>3, <2>1, <2>2, <2>3
<1> QED
  BY <1>4, <1>5, <1>6

\* Once no payment is replayed, all payments read before the batch have
\* ended; from then on the batch stays the one it is.
LEMMA BatchFollowsStep ==
    ASSUME TypeOK, Orderly, Replays, Payments,
           ParentStep \/ Fault \/ \E k \in Proc : ChildStep(k)
    PROVE  BatchFollows'
<1>1. UNCHANGED index /\ \A r \in Records : Finished(r) => Finished(r)'
  BY IndexStays, FinishedStays
<1>2. ASSUME batch' = batch, parent \in {"pay", "search", "fill", "raise"},
             \A i \in DOMAIN batch : batch[i] # Blank =>
                 \A q \in 1 .. batch[i] - 1 : SamePayment(q, batch[i]) =>
                     Finished(q) \/ BatchOf(q) = BatchOf(batch[i])
      PROVE  BatchFollows'
  <2> SUFFICES ASSUME NEW i \in DOMAIN batch, batch[i] # Blank,
                      NEW q \in 1 .. batch[i] - 1, SamePayment(q, batch[i])'
               PROVE  Finished(q)' \/ BatchOf(q)' = BatchOf(batch[i])'
    BY <1>2 DEF BatchFollows, Blank
  <2>1. PICK r : r = batch[i]
    OBVIOUS
  <2>2. SamePayment(q, r) /\ BatchOf(batch[i])' = BatchOf(r)
    <3>1. BatchOf(batch[i])' = BatchOf(r)'
      BY <1>2, <2>1 DEF BatchOf
    <3>2. SamePayment(q, r)'
      BY <1>2, <2>1 DEF SamePayment
    <3> QED
      BY <1>1, <3>1, <3>2, PlacesStay
  <2>3. Finished(q) \/ BatchOf(q) = BatchOf(r)
    BY <1>2, <2>1, <2>2
  <2>4. q \in Records
    BY Typed DEF Records
  <2>5. BatchOf(q)' = BatchOf(q)
    BY <1>1, PlacesStay
  <2> QED
    BY <1>1, <2>2, <2>3, <2>4, <2>5
<1>3. ASSUME batch' = batch, parent \in {"search", "fill", "raise"}
      PROVE  BatchFollows'
  BY <1>2, <1>3 DEF Payments, BatchFollows
<1>4. ASSUME parent' \notin {"search", "fill", "raise"} PROVE BatchFollows'
  BY <1>4 DEF BatchFollows
<1>5. CASE WaitForPayments
  <2>1. parent = "pay" /\ batch' = batch /\ NoPaymentRuns
    BY <1>5 DEF WaitForPayments
  <2>2. ASSUME NEW i \in DOMAIN batch, NEW r, r = batch[i], r # Blank,
               NEW q \in 1 .. r - 1, SamePayment(q, r)
        PROVE  Finished(q) \/ BatchOf(q) = BatchOf(r)
    <3>1. r \in Nat /\ q \in Nat /\ q \in Records /\ r <= count /\ count \in Nat
      <4>1. r \in Nat /\ r <= Len(index) /\ Len(index) \in Nat /\ count \in Nat
        BY <2>2, Typed
      <4>2. batch # <<Blank>>
        BY <2>2
      <4>3. r <= count
        BY <2>1, <2>2, <4>2 DEF Orderly, BatchRead
      <4> QED
        BY <4>1, <4>3 DEF Records
    <3>2. \/ Finished(q) \/ q > count \/ IsPending(q)
          \/ \E k \in Proc : \E s \in Slot : Held(k, s) /\ slot[k][s] = q
      BY <2>1, <3>1 DEF Replays, NothingLost
    <3>3. ~(q > count)
      BY <3>1
    <3>4. CASE IsPending(q)
      <4>1. PICK j \in DOMAIN batch : batch[j] = q
        BY <3>4 DEF IsPending, Pending
      <4>2. PICK m : \A l \in DOMAIN batch : BatchOf(batch[l]) = m
        BY <2>1, <2>2, BatchPlaces DEF Orderly
      <4> QED
        BY <2>2, <4>1, <4>2
    <3>5. ASSUME NEW k \in Proc, NEW s \in Slot, Held(k, s), slot[k][s] = q
          PROVE  FALSE
      <4>1. Held(k, 0)
        BY <2>1, <3>5 DEF Orderly, Filled, AllFree, Held
      <4>2. PhoneOf(q) = PhoneOf(slot[k][0])
        BY <3>5, <4>1 DEF Payments, SlotsFollow
      <4>3. PhoneOf(slot[k][0]) = NoPhone
        BY <2>1, <3>5, <4>1 DEF NoPaymentRuns, Held
      <4>4. PhoneOf(q) = index[q]
        <5>1. q # 0
          BY <2>2, <3>1
        <5> QED
          BY <5>1 DEF PhoneOf, Blank
      <4> QED
        BY <2>2, <4>2, <4>3, <4>4 DEF SamePayment
    <3> QED
      BY <3>2, <3>3, <3>4, <3>5
  <2> QED
    BY <1>2, <2>1, <2>2
<1>6. CASE Fork \/ ReadBatch \/ SetEnd \/ Finish
  BY <1>4, <1>6 DEF Fork, ReadBatch, SetEnd, Finish
<1>7. CASE SearchIdle \/ FillSlot \/ RaiseFirst
  BY <1>3, <1>7 DEF SearchIdle, FillSlot, RaiseFirst
<1>8. CASE Fault
  <2>1. parent' = "gone" \/ UNCHANGED <<batch, parent>>
    BY <1>8 DEF Fault, ForkFails, ParentQuits, IndexUnreadable, AttachFails,
           ChildQuits, parentVars
  <2> QED
    BY <1>3, <1>4, <2>1
<1>9. CASE \E k \in Proc : ChildStep(k)
  <2>1. UNCHANGED <<batch, parent>>
    BY <1>9, ChildLocal DEF parentVars
  <2> QED
    BY <1>3, <1>4, <2>1
<1> QED
  BY <1>5, <1>6, <1>7, <1>8, <1>9 DEF ParentStep

\* The payments are handed out in the order of the index.
THEOREM PaymentsFollow == Spec => []Payments
<1>1. SlotsFollow <=> \A k \in Proc : ChildFollows(k)
  BY DEF SlotsFollow, ChildFollows
<1>2. Init => Payments
  BY <1>1 DEF Init, Payments, BatchFollows, ChildFollows, Held
<1>3. TypeOK /\ Orderly /\ Replays /\ Payments /\ [Next]_vars => Payments'
  <2> SUFFICES ASSUME TypeOK, Orderly, Replays, Payments, [Next]_vars
               PROVE  Payments'
    OBVIOUS
  <2>1. CASE Next
    <3>1. ParentStep \/ Fault \/ \E k \in Proc : ChildStep(k)
      BY <2>1 DEF Next
    <3>2. BatchFollows'
      BY <3>1, BatchFollowsStep
    <3>3. \A k \in Proc : ChildFollows(k)'
      BY <1>1, <3>1, FollowsStep DEF Payments
    <3>4. SlotsFollow'
      BY <3>3 DEF SlotsFollow, ChildFollows
    <3> QED
      BY <3>2, <3>4 DEF Payments
  <2>2. CASE UNCHANGED vars
    <3>1. UNCHANGED <<index, parent, batch, flag, slot, outcome>>
      BY <2>2 DEF vars, parentVars, shmVars, logVars
    <3>2. /\ \A r : Finished(r)' <=> Finished(r)
          /\ \A k, s : Held(k, s)' <=> Held(k, s)
      BY <3>1 DEF Finished, Held
    <3>3. BatchFollows'
      BY <3>1, <3>2 DEF Payments, BatchFollows, SamePayment, BatchOf
    <3>4. \A k \in Proc : ChildFollows(k)'
      BY <1>1, <3>1, <3>2, ChildFollowsStays DEF Payments
    <3>5. SlotsFollow'
      BY <3>4 DEF SlotsFollow, ChildFollows
    <3> QED
      BY <3>3, <3>5 DEF Payments
  <2> QED
    BY <2>1, <2>2
<1> QED
  BY <1>2, <1>3, OrderlyHolds, RecordsKept, PTL DEF Spec

\* A payment starts only when all earlier ones of its number have ended, but
\* for those of another group of its batch: its child holds the rest of the
\* group in lower slots, and has replayed these.
THEOREM PaymentsInOrderHolds == Spec => []PaymentsInOrder
<1>1. TypeOK /\ Orderly /\ Replays /\ Payments => PaymentsInOrder
  <2> SUFFICES ASSUME TypeOK, Orderly, Replays, Payments,
                      NEW k \in Proc, child[k] = "busy", rec[k] # Blank,
                      NEW q \in 1 .. rec[k] - 1, SamePayment(q, rec[k])
               PROVE  \/ Finished(q)
                      \/ /\ BatchOf(q) = BatchOf(rec[k])
                         /\ GroupOf(q) # GroupOf(rec[k])
    BY DEF PaymentsInOrder, Blank
  <2>1. /\ Held(k, 0) /\ Held(k, at[k]) /\ rec[k] = slot[k][at[k]]
        /\ at[k] \in Slot /\ rec[k] \in Nat
    BY Typed DEF Orderly, InStep, Held
  <2>2. \/ Finished(q)
        \/ BatchOf(q) = BatchOf(rec[k]) /\ GroupOf(q) # GroupOf(rec[k])
        \/ \E p \in 0 .. at[k] - 1 : Held(k, p) /\ slot[k][p] = q
    BY <2>1 DEF Payments, SlotsFollow
  <2>3. ASSUME NEW p \in 0 .. at[k] - 1, Held(k, p), slot[k][p] = q
        PROVE  Finished(q)
    <3>1. p \in Slot /\ p < at[k] /\ q # Blank
      BY <2>1, Sizes DEF Slot, Blank
    <3> QED
      BY <2>3, <3>1 DEF Replays, HeldOnce, HeldRecord
  <2> QED
    BY <2>2, <2>3
<1> QED
  BY <1>1, OrderlyHolds, RecordsKept, PaymentsFollow, PTL
=============================================================================
