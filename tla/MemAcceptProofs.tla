--------------------------- MODULE MemAcceptProofs ---------------------------
(***************************************************************************)
(* Proofs about GetMemAccept, for every number of processes and any number *)
(* of calls, creations and signals.  PInv counts the processes between     *)
(* lock and unlock with the semaphore's value; NInv follows the numbers    *)
(* from the counter through the section to the caller.                     *)
(***************************************************************************)
EXTENDS MemAccept, FiniteSetTheorems, TLAPS

Place == {"idle", "lock", "stamp", "dead"} \cup InSection

\* What PermitsAccounted rests on: a semaphore that is made anew has an
\* identifier that no process holds, and a process that can lock or release
\* has installed Quit and looked one up.
SemKnown ==
    /\ semId \in Nat /\ made \in Nat /\ semId <= made
    /\ mySem \in [Process -> Nat]
    /\ \A p \in Process :
        /\ mySem[p] <= made
        /\ pc[p] = "lock" \/ pc[p] \in InSection => armed[p]
        /\ armed[p] => mySem[p] # 0

PInv ==
    /\ sem \in Nat /\ strays \in Nat /\ lost \in Nat
    /\ pc \in [Process -> Place]
    /\ armed \in [Process -> BOOLEAN]
    /\ SemKnown
    /\ PermitsAccounted

-----------------------------------------------------------------------------
(* Counting the holders.                                                   *)

\* Only processes hold, and there are finitely many.
LEMMA HoldersFinite ==
    IsFiniteSet(Holders) /\ Cardinality(Holders) \in Nat
<1>1. Holders \subseteq Process
  BY DEF Holders
<1> QED
  BY <1>1, MemAcceptAssumption, FS_Subset, FS_CardinalityType

\* A process that is not in its section neither counts nor begins to count by
\* going to a place outside.
LEMMA OutsideStep ==
    ASSUME NEW p \in Process, pc \in [Process -> Place], NEW place,
           Goto(p, place), place \notin InSection, p \notin Holders,
           semId' = semId,
           \A q \in Process \ {p} : mySem'[q] = mySem[q]
    PROVE  Holders' = Holders
BY DEF Holders, Goto

\* A process that moves inside its section goes on counting.
LEMMA InsideStep ==
    ASSUME NEW p \in Process, pc \in [Process -> Place], NEW place,
           Goto(p, place), place \in InSection, pc[p] \in InSection,
           semId' = semId, mySem' = mySem
    PROVE  Holders' = Holders
BY DEF Holders, Goto

\* A process that leaves its section, or dies in it, no longer counts.
LEMMA LeavingStep ==
    ASSUME NEW p \in Process, pc \in [Process -> Place], NEW place,
           Goto(p, place), place \notin InSection, p \in Holders,
           semId' = semId, mySem' = mySem
    PROVE  /\ Cardinality(Holders') = Cardinality(Holders) - 1
           /\ Cardinality(Holders) \in Nat \ {0}
<1>1. Holders' = Holders \ {p}
  BY DEF Holders, Goto
<1>2. /\ IsFiniteSet(Holders \ {p})
      /\ Cardinality(Holders \ {p}) = Cardinality(Holders) - 1
  BY HoldersFinite, FS_RemoveElement
<1>3. Cardinality(Holders \ {p}) \in Nat
  BY <1>2, FS_CardinalityType
<1> QED
  BY <1>1, <1>2, <1>3, HoldersFinite

\* A process that locks begins to count.
LEMMA EnteringStep ==
    ASSUME NEW p \in Process, pc \in [Process -> Place], NEW place,
           Goto(p, place), place \in InSection, pc[p] \notin InSection,
           mySem[p] = semId, semId' = semId, mySem' = mySem
    PROVE  Cardinality(Holders') = Cardinality(Holders) + 1
<1>1. Holders' = Holders \cup {p}
  BY DEF Holders, Goto
<1>2. p \notin Holders
  BY DEF Holders
<1> QED
  BY <1>1, <1>2, HoldersFinite, FS_AddElement

\* While there is no semaphore nobody counts.
LEMMA NobodyWithout == ASSUME SemKnown, semId = 0 PROVE Holders = {}
BY DEF SemKnown, Holders

-----------------------------------------------------------------------------
(* The steps.                                                              *)

\* The steps that leave the semaphore and the numbers that account for it.
LEMMA SameCount ==
    ASSUME PInv, Holders' = Holders,
           sem' = sem, strays' = strays, lost' = lost, semId' = semId,
           admin' = admin
    PROVE  PermitsAccounted'
<1>1. Cardinality(Holders') = Cardinality(Holders)
  OBVIOUS
<1> HIDE DEF Holders
<1> QED
  BY <1>1 DEF PInv, PermitsAccounted

\* The steps of a call that go to a place outside and do not release.
LEMMA QuietStep ==
    ASSUME PInv, NEW p \in Process, NEW place \in {"idle", "stamp", "dead"},
           Goto(p, place), p \notin Holders, sem' = sem, UNCHANGED histVars,
           semId' = semId, made' = made, admin' = admin,
           mySem' = mySem, armed' = armed
    PROVE  PInv'
<1>1. Holders' = Holders
  BY OutsideStep DEF PInv, InSection
<1>2. PermitsAccounted'
  BY <1>1, SameCount DEF histVars
<1>3. pc' \in [Process -> Place]
  BY DEF PInv, Goto, Place
<1>4. SemKnown'
  BY DEF PInv, SemKnown, Goto, InSection
<1> QED
  BY <1>2, <1>3, <1>4 DEF PInv, histVars

\* The steps inside the section.
LEMMA SectionStep ==
    ASSUME PInv, NEW p \in Process, NEW place \in InSection,
           Goto(p, place), pc[p] \in InSection, sem' = sem,
           UNCHANGED histVars, semId' = semId, made' = made, admin' = admin,
           mySem' = mySem, armed' = armed
    PROVE  PInv'
<1>1. Holders' = Holders
  BY InsideStep DEF PInv
<1>2. PermitsAccounted'
  BY <1>1, SameCount DEF histVars
<1>3. pc' \in [Process -> Place]
  BY DEF PInv, Goto, Place
<1>4. SemKnown'
  BY DEF PInv, SemKnown, Goto
<1> QED
  BY <1>2, <1>3, <1>4 DEF PInv, histVars

\* A call keeps the account: Lock and Unlock turn a permit into a holder and
\* back.
LEMMA CallStep ==
    ASSUME PInv, NEW p \in Process, Call(p) PROVE PInv'
<1>1. CASE OpenFails(p)
  <2>1. PICK place \in {"idle", "dead"} : Goto(p, place)
    BY <1>1 DEF OpenFails, ReturnsNull
  <2>2. p \notin Holders
    BY <1>1 DEF OpenFails, Holders, InSection
  <2> QED
    BY <1>1, <2>1, <2>2, QuietStep DEF OpenFails, semVars, localVars, histVars
<1>2. CASE Open(p)
  <2>1. /\ Goto(p, "lock") /\ semId # 0 /\ pc[p] = "idle"
        /\ mySem' = [mySem EXCEPT ![p] = semId]
        /\ armed' = [armed EXCEPT ![p] = TRUE]
        /\ semId' = semId /\ sem' = sem /\ made' = made /\ admin' = admin
        /\ strays' = strays /\ lost' = lost
    BY <1>2 DEF Open, semVars, histVars
  <2>2. p \notin Holders
    BY <2>1 DEF Holders, InSection
  <2>3. Holders' = Holders
    <3>1. \A q \in Process \ {p} : mySem'[q] = mySem[q]
      BY <2>1 DEF PInv, SemKnown
    <3> QED
      BY <2>1, <2>2, <3>1, OutsideStep DEF PInv, InSection
  <2>4. PermitsAccounted'
    BY <2>1, <2>3, SameCount
  <2>5. pc' \in [Process -> Place] /\ armed' \in [Process -> BOOLEAN]
    BY <2>1 DEF PInv, Goto, Place
  <2>6. SemKnown'
    BY <2>1 DEF PInv, SemKnown, Goto, InSection
  <2> QED
    BY <2>1, <2>4, <2>5, <2>6 DEF PInv
<1>3. CASE Lock(p)
  <2>1. /\ Goto(p, "read") /\ pc[p] = "lock" /\ mySem[p] = semId /\ sem > 0
        /\ sem' = sem - 1
        /\ semId' = semId /\ made' = made /\ admin' = admin
        /\ mySem' = mySem /\ armed' = armed
        /\ strays' = strays /\ lost' = lost
    BY <1>3 DEF Lock, localVars, histVars
  <2>2. Cardinality(Holders') = Cardinality(Holders) + 1
    BY <2>1, EnteringStep DEF PInv, InSection
  <2>3. sem' \in Nat /\ PermitsAccounted'
    BY <2>1, <2>2, HoldersFinite DEF PInv, PermitsAccounted
  <2>4. pc' \in [Process -> Place]
    BY <2>1 DEF PInv, Goto, Place, InSection
  <2>5. SemKnown'
    BY <2>1 DEF PInv, SemKnown, Goto, InSection
  <2> QED
    BY <2>1, <2>3, <2>4, <2>5 DEF PInv
<1>4. CASE ReadCount(p)
  BY <1>4, SectionStep
     DEF ReadCount, InSection, semVars, localVars, histVars
<1>5. CASE WriteCount(p)
  BY <1>5, SectionStep
     DEF WriteCount, InSection, semVars, localVars, histVars
<1>6. CASE PrintCount(p)
  BY <1>6, SectionStep
     DEF PrintCount, InSection, semVars, localVars, histVars
<1>7. CASE Unlock(p)
  <2>1. /\ Goto(p, "stamp") /\ pc[p] = "unlock" /\ mySem[p] = semId
        /\ sem' = sem + 1
        /\ semId' = semId /\ made' = made /\ admin' = admin
        /\ mySem' = mySem /\ armed' = armed
        /\ strays' = strays /\ lost' = lost
    BY <1>7 DEF Unlock, localVars, histVars
  <2>2. p \in Holders
    BY <2>1 DEF Holders, InSection
  <2>3. /\ Cardinality(Holders') = Cardinality(Holders) - 1
        /\ Cardinality(Holders) \in Nat \ {0}
    BY <2>1, <2>2, LeavingStep DEF PInv, InSection
  <2>4. sem' \in Nat /\ PermitsAccounted'
    BY <2>1, <2>3 DEF PInv, PermitsAccounted
  <2>5. pc' \in [Process -> Place]
    BY <2>1 DEF PInv, Goto, Place
  <2>6. SemKnown'
    BY <2>1 DEF PInv, SemKnown, Goto, InSection
  <2> QED
    BY <2>1, <2>4, <2>5, <2>6 DEF PInv
<1>8. CASE SemGone(p)
  <2>1. PICK place \in {"idle", "dead"} : Goto(p, place)
    BY <1>8 DEF SemGone, ReturnsNull
  <2>2. p \notin Holders
    BY <1>8 DEF SemGone, Holders
  <2> QED
    BY <1>8, <2>1, <2>2, QuietStep DEF SemGone, semVars, localVars, histVars
<1>9. CASE Stamp(p)
  <2>1. p \notin Holders
    BY <1>9 DEF Stamp, Holders, InSection
  <2> QED
    BY <1>9, <2>1, QuietStep DEF Stamp, semVars, localVars, histVars
<1> QED
  BY <1>1, <1>2, <1>3, <1>4, <1>5, <1>6, <1>7, <1>8, <1>9 DEF Call

\* The administrator: a new semaphore has no holders; SETVAL adds a permit for
\* each holder it overlooks, which SemSetVal counts.
LEMMA AdminStep == ASSUME PInv, Admin PROVE PInv'
<1>1. pc' = pc /\ mySem' = mySem /\ armed' = armed /\ lost' = lost
  BY DEF Admin, SemGet, SemSetVal, ShmGet, DelShm, DelSem, localVars, histVars
<1>2. pc' \in [Process -> Place] /\ armed' \in [Process -> BOOLEAN]
  BY <1>1 DEF PInv
<1>3. CASE SemGet /\ semId = 0
  <2>1. /\ semId' = made + 1 /\ made' = made + 1 /\ sem' = 0
        /\ admin' = "setval" /\ strays' = strays
    BY <1>3 DEF SemGet, histVars
  <2>2. Holders' = {}
    BY <1>1, <2>1 DEF Holders, PInv, SemKnown
  <2>3. Cardinality(Holders') = 0
    BY <2>2, FS_EmptySet
  <2>4. PermitsAccounted'
    BY <2>1, <2>3 DEF PInv, PermitsAccounted
  <2>5. SemKnown'
    BY <1>1, <2>1 DEF PInv, SemKnown
  <2> QED
    BY <1>1, <1>2, <2>1, <2>4, <2>5 DEF PInv
<1>4. CASE SemGet /\ semId # 0
  <2>1. /\ semId' = semId /\ made' = made /\ sem' = sem /\ strays' = strays
        /\ admin' = (IF sem = 0 THEN "setval" ELSE "shm") /\ admin = "idle"
    BY <1>4 DEF SemGet, histVars
  <2>2. Cardinality(Holders') = Cardinality(Holders)
    BY <1>1, <2>1 DEF Holders
  <2>3. PermitsAccounted'
    BY <1>1, <2>1, <2>2 DEF PInv, PermitsAccounted
  <2>4. SemKnown'
    BY <1>1, <2>1 DEF PInv, SemKnown
  <2> QED
    BY <1>1, <1>2, <2>1, <2>3, <2>4 DEF PInv
<1>5. CASE SemSetVal
  <2>1. /\ semId' = semId /\ made' = made /\ sem' = 1
        /\ strays' = strays + Cardinality(Holders)
    BY <1>5 DEF SemSetVal
  <2>2. Cardinality(Holders') = Cardinality(Holders)
    BY <1>1, <2>1 DEF Holders
  <2>3. strays' \in Nat /\ PermitsAccounted'
    BY <1>1, <2>1, <2>2, HoldersFinite DEF PInv, PermitsAccounted
  <2>4. SemKnown'
    BY <1>1, <2>1 DEF PInv, SemKnown
  <2> QED
    BY <1>1, <1>2, <2>1, <2>3, <2>4 DEF PInv
<1>6. CASE ShmGet \/ DelShm
  <2>1. /\ semId' = semId /\ made' = made /\ sem' = sem /\ strays' = strays
        /\ admin # "setval"
    BY <1>6 DEF ShmGet, DelShm, histVars
  <2>2. Cardinality(Holders') = Cardinality(Holders)
    BY <1>1, <2>1 DEF Holders
  <2>3. PermitsAccounted'
    BY <1>1, <2>1, <2>2 DEF PInv, PermitsAccounted
  <2>4. SemKnown'
    BY <1>1, <2>1 DEF PInv, SemKnown
  <2> QED
    BY <1>1, <1>2, <2>1, <2>3, <2>4 DEF PInv
<1>7. CASE DelSem
  <2>1. semId' = 0 /\ made' = made /\ sem' = 0 /\ strays' = strays
    BY <1>7 DEF DelSem, histVars
  <2>2. SemKnown'
    BY <1>1, <2>1 DEF PInv, SemKnown
  <2>3. Holders' = {}
    BY <1>1, <2>1 DEF PInv, SemKnown, Holders
  <2>4. Cardinality(Holders') = 0
    BY <2>3, FS_EmptySet
  <2>5. PermitsAccounted'
    BY <2>1, <2>4 DEF PInv, PermitsAccounted
  <2> QED
    BY <1>1, <1>2, <2>1, <2>2, <2>5 DEF PInv
<1> QED
  BY <1>3, <1>4, <1>5, <1>6, <1>7 DEF Admin

\* Quit releases what its process holds, or a permit nobody held: a stray.
LEMMA SigtermStep ==
    ASSUME PInv, NEW p \in Process, Sigterm(p) PROVE PInv'
<1>1. /\ Goto(p, "dead") /\ semId' = semId /\ made' = made /\ admin' = admin
      /\ mySem' = mySem /\ armed' = armed /\ lost' = lost
  BY DEF Sigterm, localVars
<1>2. pc' \in [Process -> Place]
  BY <1>1 DEF PInv, Goto, Place
<1>3. SemKnown'
  BY <1>1 DEF PInv, SemKnown, Goto, InSection
<1>4. CASE p \in Holders /\ armed[p]
  <2>1. sem' = sem + 1 /\ strays' = strays
    BY <1>4 DEF Sigterm, Holders
  <2>2. /\ Cardinality(Holders') = Cardinality(Holders) - 1
        /\ Cardinality(Holders) \in Nat \ {0}
    BY <1>1, <1>4, LeavingStep DEF PInv, InSection
  <2>3. sem' \in Nat /\ PermitsAccounted'
    BY <1>1, <2>1, <2>2 DEF PInv, PermitsAccounted
  <2> QED
    BY <1>1, <1>2, <1>3, <2>1, <2>3 DEF PInv
<1>5. CASE p \notin Holders
  <2>1. \/ sem' = sem + 1 /\ strays' = strays + 1
        \/ sem' = sem /\ strays' = strays
    BY <1>5 DEF Sigterm
  <2>2. Holders' = Holders
    BY <1>1, <1>5, OutsideStep DEF PInv, InSection
  <2>3. Cardinality(Holders') = Cardinality(Holders)
    BY <2>2
  <2>4. sem' \in Nat /\ strays' \in Nat /\ PermitsAccounted'
    BY <1>1, <2>1, <2>3, HoldersFinite DEF PInv, PermitsAccounted
  <2> QED
    BY <1>1, <1>2, <1>3, <2>4 DEF PInv
<1>6. p \in Holders => armed[p]
  BY DEF PInv, SemKnown, Holders
<1> QED
  BY <1>4, <1>5, <1>6

\* A process killed in its section takes its permit with it.
LEMMA SigkillStep ==
    ASSUME PInv, NEW p \in Process, Sigkill(p) PROVE PInv'
<1>1. /\ Goto(p, "dead") /\ semId' = semId /\ made' = made /\ admin' = admin
      /\ mySem' = mySem /\ armed' = armed /\ sem' = sem /\ strays' = strays
      /\ lost' = IF p \in Holders THEN lost + 1 ELSE lost
  BY DEF Sigkill, semVars, localVars
<1>2. pc' \in [Process -> Place]
  BY <1>1 DEF PInv, Goto, Place
<1>3. SemKnown'
  BY <1>1 DEF PInv, SemKnown, Goto, InSection
<1>4. CASE p \in Holders
  <2>1. /\ Cardinality(Holders') = Cardinality(Holders) - 1
        /\ Cardinality(Holders) \in Nat \ {0}
    BY <1>1, <1>4, LeavingStep DEF PInv, InSection
  <2>2. lost' \in Nat /\ PermitsAccounted'
    BY <1>1, <1>4, <2>1 DEF PInv, PermitsAccounted
  <2> QED
    BY <1>1, <1>2, <1>3, <2>2 DEF PInv
<1>5. CASE p \notin Holders
  BY <1>1, <1>5, QuietStep DEF histVars
<1> QED
  BY <1>4, <1>5

\* A process that is started again has not looked the semaphore up.
LEMMA RestartStep ==
    ASSUME PInv, NEW p \in Process, Restart(p) PROVE PInv'
<1>1. /\ Goto(p, "idle") /\ pc[p] = "dead"
      /\ armed' = [armed EXCEPT ![p] = FALSE]
      /\ semId' = semId /\ made' = made /\ admin' = admin /\ mySem' = mySem
      /\ sem' = sem /\ strays' = strays /\ lost' = lost
  BY DEF Restart, semVars, histVars
<1>2. Holders' = Holders
  <2>1. p \notin Holders
    BY <1>1 DEF Holders, InSection
  <2> QED
    BY <1>1, <2>1, OutsideStep DEF PInv, InSection
<1>3. PermitsAccounted'
  BY <1>1, <1>2, SameCount
<1>4. pc' \in [Process -> Place] /\ armed' \in [Process -> BOOLEAN]
  BY <1>1 DEF PInv, Goto, Place
<1>5. SemKnown'
  BY <1>1 DEF PInv, SemKnown, Goto, InSection
<1> QED
  BY <1>1, <1>3, <1>4, <1>5 DEF PInv

\* The clock, and a step of nothing.
LEMMA IdleStep == ASSUME PInv, Tick \/ UNCHANGED vars PROVE PInv'
<1>1. /\ pc' = pc /\ mySem' = mySem /\ armed' = armed /\ semId' = semId
      /\ made' = made /\ admin' = admin /\ sem' = sem /\ strays' = strays
      /\ lost' = lost
  BY DEF Tick, vars, semVars, localVars, histVars
<1>2. Holders' = Holders
  BY <1>1 DEF Holders
<1>3. PermitsAccounted'
  BY <1>1, <1>2, SameCount
<1>4. SemKnown'
  BY <1>1 DEF PInv, SemKnown
<1> QED
  BY <1>1, <1>3, <1>4 DEF PInv

\* Every step keeps the account.
LEMMA PermitsStep == PInv /\ [Next]_vars => PInv'
BY CallStep, SigtermStep, SigkillStep, RestartStep, AdminStep, IdleStep
   DEF Next

\* At first there is no semaphore.
LEMMA InitPermits == Init => PInv
<1> SUFFICES ASSUME Init PROVE PInv
  OBVIOUS
<1>1. SemKnown
  BY DEF Init, SemKnown, InSection
<1>2. pc \in [Process -> Place] /\ armed \in [Process -> BOOLEAN]
  BY DEF Init, Place
<1>3. Cardinality(Holders) = 0
  BY <1>1, NobodyWithout, FS_EmptySet DEF Init
<1>4. PermitsAccounted
  BY <1>3 DEF Init, PermitsAccounted
<1> QED
  BY <1>1, <1>2, <1>4 DEF PInv, Init

-----------------------------------------------------------------------------
(* The theorems.                                                           *)

\* The inductive invariant holds in every behaviour.
THEOREM InvariantHolds == Spec => []PInv
<1> QED
  BY InitPermits, PermitsStep, PTL DEF Spec

\* Every permit beyond the first was brought in by a SIGTERM outside the
\* section or by SETVAL over a holder, and a permit is missing only after a
\* SIGKILL inside it.
THEOREM PermitsAccountedHolds == Spec => []PermitsAccounted
<1>1. PInv => PermitsAccounted
  BY DEF PInv
<1> QED
  BY InvariantHolds, <1>1, PTL

\* Without such a SIGTERM or SETVAL, shmp->count is incremented by one process
\* at a time.
THEOREM SectionExclusive ==
    Spec => [](strays = 0 => \A p, q \in Holders : p = q)
<1>1. PInv => (strays = 0 => \A p, q \in Holders : p = q)
  <2> SUFFICES ASSUME PInv, strays = 0, NEW p \in Holders, NEW q \in Holders
               PROVE  p = q
    OBVIOUS
  <2>1. Cardinality(Holders) <= 1
    BY HoldersFinite DEF PInv, PermitsAccounted
  <2>2. Cardinality(Holders) # 0
    BY HoldersFinite, FS_EmptySet
  <2>3. PICK x : Holders = {x}
    BY <2>1, <2>2, HoldersFinite, FS_Singleton
  <2> QED
    BY <2>3
<1> QED
  BY InvariantHolds, <1>1, PTL

-----------------------------------------------------------------------------
(* Types.                                                                  *)

\* The types at the start.
LEMMA TypeInit == Init => TypeOK
BY MemAcceptAssumption DEF Init, TypeOK, Made

\* The steps of a call keep the types.
LEMMA TypeCall ==
    ASSUME TypeOK, NEW p \in Process, Call(p) PROVE TypeOK'
<1> USE MemAcceptAssumption
<1>1. CASE OpenFails(p)
  BY <1>1 DEF OpenFails, ReturnsNull, Goto, TypeOK, semVars, localVars,
              histVars
<1>2. CASE Open(p)
  <2>1. Len(issued) \in Nat
    BY DEF TypeOK
  <2> QED
    BY <1>2, <2>1 DEF Open, Goto, TypeOK, semVars, histVars
<1>3. CASE Lock(p)
  BY <1>3 DEF Lock, Goto, TypeOK, localVars, histVars, envVars, InSection
<1>4. CASE ReadCount(p)
  BY <1>4 DEF ReadCount, Goto, TypeOK, semVars, localVars, histVars, envVars,
              InSection
<1>5. CASE WriteCount(p)
  BY <1>5 DEF WriteCount, Goto, TypeOK, semVars, localVars, histVars, envVars,
              InSection
<1>6. CASE PrintCount(p)
  BY <1>6 DEF PrintCount, Goto, TypeOK, semVars, localVars, histVars, envVars,
              InSection
<1>7. CASE Unlock(p)
  BY <1>7 DEF Unlock, Goto, TypeOK, localVars, histVars, envVars
<1>8. CASE SemGone(p)
  BY <1>8 DEF SemGone, ReturnsNull, Goto, TypeOK, semVars, localVars, histVars,
              envVars
<1>9. CASE Stamp(p)
  <2>1. [time |-> clock, n |-> got[p], seg |-> mySeg[p], since |-> since[p]]
            \in Number
    BY DEF TypeOK, Number
  <2>2. issued' \in Seq(Number)
    BY <1>9, <2>1 DEF Stamp, TypeOK
  <2> QED
    BY <1>9, <2>2
       DEF Stamp, Goto, TypeOK, semVars, localVars, histVars, envVars
<1> QED
  BY <1>1, <1>2, <1>3, <1>4, <1>5, <1>6, <1>7, <1>8, <1>9 DEF Call

\* So do all the others.
LEMMA TypeRest ==
    ASSUME TypeOK, [Next]_vars, \A p \in Process : ~Call(p) PROVE TypeOK'
<1>0. 0 \in Made
  BY MemAcceptAssumption DEF Made
<1> USE MemAcceptAssumption
<1>1. CASE SemGet
  <2>1. semId' \in Made /\ made' \in Made /\ sem' \in Nat
    BY <1>1 DEF SemGet, TypeOK, Made
  <2>2. admin' \in {"idle", "setval", "shm", "delsem"}
    BY <1>1 DEF SemGet
  <2> QED
    BY <1>1, <2>1, <2>2 DEF SemGet, TypeOK, localVars, histVars, envVars
<1>2. CASE SemSetVal
  <2>1. strays' \in Nat
    BY <1>2, HoldersFinite DEF SemSetVal, TypeOK
  <2> QED
    BY <1>2, <2>1 DEF SemSetVal, TypeOK, localVars, envVars
<1>3. CASE ShmGet \/ DelShm \/ DelSem
  <2>1. semId' \in Made /\ seg' \in Made /\ sem' \in Nat
    BY <1>0, <1>3 DEF ShmGet, DelShm, DelSem, TypeOK
  <2>2. admin' \in {"idle", "setval", "shm", "delsem"}
    BY <1>3 DEF ShmGet, DelShm, DelSem
  <2>3. UNCHANGED <<made, count, pc, localVars, seen, got, issued, histVars,
                    envVars>>
    BY <1>3 DEF ShmGet, DelShm, DelSem
  <2> QED
    BY <2>1, <2>2, <2>3 DEF TypeOK, localVars, histVars, envVars
<1>4. CASE Tick
  BY <1>4 DEF Tick, TypeOK, semVars, localVars, histVars
<1>5. ASSUME NEW p \in Process, Sigterm(p) PROVE TypeOK'
  <2>1. /\ sem' = sem \/ sem' = sem + 1
        /\ strays' = strays \/ strays' = strays + 1
    BY <1>5 DEF Sigterm
  <2>2. sem' \in Nat /\ strays' \in Nat
    <3>1. sem \in Nat /\ strays \in Nat
      BY DEF TypeOK
    <3> QED
      BY <2>1, <3>1
  <2>3. faults' \in 0 .. MaxFaults
    BY <1>5 DEF Sigterm, TypeOK
  <2>4. Goto(p, "dead") /\ UNCHANGED <<semId, seg, made, count, admin,
            mySem, mySeg, armed, since, seen, got, issued, lost, clock, calls>>
    BY <1>5 DEF Sigterm, localVars
  <2> QED
    BY <2>2, <2>3, <2>4 DEF Goto, TypeOK
<1>6. ASSUME NEW p \in Process, Sigkill(p) PROVE TypeOK'
  <2>1. lost' \in Nat
    BY <1>6 DEF Sigkill, TypeOK
  <2> QED
    BY <1>6, <2>1 DEF Sigkill, Goto, TypeOK, semVars, localVars
<1>7. ASSUME NEW p \in Process, Restart(p) PROVE TypeOK'
  BY <1>7 DEF Restart, Goto, TypeOK, semVars, histVars, envVars
<1>8. CASE UNCHANGED vars
  BY <1>8 DEF vars, TypeOK, semVars, localVars, histVars, envVars
<1> QED
  BY <1>1, <1>2, <1>3, <1>4, <1>5, <1>6, <1>7, <1>8 DEF Next, Admin

\* Every variable keeps its type.
THEOREM TypeCorrect == Spec => []TypeOK
<1>1. TypeOK /\ [Next]_vars => TypeOK'
  BY TypeCall, TypeRest
<1> QED
  BY TypeInit, <1>1, PTL DEF Spec

-----------------------------------------------------------------------------
(* The numbers.                                                            *)

\* A semaphore and the memory made after it belong together: DelMemAccept
\* removes the memory first, and it is made again only after a new semaphore.
SegOfSem ==
    /\ semId # 0 => semId = made
    /\ seg # 0 => seg = semId
    /\ admin \in {"setval", "shm"} => semId # 0
    /\ admin = "delsem" => seg = 0
    /\ \A p \in Process :
          pc[p] \in {"lock", "stamp"} \cup InSection => mySeg[p] = mySem[p]

\* One process at a time in the section of each semaphore, a removed one that
\* it has not noticed yet included.
Exclusive ==
    \A p, q \in Process :
        pc[p] \in InSection /\ pc[q] \in InSection /\ mySem[p] = mySem[q]
        => p = q

\* The process has incremented its counter and still holds the lock.
Past(p) == pc[p] \in {"print", "unlock"}

\* What is read of the counter in the section is its value.
ReadsTrue ==
    \A p \in Process :
        /\ pc[p] = "write" => seen[p] = count[mySeg[p]]
        /\ pc[p] = "unlock" => got[p] = count[mySeg[p]]

\* The counter is above all numbers that have been taken out of the section,
\* except that the last one equals it until the next increment.
IssuedBelow ==
    \A i \in DOMAIN issued :
        /\ issued[i].n <= count[issued[i].seg]
        /\ \A p \in Process : Past(p) /\ mySeg[p] = issued[i].seg =>
               issued[i].n < count[mySeg[p]]

StampsBelow ==
    \A s \in Process : pc[s] = "stamp" =>
        /\ got[s] <= count[mySeg[s]]
        /\ \A p \in Process : Past(p) /\ mySeg[p] = mySeg[s] =>
               got[s] < count[mySeg[p]]

\* The numbers on their way out differ from each other and from the issued
\* ones, and exceed those issued before their call.
StampsNew ==
    \A s \in Process : pc[s] = "stamp" =>
        /\ \A t \in Process :
              pc[t] = "stamp" /\ t # s /\ mySeg[t] = mySeg[s] =>
                  got[t] # got[s]
        /\ \A i \in DOMAIN issued : issued[i].seg = mySeg[s] =>
              /\ issued[i].n # got[s]
              /\ i <= since[s] => issued[i].n < got[s]

\* The times on the numbers are in the order in which they are issued.
TimesGrow ==
    /\ \A i \in DOMAIN issued : issued[i].time <= clock
    /\ \A j \in DOMAIN issued : \A i \in 1 .. j - 1 :
           issued[i].time <= issued[j].time

SincePast == \A p \in Process : since[p] <= Len(issued)

\* What holds of the numbers while there are no strays.
Ordered ==
    /\ Exclusive /\ ReadsTrue /\ IssuedBelow /\ StampsBelow /\ StampsNew

NInv ==
    /\ TypeOK /\ PInv /\ SegOfSem /\ SincePast /\ TimesGrow
    /\ strays = 0 => Ordered
    /\ NumbersGrow

\* What the types say of the numbers.
LEMMA NumberTypes ==
    ASSUME TypeOK
    PROVE  /\ \A g \in Made : count[g] \in Nat
           /\ \A q \in Process : mySeg[q] \in Made /\ got[q] \in Nat
           /\ \A i \in DOMAIN issued :
                 /\ issued[i].seg \in Made /\ issued[i].n \in Nat
                 /\ issued[i].time \in Nat
           /\ clock \in Nat /\ Len(issued) \in Nat
<1>1. \A i \in DOMAIN issued : issued[i] \in Number
  BY DEF TypeOK
<1>2. \A r \in Number : r.seg \in Made /\ r.n \in Nat /\ r.time \in Nat
  BY MemAcceptAssumption DEF Number
<1>3. \A i \in DOMAIN issued :
          /\ issued[i].seg \in Made /\ issued[i].n \in Nat
          /\ issued[i].time \in Nat
  BY <1>1, <1>2
<1> QED
  BY <1>3, MemAcceptAssumption DEF TypeOK

\* The strays only grow, so that what is shown of a step without strays may
\* use that there were none before it.
LEMMA StraysGrow ==
    ASSUME TypeOK, [Next]_vars, strays' = 0 PROVE strays = 0
<1>1. CASE SemSetVal
  BY <1>1, HoldersFinite DEF SemSetVal, TypeOK
<1>2. ASSUME NEW p \in Process, Sigterm(p) PROVE strays = 0
  BY <1>2 DEF Sigterm, TypeOK
<1>3. CASE strays' = strays
  BY <1>3
<1> QED
  BY <1>1, <1>2, <1>3
     DEF Next, Admin, Call, OpenFails, Open, Lock, ReadCount, WriteCount,
         PrintCount, Unlock, SemGone, Stamp, SemGet, ShmGet, DelShm, DelSem,
         Sigkill, Restart, Tick, vars, histVars

\* Every step keeps each process's memory the one of its semaphore.
LEMMA SegOfSemStep ==
    ASSUME TypeOK, SegOfSem, SemKnown, [Next]_vars PROVE SegOfSem'
<1> USE DEF TypeOK, SegOfSem
<1>1. ASSUME NEW p \in Process, Open(p) PROVE SegOfSem'
  BY <1>1 DEF Open, Goto, InSection, semVars
<1>2. ASSUME NEW p \in Process, NEW place, Goto(p, place),
             place \in {"idle", "dead"} \/
                 (place \in {"stamp"} \cup InSection /\
                  pc[p] \in {"lock"} \cup InSection),
             UNCHANGED <<semId, seg, made, admin, mySem, mySeg>>
      PROVE  SegOfSem'
  <2>1. \A q \in Process :
            pc'[q] \in {"lock", "stamp"} \cup InSection =>
                pc[q] \in {"lock", "stamp"} \cup InSection
    BY <1>2 DEF Goto, InSection
  <2> QED
    BY <1>2, <2>1
<1>3. CASE Admin
  <2>1. pc' = pc /\ mySem' = mySem /\ mySeg' = mySeg
    BY <1>3 DEF Admin, SemGet, SemSetVal, ShmGet, DelShm, DelSem, localVars
  <2>2. CASE SemGet
    BY <2>1, <2>2 DEF SemGet, SemKnown
  <2>3. CASE SemSetVal
    BY <2>1, <2>3 DEF SemSetVal
  <2>4. CASE ShmGet
    BY <2>1, <2>4 DEF ShmGet
  <2>5. CASE DelShm
    BY <2>1, <2>5 DEF DelShm
  <2>6. CASE DelSem
    BY <2>1, <2>6 DEF DelSem
  <2> QED
    BY <1>3, <2>2, <2>3, <2>4, <2>5, <2>6 DEF Admin
<1>4. CASE Tick \/ UNCHANGED vars
  BY <1>4 DEF Tick, vars, semVars, localVars
<1>5. ASSUME NEW p \in Process, Call(p), ~Open(p) PROVE SegOfSem'
  <2>1. CASE OpenFails(p) \/ SemGone(p)
    BY <2>1, <1>2 DEF OpenFails, SemGone, ReturnsNull, semVars, localVars
  <2>2. CASE Lock(p) \/ ReadCount(p) \/ WriteCount(p) \/ PrintCount(p)
    BY <2>2, <1>2 DEF Lock, ReadCount, WriteCount, PrintCount, InSection,
                      semVars, localVars
  <2>3. CASE Unlock(p)
    BY <2>3, <1>2 DEF Unlock, InSection, semVars, localVars
  <2>4. CASE Stamp(p)
    BY <2>4, <1>2 DEF Stamp, semVars, localVars
  <2> QED
    BY <1>5, <2>1, <2>2, <2>3, <2>4 DEF Call
<1>6. ASSUME NEW p \in Process, Sigterm(p) \/ Sigkill(p) \/ Restart(p)
      PROVE  SegOfSem'
  BY <1>6, <1>2 DEF Sigterm, Sigkill, Restart, semVars, localVars
<1> QED
  BY <1>1, <1>3, <1>4, <1>5, <1>6 DEF Next

-----------------------------------------------------------------------------
(* The steps without strays.                                               *)

\* A process that goes to a place without a number, with its own variables or
\* none changed, leaves the order as it is.
LEMMA OrderedAside ==
    ASSUME TypeOK, Ordered, NEW p \in Process, NEW place \in {"idle", "dead",
           "lock"}, Goto(p, place), UNCHANGED <<count, seen, got, issued>>,
           \A q \in Process \ {p} :
               mySem'[q] = mySem[q] /\ mySeg'[q] = mySeg[q]
                   /\ since'[q] = since[q]
    PROVE  Ordered'
<1>1. /\ pc'[p] = place
      /\ \A q \in Process \ {p} : pc'[q] = pc[q]
  BY DEF Goto, TypeOK
<1>2. \A q \in Process :
          pc'[q] \in InSection \cup {"stamp"} =>
              /\ q # p /\ pc'[q] = pc[q] /\ mySem'[q] = mySem[q]
              /\ mySeg'[q] = mySeg[q] /\ since'[q] = since[q]
  BY <1>1 DEF InSection
<1>3. Exclusive'
  BY <1>2 DEF Ordered, Exclusive, InSection
<1>4. ReadsTrue'
  BY <1>2 DEF Ordered, ReadsTrue, InSection
<1>5. IssuedBelow'
  BY <1>2 DEF Ordered, IssuedBelow, Past, InSection
<1>6. StampsBelow'
  BY <1>2 DEF Ordered, StampsBelow, Past, InSection
<1>7. StampsNew'
  BY <1>2 DEF Ordered, StampsNew, InSection
<1> QED
  BY <1>3, <1>4, <1>5, <1>6, <1>7 DEF Ordered

\* Steps that touch nothing of it.
LEMMA OrderedSame ==
    ASSUME Ordered,
           UNCHANGED <<pc, count, mySem, mySeg, seen, got, since, issued>>
    PROVE  Ordered'
BY DEF Ordered, Exclusive, ReadsTrue, IssuedBelow, StampsBelow, StampsNew, Past

\* Moves within the section keep it exclusive.
LEMMA ExclusiveMoves ==
    ASSUME TypeOK, Exclusive, NEW p \in Process, NEW place, Goto(p, place),
           pc[p] \in InSection \/ place \notin InSection, mySem' = mySem
    PROVE  Exclusive'
BY DEF Exclusive, Goto, TypeOK

\* A lock that is free has nobody in its section, for no permit is in the
\* section then; this is where PermitsAccounted is needed.
LEMMA LockOrdered ==
    ASSUME TypeOK, PInv, Ordered, strays = 0, NEW p \in Process, Lock(p)
    PROVE  Ordered'
<1>1. /\ Goto(p, "read") /\ pc[p] = "lock" /\ mySem[p] = semId /\ sem > 0
      /\ UNCHANGED <<count, mySem, mySeg, seen, got, since, issued>>
  BY DEF Lock, localVars
<1>2. Holders = {}
  <2>1. Cardinality(Holders) = 0
    BY <1>1, HoldersFinite DEF PInv, PermitsAccounted
  <2> QED
    BY <2>1, HoldersFinite, FS_EmptySet
<1>3. \A q \in Process : pc[q] \in InSection => mySem[q] # semId
  BY <1>2 DEF Holders
<1>4. /\ pc'[p] = "read"
      /\ \A q \in Process \ {p} : pc'[q] = pc[q]
  BY <1>1 DEF Goto, TypeOK
<1>5. Exclusive'
  BY <1>1, <1>3, <1>4 DEF Ordered, Exclusive
<1>6. ReadsTrue'
  BY <1>1, <1>4 DEF Ordered, ReadsTrue
<1>7. \A q \in Process : (Past(q)' => Past(q)) /\
          (pc'[q] = "stamp" => pc[q] = "stamp")
  BY <1>4 DEF Past
<1>8. IssuedBelow' /\ StampsBelow' /\ StampsNew'
  BY <1>1, <1>7 DEF Ordered, IssuedBelow, StampsBelow, StampsNew
<1> QED
  BY <1>5, <1>6, <1>8 DEF Ordered

\* What is read in the section is the counter.
LEMMA ReadOrdered ==
    ASSUME TypeOK, Ordered, NEW p \in Process, ReadCount(p)
    PROVE  Ordered'
<1>1. /\ Goto(p, "write") /\ pc[p] = "read"
      /\ seen' = [seen EXCEPT ![p] = count[mySeg[p]]]
      /\ UNCHANGED <<count, mySem, mySeg, got, since, issued>>
  BY DEF ReadCount, localVars
<1>2. /\ pc'[p] = "write"
      /\ \A q \in Process \ {p} : pc'[q] = pc[q] /\ seen'[q] = seen[q]
      /\ seen'[p] = count[mySeg[p]]
  BY <1>1 DEF Goto, TypeOK
<1>3. Exclusive'
  BY <1>1, ExclusiveMoves DEF Ordered, InSection
<1>4. ReadsTrue'
  BY <1>1, <1>2 DEF Ordered, ReadsTrue
<1>5. \A q \in Process : (Past(q)' => Past(q)) /\
          (pc'[q] = "stamp" => pc[q] = "stamp")
  BY <1>2 DEF Past
<1>6. IssuedBelow' /\ StampsBelow' /\ StampsNew'
  BY <1>1, <1>5 DEF Ordered, IssuedBelow, StampsBelow, StampsNew
<1> QED
  BY <1>3, <1>4, <1>6 DEF Ordered

\* The increment: nobody else is in the section of this memory, and the
\* counter goes above every number that has left it.
LEMMA WriteOrdered ==
    ASSUME TypeOK, SegOfSem, Ordered, NEW p \in Process, WriteCount(p)
    PROVE  Ordered'
<1>1. /\ Goto(p, "print") /\ pc[p] = "write"
      /\ count' = [count EXCEPT ![mySeg[p]] = seen[p] + 1]
      /\ UNCHANGED <<mySem, mySeg, seen, got, since, issued>>
  BY DEF WriteCount, localVars
<1>2. /\ pc'[p] = "print"
      /\ \A q \in Process \ {p} : pc'[q] = pc[q]
  BY <1>1 DEF Goto, TypeOK
<1>3. seen[p] = count[mySeg[p]]
  BY <1>1 DEF Ordered, ReadsTrue
<1>4. /\ count'[mySeg[p]] = count[mySeg[p]] + 1
      /\ \A g \in Made \ {mySeg[p]} : count'[g] = count[g]
      /\ \A g \in Made : count[g] \in Nat
      /\ \A q \in Process : mySeg[q] \in Made /\ got[q] \in Nat
      /\ \A i \in DOMAIN issued : issued[i].seg \in Made /\ issued[i].n \in Nat
  <2>1. count \in [Made -> Nat] /\ mySeg[p] \in Made
    BY DEF TypeOK
  <2> QED
    BY <1>1, <1>3, <2>1, NumberTypes
<1>5. \A q \in Process \ {p} : pc[q] \in InSection => mySeg[q] # mySeg[p]
  BY <1>1 DEF SegOfSem, Ordered, Exclusive, InSection
<1>6. Exclusive'
  BY <1>1, ExclusiveMoves DEF Ordered, InSection
<1>7. ReadsTrue'
  BY <1>1, <1>2, <1>4, <1>5 DEF Ordered, ReadsTrue, InSection
<1>8. IssuedBelow'
  BY <1>1, <1>2, <1>4, <1>5 DEF Ordered, IssuedBelow, Past, InSection
<1>9. StampsBelow'
  BY <1>1, <1>2, <1>4, <1>5 DEF Ordered, StampsBelow, Past, InSection
<1>10. StampsNew'
  BY <1>1, <1>2 DEF Ordered, StampsNew
<1> QED
  BY <1>6, <1>7, <1>8, <1>9, <1>10 DEF Ordered

\* What is printed in the section is the counter.
LEMMA PrintOrdered ==
    ASSUME TypeOK, Ordered, NEW p \in Process, PrintCount(p)
    PROVE  Ordered'
<1>1. /\ Goto(p, "unlock") /\ pc[p] = "print"
      /\ got' = [got EXCEPT ![p] = count[mySeg[p]]]
      /\ UNCHANGED <<count, mySem, mySeg, seen, since, issued>>
  BY DEF PrintCount, localVars
<1>2. /\ pc'[p] = "unlock"
      /\ \A q \in Process \ {p} : pc'[q] = pc[q] /\ got'[q] = got[q]
      /\ got'[p] = count[mySeg[p]]
  BY <1>1 DEF Goto, TypeOK
<1>3. Exclusive'
  BY <1>1, ExclusiveMoves DEF Ordered, InSection
<1>4. ReadsTrue'
  BY <1>1, <1>2 DEF Ordered, ReadsTrue
<1>5. \A q \in Process : Past(q)' => Past(q)
  BY <1>1, <1>2 DEF Past
<1>6. \A q \in Process : pc'[q] = "stamp" => q # p /\ pc[q] = "stamp"
  BY <1>2
<1>7. IssuedBelow'
  BY <1>1, <1>5 DEF Ordered, IssuedBelow
<1>8. StampsBelow'
  BY <1>1, <1>2, <1>5, <1>6 DEF Ordered, StampsBelow
<1>9. StampsNew'
  BY <1>1, <1>2, <1>6 DEF Ordered, StampsNew
<1> QED
  BY <1>3, <1>4, <1>7, <1>8, <1>9 DEF Ordered

\* The number leaves the section: it is the counter, above all the others.
LEMMA UnlockOrdered ==
    ASSUME TypeOK, SegOfSem, Ordered, NEW p \in Process, Unlock(p)
    PROVE  Ordered'
<1>1. /\ Goto(p, "stamp") /\ pc[p] = "unlock"
      /\ UNCHANGED <<count, mySem, mySeg, seen, got, since, issued>>
  BY DEF Unlock, localVars
<1>2. /\ pc'[p] = "stamp"
      /\ \A q \in Process \ {p} : pc'[q] = pc[q]
  BY <1>1 DEF Goto, TypeOK
<1>3. got[p] = count[mySeg[p]] /\ Past(p)
  BY <1>1 DEF Ordered, ReadsTrue, Past
<1>4. /\ \A g \in Made : count[g] \in Nat
      /\ \A q \in Process : mySeg[q] \in Made /\ got[q] \in Nat
      /\ \A i \in DOMAIN issued : issued[i].seg \in Made /\ issued[i].n \in Nat
  BY NumberTypes
<1>5. \A q \in Process \ {p} : Past(q) => mySeg[q] # mySeg[p]
  BY <1>1 DEF SegOfSem, Ordered, Exclusive, Past, InSection
<1>6. Exclusive'
  BY <1>1, ExclusiveMoves DEF Ordered, InSection
<1>7. ReadsTrue'
  BY <1>1, <1>2 DEF Ordered, ReadsTrue
<1>8. \A q \in Process : Past(q)' => Past(q) /\ q # p
  BY <1>2 DEF Past
<1>9. IssuedBelow'
  BY <1>1, <1>8 DEF Ordered, IssuedBelow
<1>10. StampsBelow'
  BY <1>1, <1>2, <1>3, <1>4, <1>5, <1>8 DEF Ordered, StampsBelow
<1>11. \A i \in DOMAIN issued : issued[i].seg = mySeg[p] =>
           issued[i].n < got[p]
  BY <1>3 DEF Ordered, IssuedBelow
<1>12. \A t \in Process : pc[t] = "stamp" /\ mySeg[t] = mySeg[p] =>
           got[t] < got[p]
  BY <1>3 DEF Ordered, StampsBelow
<1>13. StampsNew'
  BY <1>1, <1>2, <1>4, <1>11, <1>12 DEF Ordered, StampsNew
<1> QED
  BY <1>6, <1>7, <1>9, <1>10, <1>13 DEF Ordered

\* What Stamp appends, and what it leaves.
LEMMA StampRow ==
    ASSUME TypeOK, NEW p \in Process, Stamp(p)
    PROVE  LET L == Len(issued) IN
           /\ L \in Nat
           /\ DOMAIN issued = 1 .. L /\ DOMAIN issued' = 1 .. L + 1
           /\ Len(issued') = L + 1
           /\ \A i \in 1 .. L : issued'[i] = issued[i]
           /\ issued'[L + 1] = [time |-> clock, n |-> got[p],
                                seg |-> mySeg[p], since |-> since[p]]
BY DEF Stamp, TypeOK

\* A number on its way out becomes an issued one.
LEMMA StampOrdered ==
    ASSUME TypeOK, SincePast, Ordered, NEW p \in Process, Stamp(p)
    PROVE  Ordered'
<1>1. /\ Goto(p, "idle") /\ pc[p] = "stamp"
      /\ UNCHANGED <<count, mySem, mySeg, seen, got, since>>
  BY DEF Stamp, localVars
<1>2. \A q \in Process : pc'[q] # "idle" => q # p /\ pc'[q] = pc[q]
  BY <1>1 DEF Goto, TypeOK
<1> DEFINE L == Len(issued)
<1>3. /\ L \in Nat
      /\ DOMAIN issued = 1 .. L /\ DOMAIN issued' = 1 .. L + 1
      /\ \A i \in 1 .. L : issued'[i] = issued[i]
      /\ issued'[L + 1].n = got[p] /\ issued'[L + 1].seg = mySeg[p]
  <2>1. issued'[L + 1] = [time |-> clock, n |-> got[p], seg |-> mySeg[p],
                          since |-> since[p]]
    BY StampRow
  <2>2. issued'[L + 1].n = got[p] /\ issued'[L + 1].seg = mySeg[p]
    BY <2>1
  <2> QED
    BY <2>2, StampRow
<1>4. \A q \in Process : since[q] \in Nat /\ since[q] <= L
  BY DEF SincePast, TypeOK
<1> HIDE DEF L
<1>5. \A i \in DOMAIN issued' : i \in DOMAIN issued \/ i = L + 1
  BY <1>3
<1>6. Exclusive'
  BY <1>1, ExclusiveMoves DEF Ordered, InSection
<1>7. ReadsTrue'
  BY <1>1, <1>2 DEF Ordered, ReadsTrue
<1>8. \A q \in Process : Past(q)' => Past(q)
  BY <1>2 DEF Past
<1>9. IssuedBelow'
  <2> SUFFICES ASSUME NEW i \in DOMAIN issued'
               PROVE  (/\ issued[i].n <= count[issued[i].seg]
                       /\ \A q \in Process :
                             Past(q) /\ mySeg[q] = issued[i].seg =>
                                 issued[i].n < count[mySeg[q]])'
    BY DEF IssuedBelow
  <2>1. CASE i \in DOMAIN issued
    BY <1>1, <1>3, <1>8, <2>1 DEF Ordered, IssuedBelow
  <2>2. CASE i = L + 1
    BY <1>1, <1>3, <1>8, <2>2 DEF Ordered, StampsBelow
  <2> QED
    BY <1>5, <2>1, <2>2
<1>10. StampsBelow'
  BY <1>1, <1>2, <1>8 DEF Ordered, StampsBelow
<1>11. StampsNew'
  <2> SUFFICES ASSUME NEW s \in Process, pc'[s] = "stamp"
               PROVE  (/\ \A t \in Process :
                             pc[t] = "stamp" /\ t # s /\ mySeg[t] = mySeg[s] =>
                                 got[t] # got[s]
                       /\ \A i \in DOMAIN issued : issued[i].seg = mySeg[s] =>
                             /\ issued[i].n # got[s]
                             /\ i <= since[s] => issued[i].n < got[s])'
    BY DEF StampsNew
  <2>1. s # p /\ pc[s] = "stamp"
    BY <1>2
  <2>2. (\A t \in Process :
            pc[t] = "stamp" /\ t # s /\ mySeg[t] = mySeg[s] =>
                got[t] # got[s])'
    BY <1>1, <1>2, <2>1 DEF Ordered, StampsNew
  <2>3. ASSUME NEW i \in DOMAIN issued', issued'[i].seg = mySeg[s]
        PROVE  /\ issued'[i].n # got[s]
               /\ i <= since[s] => issued'[i].n < got[s]
    <3>1. CASE i \in DOMAIN issued
      BY <1>3, <2>1, <2>3, <3>1 DEF Ordered, StampsNew
    <3>2. CASE i = L + 1
      <4>1. issued'[i].n # got[s]
        BY <1>1, <1>3, <2>1, <2>3, <3>2 DEF Ordered, StampsNew
      <4>2. ~(i <= since[s])
        BY <1>3, <1>4, <3>2
      <4> QED
        BY <4>1, <4>2
    <3> QED
      BY <1>5, <3>1, <3>2
  <2> QED
    BY <1>1, <2>2, <2>3
<1> QED
  BY <1>6, <1>7, <1>9, <1>10, <1>11 DEF Ordered

\* Without strays every step keeps the order.
LEMMA OrderedStep ==
    ASSUME NInv, Ordered, strays = 0, [Next]_vars PROVE Ordered'
<1> USE DEF NInv
<1>1. ASSUME NEW p \in Process, OpenFails(p) \/ SemGone(p) PROVE Ordered'
  BY <1>1, OrderedAside DEF OpenFails, SemGone, ReturnsNull, localVars
<1>2. ASSUME NEW p \in Process, Open(p) PROVE Ordered'
  <2>1. \A q \in Process \ {p} :
            mySem'[q] = mySem[q] /\ mySeg'[q] = mySeg[q]
                /\ since'[q] = since[q]
    BY <1>2 DEF Open, TypeOK
  <2> QED
    BY <1>2, <2>1, OrderedAside DEF Open
<1>3. ASSUME NEW p \in Process, Call(p) PROVE Ordered'
  BY <1>1, <1>2, <1>3, LockOrdered, ReadOrdered, WriteOrdered, PrintOrdered,
     UnlockOrdered, StampOrdered DEF Call
<1>4. ASSUME NEW p \in Process, Sigterm(p) \/ Sigkill(p) \/ Restart(p)
      PROVE  Ordered'
  BY <1>4, OrderedAside DEF Sigterm, Sigkill, Restart, localVars
<1>5. CASE Admin \/ Tick \/ UNCHANGED vars
  BY <1>5, OrderedSame
     DEF Admin, SemGet, SemSetVal, ShmGet, DelShm, DelSem, Tick, vars,
         localVars
<1> QED
  BY <1>3, <1>4, <1>5 DEF Next

-----------------------------------------------------------------------------
(* The numbers that are issued.                                            *)

\* What a step does to them: nothing, or Stamp.
LEMMA IssuedStep ==
    ASSUME TypeOK, [Next]_vars
    PROVE  \/ \E p \in Process : Stamp(p)
           \/ /\ issued' = issued
              /\ clock <= clock'
              /\ \A q \in Process :
                    since'[q] = since[q] \/ since'[q] = Len(issued)
<1>1. ASSUME NEW p \in Process, Open(p)
      PROVE  /\ issued' = issued /\ clock' = clock
             /\ \A q \in Process :
                   since'[q] = since[q] \/ since'[q] = Len(issued)
  BY <1>1 DEF Open, TypeOK
<1>2. CASE Tick
  BY <1>2 DEF Tick, TypeOK, localVars
<1>3. CASE issued' = issued /\ clock' = clock /\ since' = since
  BY <1>3 DEF TypeOK
<1>4. clock \in Int
  BY DEF TypeOK
<1> QED
  BY <1>1, <1>2, <1>3, <1>4
     DEF Next, Admin, Call, OpenFails, Lock, ReadCount, WriteCount, PrintCount,
         Unlock, SemGone, SemGet, SemSetVal, ShmGet, DelShm, DelSem, Sigterm,
         Sigkill, Restart, vars, localVars, envVars

\* The clock only goes on, and Stamp reads it when it issues.
LEMMA TimesStep ==
    ASSUME TypeOK, TypeOK', SincePast, TimesGrow, [Next]_vars
    PROVE  SincePast' /\ TimesGrow'
<1>1. ASSUME NEW p \in Process, Stamp(p) PROVE SincePast' /\ TimesGrow'
  <2>1. clock' = clock /\ since' = since
    BY <1>1 DEF Stamp, localVars, envVars
  <2> DEFINE L == Len(issued)
  <2>2. /\ L \in Nat
        /\ DOMAIN issued = 1 .. L /\ DOMAIN issued' = 1 .. L + 1
        /\ Len(issued') = L + 1
        /\ \A i \in 1 .. L : issued'[i] = issued[i]
        /\ issued'[L + 1].time = clock
    <3>1. issued'[L + 1] = [time |-> clock, n |-> got[p], seg |-> mySeg[p],
                            since |-> since[p]]
      BY <1>1, StampRow
    <3>2. issued'[L + 1].time = clock
      BY <3>1
    <3> QED
      BY <1>1, <3>2, StampRow
  <2>3. /\ clock \in Nat
        /\ \A q \in Process : since[q] \in Nat /\ since[q] <= L
    BY DEF SincePast, TypeOK
  <2> HIDE DEF L
  <2>4. SincePast'
    BY <2>1, <2>2, <2>3 DEF SincePast
  <2>5. \A i \in DOMAIN issued' : i \in 1 .. L \/ i = L + 1
    BY <2>2
  <2>6. \A i \in DOMAIN issued' : issued'[i].time <= clock
    BY <2>2, <2>3, <2>5 DEF TimesGrow
  <2>7. ASSUME NEW j \in DOMAIN issued', NEW i \in 1 .. j - 1
        PROVE  issued'[i].time <= issued'[j].time
    <3>1. CASE j \in 1 .. L
      <4>1. i \in 1 .. L
        BY <2>2, <3>1
      <4> QED
        BY <2>2, <3>1, <4>1 DEF TimesGrow
    <3>2. CASE j = L + 1
      <4>1. i \in 1 .. L
        BY <2>2, <3>2
      <4> QED
        BY <2>2, <2>6, <3>2, <4>1
    <3> QED
      BY <2>5, <3>1, <3>2
  <2> QED
    BY <2>1, <2>4, <2>6, <2>7 DEF TimesGrow
<1>2. ASSUME issued' = issued, clock <= clock',
             \A q \in Process :
                 since'[q] = since[q] \/ since'[q] = Len(issued)
      PROVE  SincePast' /\ TimesGrow'
  <2>1. /\ clock \in Nat /\ clock' \in Nat /\ Len(issued) \in Nat
        /\ \A i \in DOMAIN issued : issued[i].time \in Nat
    <3>1. clock' \in Nat
      BY DEF TypeOK
    <3> QED
      BY <3>1, NumberTypes
  <2>2. SincePast'
    BY <1>2, <2>1 DEF SincePast
  <2>3. TimesGrow'
    BY <1>2, <2>1 DEF TimesGrow
  <2> QED
    BY <2>2, <2>3
<1> QED
  BY <1>1, <1>2, IssuedStep

\* The number that is issued compares with all before it as it should.
LEMMA NumbersStep ==
    ASSUME NInv, [Next]_vars PROVE NumbersGrow'
<1> SUFFICES ASSUME strays' = 0, NEW j \in DOMAIN issued',
                    NEW i \in 1 .. j - 1
             PROVE  (/\ issued[i].seg = issued[j].seg =>
                            issued[i].n # issued[j].n
                     /\ i <= issued[j].since =>
                           /\ issued[i].time <= issued[j].time
                           /\ issued[i].seg = issued[j].seg =>
                                  issued[i].n < issued[j].n)'
  BY DEF NumbersGrow
<1>1. strays = 0 /\ Ordered
  BY StraysGrow DEF NInv
<1>2. ASSUME NEW p \in Process, Stamp(p)
      PROVE  (/\ issued[i].seg = issued[j].seg => issued[i].n # issued[j].n
              /\ i <= issued[j].since =>
                    /\ issued[i].time <= issued[j].time
                    /\ issued[i].seg = issued[j].seg =>
                           issued[i].n < issued[j].n)'
  <2> DEFINE L == Len(issued)
  <2>1. /\ L \in Nat
        /\ DOMAIN issued = 1 .. L /\ DOMAIN issued' = 1 .. L + 1
        /\ \A k \in 1 .. L : issued'[k] = issued[k]
        /\ issued'[L + 1] = [time |-> clock, n |-> got[p],
                             seg |-> mySeg[p], since |-> since[p]]
    BY <1>2, StampRow DEF NInv
  <2> HIDE DEF L
  <2>2. i \in 1 .. L /\ issued'[i] = issued[i]
    BY <2>1
  <2>3. CASE j \in 1 .. L
    <3>1. issued'[j] = issued[j] /\ j \in DOMAIN issued
      BY <2>1, <2>3
    <3> QED
      BY <1>1, <2>2, <3>1 DEF NInv, NumbersGrow
  <2>4. CASE j = L + 1
    <3>1. issued[i].time <= clock
      BY <2>1, <2>2 DEF NInv, TimesGrow
    <3>2. issued[i].seg = mySeg[p] =>
              /\ issued[i].n # got[p]
              /\ i <= since[p] => issued[i].n < got[p]
      BY <1>1, <1>2, <2>1, <2>2 DEF Ordered, StampsNew, Stamp
    <3> QED
      BY <2>1, <2>2, <2>4, <3>1, <3>2
  <2> QED
    BY <2>1, <2>3, <2>4
<1>3. CASE issued' = issued
  BY <1>1, <1>3 DEF NInv, NumbersGrow
<1> QED
  BY <1>2, <1>3, IssuedStep DEF NInv

\* At first no number is issued.
LEMMA InitNumbers == Init => NInv
<1> SUFFICES ASSUME Init PROVE NInv
  OBVIOUS
<1>1. issued = <<>> /\ DOMAIN issued = {} /\ Len(issued) = 0
  BY DEF Init
<1>2. SegOfSem
  BY DEF Init, SegOfSem, InSection
<1>3. SincePast /\ TimesGrow /\ NumbersGrow
  BY <1>1 DEF Init, SincePast, TimesGrow, NumbersGrow
<1>4. Ordered
  BY <1>1 DEF Init, Ordered, Exclusive, ReadsTrue, IssuedBelow, StampsBelow,
              StampsNew, InSection
<1> QED
  BY <1>2, <1>3, <1>4, TypeInit, InitPermits DEF NInv

\* Without a stray permit the numbers of one memory are all different, and a
\* call that begins after another has returned gets the greater number and no
\* smaller time.
THEOREM NumbersGrowHolds == Spec => []NumbersGrow
<1>1. NInv /\ [Next]_vars => NInv'
  <2> SUFFICES ASSUME NInv, [Next]_vars PROVE NInv'
    OBVIOUS
  <2>1. TypeOK'
    BY TypeCall, TypeRest DEF NInv
  <2>2. PInv'
    BY PermitsStep DEF NInv
  <2>3. SegOfSem'
    BY SegOfSemStep DEF NInv, PInv
  <2>4. SincePast' /\ TimesGrow'
    BY <2>1, TimesStep DEF NInv
  <2>5. strays' = 0 => Ordered'
    BY StraysGrow, OrderedStep DEF NInv
  <2> QED
    BY <2>1, <2>2, <2>3, <2>4, <2>5, NumbersStep DEF NInv
<1>2. NInv => NumbersGrow
  BY DEF NInv
<1> QED
  BY InitNumbers, <1>1, <1>2, PTL DEF Spec
=============================================================================
