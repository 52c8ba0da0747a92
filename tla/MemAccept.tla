------------------------------ MODULE MemAccept ------------------------------
(***************************************************************************)
(* The serial numbers of client/s_public.c: GetMemAccept takes a number    *)
(* from a counter in shared memory under a System V semaphore and puts the *)
(* time in front of it.  The semaphore is used without SEM_UNDO; instead   *)
(* the SIGTERM handler Quit releases it.  CreatMemAccept (s_public_InitShm)*)
(* makes the two and DelMemAccept (s_public_DelShm) removes them, while    *)
(* the services that call GetMemAccept run.                                *)
(***************************************************************************)
EXTENDS Integers, Sequences, FiniteSets

CONSTANTS Process,    \* service processes
          MaxCalls,   \* bound on calls of GetMemAccept, far below the 2^31
                      \* numbers that %d can print
          MaxTime,    \* bound on the clock, in seconds
          MaxMade,    \* bound on creations of the semaphore and the memory
          MaxFaults   \* bound on SIGTERM and SIGKILL

ASSUME MemAcceptAssumption ==
    /\ IsFiniteSet(Process)
    /\ MaxCalls \in Nat /\ MaxTime \in Nat
    /\ MaxMade \in Nat /\ MaxFaults \in Nat

VARIABLES
    semId,   \* the semaphore: 0 while there is none
    sem,     \* its value
    seg,     \* the shared memory: 0 while there is none
    made,    \* creations so far
    count,   \* shmp->count of each memory that was ever made
    admin,   \* where the administrator's program is
    pc,      \* where each process is in GetMemAccept
    mySem,   \* sig_semid
    mySeg,   \* sig_shmp
    armed,   \* the process has installed Quit
    seen,    \* the count a process has read to increment it
    got,     \* temp: the number a process has printed
    since,   \* numbers issued when the process made its call
    clock,   \* time()
    issued,  \* the numbers issued, in the order of the calls' returns
    calls,
    strays,  \* releases of a lock that was not held, and SETVALs while it was
    lost,    \* processes killed between lock and unlock
    faults

semVars == <<semId, sem, seg, made>>
localVars == <<mySem, mySeg, armed, since>>
envVars == <<clock, calls, faults>>
histVars == <<strays, lost>>
vars == <<semVars, count, admin, pc, localVars, seen, got, issued, histVars,
          envVars>>

-----------------------------------------------------------------------------
Made == 0 .. MaxMade
Number == [time : 0 .. MaxTime, n : Nat, seg : Made, since : Nat]
InSection == {"read", "write", "print", "unlock"}

TypeOK ==
    /\ semId \in Made /\ seg \in Made /\ made \in Made
    /\ sem \in Nat
    /\ count \in [Made -> Nat]
    /\ admin \in {"idle", "setval", "shm", "delsem"}
    /\ pc \in [Process -> {"idle", "lock", "stamp", "dead"} \cup InSection]
    /\ mySem \in [Process -> Made]
    /\ mySeg \in [Process -> Made]
    /\ armed \in [Process -> BOOLEAN]
    /\ seen \in [Process -> Nat]
    /\ got \in [Process -> Nat]
    /\ since \in [Process -> Nat]
    /\ clock \in 0 .. MaxTime
    /\ issued \in Seq(Number)
    /\ calls \in 0 .. MaxCalls
    /\ strays \in Nat /\ lost \in Nat
    /\ faults \in 0 .. MaxFaults

\* Before the first CreatMemAccept.
Init ==
    /\ semId = 0 /\ sem = 0 /\ seg = 0 /\ made = 0
    /\ count = [g \in Made |-> 0]
    /\ admin = "idle"
    /\ pc = [p \in Process |-> "idle"]
    /\ mySem = [p \in Process |-> 0]
    /\ mySeg = [p \in Process |-> 0]
    /\ armed = [p \in Process |-> FALSE]
    /\ seen = [p \in Process |-> 0]
    /\ got = [p \in Process |-> 0]
    /\ since = [p \in Process |-> 0]
    /\ clock = 0
    /\ issued = <<>>
    /\ calls = 0
    /\ strays = 0 /\ lost = 0
    /\ faults = 0

\* The processes between lock and unlock of the present semaphore.
Holders == {p \in Process : pc[p] \in InSection /\ mySem[p] = semId}

Goto(p, place) == pc' = [pc EXCEPT ![p] = place]

\* GetMemAccept returns NULL and its caller copies the string there: with
\* page zero readable an empty string, which is an error return, else the end.
ReturnsNull(p) == \E place \in {"idle", "dead"} : Goto(p, place)

-----------------------------------------------------------------------------
(* GetMemAccept.                                                           *)

OpenFails(p) ==
    /\ pc[p] = "idle"
    /\ calls < MaxCalls
    /\ semId = 0 \/ seg = 0
    /\ calls' = calls + 1
    /\ ReturnsNull(p)
    /\ UNCHANGED <<semVars, count, admin, localVars, seen, got, issued,
                   histVars, clock, faults>>

Open(p) ==
    /\ pc[p] = "idle"
    /\ calls < MaxCalls
    /\ semId # 0 /\ seg # 0
    /\ calls' = calls + 1
    /\ mySem' = [mySem EXCEPT ![p] = semId]
    /\ mySeg' = [mySeg EXCEPT ![p] = seg]
    /\ armed' = [armed EXCEPT ![p] = TRUE]
    /\ since' = [since EXCEPT ![p] = Len(issued)]
    /\ Goto(p, "lock")
    /\ UNCHANGED <<semVars, count, admin, seen, got, issued, histVars, clock,
                   faults>>

\* Mutant: the process goes on when the semaphore is taken.
LockNoWait(p) ==
    /\ pc[p] = "lock"
    /\ mySem[p] = semId
    /\ sem' = IF sem > 0 THEN sem - 1 ELSE 0
    /\ Goto(p, "read")
    /\ UNCHANGED <<semId, seg, made, count, admin, localVars, seen, got,
                   issued, histVars, envVars>>

\* Nsm_sem_lock tries again when a signal interrupts it.
Lock(p) ==
    /\ pc[p] = "lock"
    /\ mySem[p] = semId
    /\ sem > 0
    /\ sem' = sem - 1
    /\ Goto(p, "read")
    /\ UNCHANGED <<semId, seg, made, count, admin, localVars, seen, got,
                   issued, histVars, envVars>>

\* shmp->count++ reads, then writes; the print reads once more.
ReadCount(p) ==
    /\ pc[p] = "read"
    /\ seen' = [seen EXCEPT ![p] = count[mySeg[p]]]
    /\ Goto(p, "write")
    /\ UNCHANGED <<semVars, count, admin, localVars, got, issued, histVars,
                   envVars>>

\* Mutant: the counter goes down.
WriteCountDown(p) ==
    /\ pc[p] = "write"
    /\ count' = [count EXCEPT ![mySeg[p]] = seen[p] - 1]
    /\ Goto(p, "print")
    /\ UNCHANGED <<semVars, admin, localVars, seen, got, issued, histVars,
                   envVars>>

WriteCount(p) ==
    /\ pc[p] = "write"
    /\ count' = [count EXCEPT ![mySeg[p]] = seen[p] + 1]
    /\ Goto(p, "print")
    /\ UNCHANGED <<semVars, admin, localVars, seen, got, issued, histVars,
                   envVars>>

PrintCount(p) ==
    /\ pc[p] = "print"
    /\ got' = [got EXCEPT ![p] = count[mySeg[p]]]
    /\ Goto(p, "unlock")
    /\ UNCHANGED <<semVars, count, admin, localVars, seen, issued, histVars,
                   envVars>>

\* Mutant: one path leaves without releasing the semaphore.
UnlockForgotten(p) ==
    /\ pc[p] = "unlock"
    /\ mySem[p] = semId
    /\ Goto(p, "stamp")
    /\ UNCHANGED <<semVars, count, admin, localVars, seen, got, issued,
                   histVars, envVars>>

Unlock(p) ==
    /\ pc[p] = "unlock"
    /\ mySem[p] = semId
    /\ sem' = sem + 1
    /\ Goto(p, "stamp")
    /\ UNCHANGED <<semId, seg, made, count, admin, localVars, seen, got,
                   issued, histVars, envVars>>

\* The semaphore was removed: semop fails with EIDRM or EINVAL.
SemGone(p) ==
    /\ pc[p] \in {"lock", "unlock"}
    /\ mySem[p] # semId
    /\ ReturnsNull(p)
    /\ UNCHANGED <<semVars, count, admin, localVars, seen, got, issued,
                   histVars, envVars>>

\* The time is read after the lock was released.
Stamp(p) ==
    /\ pc[p] = "stamp"
    /\ issued' = Append(issued, [time |-> clock, n |-> got[p],
                                 seg |-> mySeg[p], since |-> since[p]])
    /\ Goto(p, "idle")
    /\ UNCHANGED <<semVars, count, admin, localVars, seen, got, histVars,
                   envVars>>

-----------------------------------------------------------------------------
(* The administrator.                                                      *)

\* NCreatOneSem: semget makes a semaphore of value 0; GETVAL.
SemGet ==
    /\ admin = "idle"
    /\ IF semId = 0
       THEN /\ made < MaxMade
            /\ made' = made + 1
            /\ semId' = made + 1
            /\ sem' = 0
            /\ admin' = "setval"
       ELSE /\ admin' = IF sem = 0 THEN "setval" ELSE "shm"
            /\ UNCHANGED <<semId, sem, made>>
    /\ UNCHANGED <<seg, count, pc, localVars, seen, got, issued, histVars,
                   envVars>>

\* A value of 0 is taken for a new semaphore, though somebody may hold it.
SemSetVal ==
    /\ admin = "setval"
    /\ sem' = 1
    /\ strays' = strays + Cardinality(Holders)
    /\ admin' = "shm"
    /\ UNCHANGED <<semId, seg, made, count, pc, localVars, seen, got, issued,
                   lost, envVars>>

\* NCreatShm: a memory that exists keeps its count.
ShmGet ==
    /\ admin = "shm"
    /\ seg' = IF seg = 0 THEN made ELSE seg
    /\ admin' = "idle"
    /\ UNCHANGED <<semId, sem, made, count, pc, localVars, seen, got, issued,
                   histVars, envVars>>

\* DelMemAccept: the memory first, then the semaphore.
DelShm ==
    /\ admin = "idle"
    /\ seg # 0
    /\ seg' = 0
    /\ admin' = "delsem"
    /\ UNCHANGED <<semId, sem, made, count, pc, localVars, seen, got, issued,
                   histVars, envVars>>

DelSem ==
    /\ admin = "delsem"
    /\ semId' = 0
    /\ sem' = 0
    /\ admin' = "idle"
    /\ UNCHANGED <<seg, made, count, pc, localVars, seen, got, issued, histVars,
                   envVars>>

-----------------------------------------------------------------------------
(* The environment.                                                        *)

Tick ==
    /\ clock < MaxTime
    /\ clock' = clock + 1
    /\ UNCHANGED <<semVars, count, admin, pc, localVars, seen, got, issued,
                   calls, histVars, faults>>

\* Quit, or the default action before the first call: Quit unlocks whether
\* the process is between lock and unlock or not.
Sigterm(p) ==
    /\ pc[p] # "dead"
    /\ faults < MaxFaults
    /\ faults' = faults + 1
    /\ Goto(p, "dead")
    /\ IF armed[p] /\ mySem[p] = semId
       THEN /\ sem' = sem + 1
            /\ strays' = IF p \in Holders THEN strays ELSE strays + 1
       ELSE UNCHANGED <<sem, strays>>
    /\ UNCHANGED <<semId, seg, made, count, admin, localVars, seen, got,
                   issued, lost, clock, calls>>

Sigkill(p) ==
    /\ pc[p] # "dead"
    /\ faults < MaxFaults
    /\ faults' = faults + 1
    /\ Goto(p, "dead")
    /\ lost' = IF p \in Holders THEN lost + 1 ELSE lost
    /\ UNCHANGED <<semVars, count, admin, localVars, seen, got, issued,
                   strays, clock, calls>>

\* A service that has died is started again.
Restart(p) ==
    /\ pc[p] = "dead"
    /\ Goto(p, "idle")
    /\ armed' = [armed EXCEPT ![p] = FALSE]
    /\ UNCHANGED <<semVars, count, admin, mySem, mySeg, since, seen, got,
                   issued, histVars, envVars>>

Call(p) ==
    \/ OpenFails(p) \/ Open(p) \/ Lock(p) \/ ReadCount(p) \/ WriteCount(p)
    \/ PrintCount(p) \/ Unlock(p) \/ SemGone(p) \/ Stamp(p)

Admin == SemGet \/ SemSetVal \/ ShmGet \/ DelShm \/ DelSem

Next ==
    \/ \E p \in Process : Call(p) \/ Sigterm(p) \/ Sigkill(p) \/ Restart(p)
    \/ Admin
    \/ Tick

Spec == Init /\ [][Next]_vars

\* semop wakes the waiters of a semaphore in turn; an administrator's program
\* that has begun goes on.
Fairness ==
    /\ \A p \in Process : WF_vars(Call(p)) /\ SF_vars(Lock(p))
    /\ WF_vars(SemSetVal \/ ShmGet \/ DelSem)

LiveSpec == Spec /\ Fairness

-----------------------------------------------------------------------------
(* Properties.                                                             *)

\* Every permit of the semaphore beyond the first one was brought in by a
\* SIGTERM that hit a process outside its critical section, or by a
\* CreatMemAccept run while a process was inside; a permit is missing only if
\* a process was killed inside.
PermitsAccounted ==
    LET permits == sem + Cardinality(Holders)
    IN  /\ permits <= 1 + strays
        /\ semId # 0 /\ admin # "setval" => permits >= 1 - lost

\* While nothing of the kind has happened, no serial number of one shared
\* memory is issued twice, and a call that begins after another one has
\* returned gets the greater number and no smaller time: the redo log can be
\* ordered by it.
NumbersGrow ==
    strays = 0 =>
        \A j \in DOMAIN issued : \A i \in 1 .. j - 1 :
            /\ issued[i].seg = issued[j].seg => issued[i].n # issued[j].n
            /\ i <= issued[j].since =>
                  /\ issued[i].time <= issued[j].time
                  /\ issued[i].seg = issued[j].seg => issued[i].n < issued[j].n

\* A process waits for the semaphore for ever only if a process was killed
\* inside; a SIGTERM, which runs Quit, does not block the others.
WaitEnds ==
    \A p \in Process : pc[p] = "lock" ~> pc[p] # "lock" \/ lost > 0
=============================================================================
