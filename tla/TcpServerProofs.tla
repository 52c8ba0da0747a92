-------------------------- MODULE TcpServerProofs --------------------------
(***************************************************************************)
(* Proofs about TcpServer, for every set of pids, every size of the table, *)
(* every limit and every bound on connections and faults.                  *)
(***************************************************************************)
EXTENDS TcpServer, FiniteSetTheorems, WellFoundedInduction, TLAPS

\* Where locksem is called, and where it leads.
LEMMA AfterFacts ==
    /\ DOMAIN After = {"check", "increase", "kill", "wait"}
    /\ After["check"] = "checking" /\ After["increase"] = "store"
    /\ After["kill"] = "killing" /\ After["wait"] = "scan"
    /\ \A m \in DOMAIN After : After[m] \in ServerInside
BY DEF After, ServerInside

\* The ghosts name processes that run, and what is recorded is a child.
PidsTyped == TypeOK /\ PidsKept

\* What a signal does to the server: it goes to the stop or past a lock.
LEMMA InterruptFacts ==
    ASSUME TypeOK, NEW flag \in BOOLEAN, Interrupt(flag)
    PROVE  /\ \/ main' = main /\ broken' = broken
              \/ main = "accept" /\ main' = "kill" /\ broken' = broken
              \/ main = "increase" /\ main' = "store" /\ broken' = TRUE
              \/ /\ main \in {"check", "kill", "wait"} /\ broken' = TRUE
                 /\ main' \in {"checking", "killing", "scan"}
           /\ faults' \in 0 .. MaxFaults
BY AfterFacts, TcpServerAssumption DEF Interrupt, TypeOK

\* A signal sent to a child leaves every child where children can be.
LEMMA SigtermType ==
    ASSUME TypeOK, NEW p \in Child, Sigterm(p)
    PROVE  /\ child' \in [Child -> {"none", "new", "recv", "deal", "zombie"}
                                   \cup Leaving]
           /\ told' \subseteq Child /\ deaf' \subseteq Child
           /\ broken' \in BOOLEAN
<1>1. /\ child \in [Child -> {"none", "new", "recv", "deal", "zombie"}
                             \cup Leaving]
      /\ told \subseteq Child /\ deaf \subseteq Child /\ broken \in BOOLEAN
  BY DEF TypeOK
<1>2. child' \in {child, [child EXCEPT ![p] = "leave"],
                  [child EXCEPT ![p] = "clear"]}
  BY DEF Sigterm, Goto
<1>3. child' \in [Child -> {"none", "new", "recv", "deal", "zombie"}
                           \cup Leaving]
  BY <1>1, <1>2 DEF Leaving
<1>4. told' \subseteq told \cup {p} /\ deaf' \subseteq deaf \cup {p}
  BY DEF Sigterm
<1>5. broken' \in BOOLEAN
  BY <1>1 DEF Sigterm
<1> QED
  BY <1>1, <1>3, <1>4, <1>5

\* Every step keeps the types.
LEMMA TypeStep == PidsTyped /\ [Next]_vars => TypeOK'
<1> SUFFICES ASSUME TypeOK, PidsKept, [Next]_vars PROVE TypeOK'
  BY DEF PidsTyped
<1> USE TcpServerAssumption, AfterFacts
        DEF TypeOK, PidsKept, shmVars, semVars, childVars, bounds,
            ghosts, mainVars, Goto, Forget
<1>1. CASE Accept
  BY <1>1 DEF Accept, Again
<1>2. CASE LockServer
  BY <1>2 DEF LockServer, Take, Slot
<1>3. CASE CheckProcNumber
  BY <1>3 DEF CheckProcNumber, Give, Again
<1>4. ASSUME NEW p \in Child, Fork(p) PROVE TypeOK'
  BY <1>4 DEF Fork
<1>5. CASE ForkFails
  BY <1>5 DEF ForkFails
<1>6. CASE StorePid
  <2>1. newPid \in Child
    BY <1>6 DEF StorePid
  <2>2. unstored' \subseteq Child /\ table' \in [Slot -> Child \cup {Free}]
    BY <1>6, <2>1 DEF StorePid, Running
  <2>3. seen' \in [Child \cup {Server} -> Int] /\ main' = "bump"
    BY <1>6 DEF StorePid
  <2> QED
    BY <1>6, <2>2, <2>3 DEF StorePid, ServerInside
<1>7. CASE BumpCount
  BY <1>7 DEF BumpCount, Give, Again
<1>8. CASE KillNext
  <2>1. /\ child' \in [Child -> {"none", "new", "recv", "deal", "zombie"}
                                  \cup Leaving]
        /\ told' \subseteq Child /\ deaf' \subseteq Child
        /\ broken' \in BOOLEAN
    <3>1. CASE UNCHANGED <<child, told, deaf, broken>>
      BY <3>1
    <3>2. ASSUME NEW p \in Child, Sigterm(p)
          PROVE  /\ child' \in [Child -> {"none", "new", "recv", "deal",
                                          "zombie"} \cup Leaving]
                 /\ told' \subseteq Child /\ deaf' \subseteq Child
                 /\ broken' \in BOOLEAN
      BY <3>2, SigtermType
    <3>3. \/ UNCHANGED <<child, told, deaf, broken>>
          \/ \E p \in Child : Sigterm(p)
      BY <1>8 DEF KillNext, Running
    <3> QED
      BY <3>1, <3>2, <3>3
  <2>2. /\ scan' \in Slot /\ main' \in {"wait", "killing"}
        /\ sem' \in Nat /\ undo' \in [Child \cup {Server} -> Int]
    BY <1>8 DEF KillNext, Give, Slot
  <2> QED
    BY <1>8, <2>1, <2>2 DEF KillNext, ServerInside
<1>9. CASE ScanTable
  BY <1>9 DEF ScanTable, Give
<1>10. CASE SigtermServer
  <2>1. /\ main' \in {"accept", "fork", "ended", "down"}
                       \cup DOMAIN After \cup ServerInside
        /\ faults' \in 0 .. MaxFaults /\ broken' \in BOOLEAN
    BY <1>10, InterruptFacts DEF SigtermServer, ServerInside
  <2>2. scan' \in Slot /\ quit' \in BOOLEAN
    BY <1>10 DEF SigtermServer, Slot
  <2> QED
    BY <1>10, <2>1, <2>2 DEF SigtermServer
<1>11. CASE Reap
  <2>1. /\ main' \in {"accept", "fork", "ended", "down"}
                       \cup DOMAIN After \cup ServerInside
        /\ faults' \in 0 .. MaxFaults /\ broken' \in BOOLEAN
    BY <1>11, InterruptFacts DEF Reap, ServerInside
  <2> QED
    BY <1>11, <2>1 DEF Reap
<1>12. CASE ServerDies
  BY <1>12 DEF ServerDies, Undone, Running
<1>13. CASE StartServer
  <2>1. /\ table' \in [Slot -> Child \cup {Free}]
        /\ undo' \in [Child \cup {Server} -> Int]
    BY <1>13 DEF StartServer
  <2>2. /\ main' = "accept" /\ newPid' = Server
        /\ count' = 0 /\ sem' = 1 /\ debt' = 0 /\ dead' = 0
        /\ unstored' = {} /\ restarts' \in Nat
    BY <1>13 DEF StartServer
  <2>4. quit' \in BOOLEAN /\ broken' \in BOOLEAN
    BY <1>13 DEF StartServer
  <2>3. /\ old' = old /\ deaf' = deaf /\ dropped' = dropped
        /\ told' = told /\ handler' = handler /\ child' = child
        /\ scan' = scan /\ seen' = seen /\ alarms' = alarms
        /\ forks' = forks /\ faults' = faults
    BY <1>13 DEF StartServer
  <2> QED
    BY <2>1, <2>2, <2>3, <2>4
<1>14. ASSUME NEW p \in Child,
              \/ InstallHandlers(p) \/ Message(p) \/ Reply(p)
              \/ ClientGone(p) \/ TimeOut(p)
       PROVE  TypeOK'
  BY <1>14 DEF InstallHandlers, Message, Reply, ClientGone, TimeOut, Serve,
               Leaving
<1>15. ASSUME NEW p \in Child, LateAlarm(p) PROVE TypeOK'
  BY <1>15 DEF LateAlarm, Leaving
<1>16. ASSUME NEW p \in Child, LockChild(p) PROVE TypeOK'
  BY <1>16 DEF LockChild, Take, Leaving
<1>17. ASSUME NEW p \in Child, ClearPid(p) PROVE TypeOK'
  BY <1>17 DEF ClearPid, Leaving
<1>18. ASSUME NEW p \in Child, DropCount(p) PROVE TypeOK'
  BY <1>18 DEF DropCount, Leaving
<1>19. ASSUME NEW p \in Child, UnlockChild(p) PROVE TypeOK'
  BY <1>19 DEF UnlockChild, Give, Leaving
<1>20. ASSUME NEW p \in Child, Exit(p) PROVE TypeOK'
  BY <1>20 DEF Exit, Undone, Gone
<1>21. ASSUME NEW p \in Child, LeaveAfterEnd(p) PROVE TypeOK'
  BY <1>21 DEF LeaveAfterEnd, Gone
<1>22. ASSUME NEW p \in Child, ChildDies(p) PROVE TypeOK'
  <2>1. /\ sem' \in Nat /\ undo' \in [Child \cup {Server} -> Int]
        /\ seen' \in [Child \cup {Server} -> Int]
    BY <1>22 DEF ChildDies, Undone, Gone
  <2>2. /\ child' \in [Child -> {"none", "new", "recv", "deal", "zombie"}
                                 \cup Leaving]
        /\ faults' \in 0 .. MaxFaults /\ dead' \in Nat
    BY <1>22 DEF ChildDies
  <2> QED
    BY <1>22, <2>1, <2>2 DEF ChildDies, Gone
<1>23. CASE UNCHANGED vars
  BY <1>23 DEF vars
<1> QED
  BY <1>1, <1>2, <1>3, <1>4, <1>5, <1>6, <1>7, <1>8, <1>9, <1>10, <1>11,
     <1>12, <1>13, <1>14, <1>15, <1>16, <1>17, <1>18, <1>19, <1>20, <1>21,
     <1>22, <1>23 DEF Next, ServerStep, ChildStep

\* The bookkeeping of pids is kept by every step.
LEMMA PidsStep == PidsTyped /\ [Next]_vars => PidsKept'
<1> SUFFICES ASSUME TypeOK, PidsKept, [Next]_vars PROVE PidsKept'
  BY DEF PidsTyped
<1> USE TcpServerAssumption, AfterFacts
        DEF TypeOK, PidsKept, shmVars, semVars, childVars, bounds,
            ghosts, mainVars, Goto, Forget, Running, Leaving
<1>1. CASE Accept \/ CheckProcNumber \/ ForkFails \/ ScanTable
  BY <1>1 DEF Accept, CheckProcNumber, ForkFails, ScanTable, Again
<1>2. CASE LockServer
  BY <1>2 DEF LockServer
<1>3. ASSUME NEW p \in Child, Fork(p) PROVE PidsKept'
  <2>1. /\ child[p] = "none" /\ child' = [child EXCEPT ![p] = "new"]
        /\ newPid' = p /\ main' = "increase"
        /\ UNCHANGED <<old, dropped>>
    BY <1>3 DEF Fork
  <2> QED
    BY <2>1
<1>4. CASE StorePid
  BY <1>4 DEF StorePid
<1>5. CASE BumpCount
  BY <1>5 DEF BumpCount, Again
<1>6. CASE KillNext
  <2>1. \A p \in Child : \/ child'[p] = child[p]
                         \/ /\ child[p] \in {"recv", "leave"}
                            /\ child'[p] \in {"leave", "clear"}
    BY <1>6 DEF KillNext, Sigterm
  <2>2. /\ main' \in {"wait", "killing"} /\ main = "killing"
        /\ UNCHANGED <<old, dropped, newPid>>
    BY <1>6 DEF KillNext
  <2> QED
    BY <2>1, <2>2
<1>7. CASE SigtermServer
  BY <1>7, InterruptFacts DEF SigtermServer
<1>8. CASE Reap
  <2>1. \A p \in Child : \/ child'[p] = child[p]
                         \/ child[p] = "zombie" /\ child'[p] = "none"
    BY <1>8 DEF Reap
  <2>2. /\ main \notin {"ended", "down"} /\ UNCHANGED <<old, dropped, newPid>>
    BY <1>8 DEF Reap
  <2>3. /\ main' # "down"
        /\ main' \in {"increase", "store", "bump"}
              => main \in {"increase", "store", "bump"}
    BY <1>8, <2>2, InterruptFacts DEF Reap
  <2> QED
    BY <2>1, <2>2, <2>3
<1>9. CASE ServerDies
  <2>1. \A p \in Child : \/ child'[p] = child[p]
                         \/ child[p] = "zombie" /\ child'[p] = "none"
    BY <1>9 DEF ServerDies
  <2>2. Running' = Running
    BY <2>1
  <2>3. main' = "down" /\ old' = Running /\ dropped' = dropped
    BY <1>9 DEF ServerDies
  <2> QED
    BY <2>1, <2>2, <2>3
<1>10. CASE StartServer
  BY <1>10 DEF StartServer
<1>11. ASSUME NEW p \in Child,
              \/ InstallHandlers(p) \/ Message(p) \/ Reply(p)
              \/ ClientGone(p) \/ TimeOut(p)
              \/ LateAlarm(p) \/ LockChild(p) \/ ClearPid(p) \/ DropCount(p)
              \/ UnlockChild(p)
       PROVE  PidsKept'
  <2>1. UNCHANGED <<main, newPid, old>>
    BY <1>11 DEF InstallHandlers, Message, Reply, ClientGone, TimeOut, Serve,
                 LateAlarm, LockChild, ClearPid, DropCount, UnlockChild
  <2>2. /\ child[p] \notin {"none", "zombie"}
        /\ \E to \in {"recv", "deal", "leave", "clear", "drop", "unlock",
                      "exiting"} :
              /\ child' = [child EXCEPT ![p] = to]
              /\ dropped' = IF to = "unlock" THEN dropped \cup {p} ELSE dropped
              /\ to = "exiting" => child[p] = "unlock"
              /\ child[p] \in Leaving => to \in Leaving
    BY <1>11 DEF InstallHandlers, Message, Reply, ClientGone, TimeOut, Serve,
                 LateAlarm, LockChild, ClearPid, DropCount, UnlockChild,
                 Leaving
  <2> QED
    BY <2>1, <2>2
<1>12. ASSUME NEW p \in Child, Exit(p) \/ LeaveAfterEnd(p) \/ ChildDies(p)
       PROVE  PidsKept'
  <2>1. /\ UNCHANGED <<main, newPid>>
        /\ old' = old \ {p} /\ dropped' = dropped \ {p}
        /\ \E to \in {"none", "zombie"} : child' = [child EXCEPT ![p] = to]
    BY <1>12 DEF Exit, LeaveAfterEnd, ChildDies, Gone
  <2> QED
    BY <2>1
<1>13. CASE UNCHANGED vars
  BY <1>13 DEF vars
<1> QED
  BY <1>1, <1>2, <1>3, <1>4, <1>5, <1>6, <1>7, <1>8, <1>9, <1>10, <1>11,
     <1>12, <1>13 DEF Next, ServerStep, ChildStep

\* No process and no entry of the table ever leaves its type, and the ghosts
\* follow the processes.
THEOREM TypeCorrect == Spec => [](TypeOK /\ PidsKept)
<1>1. Init => TypeOK
  <2> SUFFICES ASSUME Init PROVE TypeOK
    OBVIOUS
  <2>1. quit \in BOOLEAN /\ broken \in BOOLEAN
    BY DEF Init
  <2>2. /\ seen \in [Child \cup {Server} -> Int]
        /\ table \in [Slot -> Child \cup {Free}]
        /\ undo \in [Child \cup {Server} -> Int]
        /\ child \in [Child -> {"none", "new", "recv", "deal", "zombie"}
                                \cup Leaving]
    BY DEF Init
  <2> QED
    BY <2>1, <2>2, TcpServerAssumption DEF Init, TypeOK, Slot
<1>2. Init => PidsKept
  BY DEF Init, PidsKept, Running
<1> QED
  BY <1>1, <1>2, TypeStep, PidsStep, PTL DEF Spec, PidsTyped

-----------------------------------------------------------------------------
(* The semaphore.                                                          *)

LocksKept == SemaphoreAccounted /\ ServerLocksOnce

\* The processes that hold the lock are finitely many children.
LEMMA InsideFinite == IsFiniteSet(Inside) /\ Cardinality(Inside) \in Nat
<1>1. Inside \in SUBSET Child
  BY DEF Inside
<1> QED
  BY <1>1, TcpServerAssumption, FS_Subset, FS_CardinalityType

\* While nobody has gone past the semaphore, it excludes: a positive value
\* means that nobody is inside, and there is never more than one.
LEMMA Exclusion ==
    ASSUME TypeOK, LocksKept, ~broken, main # "ended"
    PROVE  /\ sem > 0 => /\ sem = 1 /\ Inside = {} /\ undo[Server] = 0
                         /\ main \notin ServerInside
           /\ undo[Server] = 1 => sem = 0 /\ Inside = {}
           /\ \A p \in Inside : sem = 0 /\ undo[Server] = 0 /\ Inside = {p}
           /\ \A p \in Child : child[p] \in ChildInside => p \in Inside
<1>1. /\ sem + undo[Server] + Cardinality(Inside) = 1
      /\ undo[Server] \in {0, 1}
      /\ main \in ServerInside <=> undo[Server] = 1
      /\ \A p \in Child : child[p] \in ChildInside => p \in Inside
  BY DEF LocksKept, SemaphoreAccounted, ServerLocksOnce
<1>2. sem \in Nat /\ Cardinality(Inside) \in Nat
  BY InsideFinite DEF TypeOK
<1>3. Cardinality(Inside) = 0 => Inside = {}
  BY InsideFinite, FS_EmptySet
<1>4. ASSUME NEW p \in Inside PROVE Cardinality(Inside) # 0
  BY <1>4, InsideFinite, FS_EmptySet
<1>5. ASSUME NEW p \in Inside, Cardinality(Inside) = 1 PROVE Inside = {p}
  BY <1>5, InsideFinite, FS_Singleton
<1> QED
  BY <1>1, <1>2, <1>3, <1>4, <1>5

\* A step that leaves the semaphore alone and lets nobody in keeps the locks.
LEMMA LocksFrame ==
    ASSUME TypeOK, LocksKept, UNCHANGED <<sem, undo>>, TypeOK',
           main = "ended" => main' = "ended",
           ~broken' =>
              /\ ~broken
              /\ main' \in ServerInside <=> main \in ServerInside
              /\ \A p \in Child :
                    child'[p] \in ChildInside => child[p] \in ChildInside
    PROVE  LocksKept'
<1>1. Inside' = Inside
  BY DEF Inside
<1> QED
  BY <1>1 DEF LocksKept, SemaphoreAccounted, ServerLocksOnce

\* The server releases the lock.
LEMMA ServerGives ==
    ASSUME TypeOK, LocksKept, Give(Server), main \in ServerInside,
           main' \notin ServerInside, ~broken' => ~broken,
           ~broken' => \A p \in Child :
              child'[p] \in ChildInside => child[p] \in ChildInside
    PROVE  LocksKept'
<1> SUFFICES ASSUME ~broken' PROVE LocksKept'
  BY DEF LocksKept, SemaphoreAccounted, ServerLocksOnce
<1>1. /\ Server \notin Child /\ main # "ended" /\ undo[Server] = 1
      /\ undo'[Server] = 0 /\ sem' = sem + 1 /\ sem \in Nat
      /\ \A p \in Child : undo'[p] = undo[p]
  BY TcpServerAssumption
     DEF Give, TypeOK, ServerInside, LocksKept, SemaphoreAccounted
<1>2. Inside' = Inside
  BY <1>1 DEF Inside
<1>3. Cardinality(Inside) \in Nat
  BY InsideFinite
<1>4. sem' + undo'[Server] + Cardinality(Inside') = 1
  BY <1>1, <1>2, <1>3 DEF LocksKept, SemaphoreAccounted
<1> QED
  BY <1>1, <1>2, <1>4 DEF LocksKept, SemaphoreAccounted, ServerLocksOnce

\* The server takes the lock: it was free.
LEMMA LockServerLocks == ASSUME TypeOK, LocksKept, LockServer PROVE LocksKept'
<1> SUFFICES ASSUME ~broken PROVE LocksKept'
  BY DEF LockServer, ghosts, LocksKept, SemaphoreAccounted, ServerLocksOnce
<1>1. /\ sem > 0 /\ sem' = sem - 1
      /\ undo' = [undo EXCEPT ![Server] = @ + 1]
      /\ main \in DOMAIN After /\ main' = After[main]
      /\ UNCHANGED <<child, broken>>
  BY DEF LockServer, Take, childVars, ghosts
<1>2. main # "ended" /\ main' \in ServerInside
  BY <1>1, AfterFacts
<1>3. sem = 1 /\ Inside = {} /\ undo[Server] = 0
  BY <1>1, <1>2, Exclusion
<1>4. undo'[Server] = 1 /\ \A p \in Child : undo'[p] = undo[p]
  BY <1>1, <1>3, TcpServerAssumption DEF TypeOK
<1>5. Inside' = {}
  BY <1>3, <1>4 DEF Inside
<1>6. sem' + undo'[Server] + Cardinality(Inside') = 1
  BY <1>1, <1>3, <1>4, <1>5, FS_EmptySet
<1>7. \A p \in Child : child'[p] \in ChildInside => p \in Inside'
  BY <1>1, <1>2, <1>3, <1>5, Exclusion
<1> QED
  BY <1>1, <1>2, <1>4, <1>6, <1>7
     DEF LocksKept, SemaphoreAccounted, ServerLocksOnce

\* A child takes the lock: it was free, and then the child alone is inside.
LEMMA LockChildLocks ==
    ASSUME TypeOK, LocksKept, NEW c \in Child, LockChild(c) PROVE LocksKept'
<1> SUFFICES ASSUME ~broken PROVE LocksKept'
  BY DEF LockChild, ghosts, LocksKept, SemaphoreAccounted, ServerLocksOnce
<1>1. /\ sem > 0 /\ sem' = sem - 1
      /\ undo' = [undo EXCEPT ![c] = @ + 1]
      /\ main # "ended"
      /\ child' = [child EXCEPT ![c] = "clear"]
      /\ UNCHANGED <<main, broken>>
  BY DEF LockChild, Take, Goto, ghosts, mainVars
<1>2. /\ sem = 1 /\ Inside = {} /\ undo[Server] = 0
      /\ main \notin ServerInside
      /\ \A p \in Child : child[p] \notin ChildInside
  BY <1>1, Exclusion
<1>3. undo[c] = 0 /\ \A p \in Child : undo[p] = 0
  BY <1>1, <1>2 DEF Inside, LocksKept, SemaphoreAccounted
<1>4. /\ undo'[Server] = 0 /\ undo'[c] = 1
      /\ \A p \in Child \ {c} : undo'[p] = 0
  BY <1>1, <1>2, <1>3, TcpServerAssumption DEF TypeOK
<1>5. Inside' = {c}
  BY <1>4 DEF Inside
<1>6. sem' + undo'[Server] + Cardinality(Inside') = 1
  <2>1. Cardinality({c}) = 1
    BY FS_Singleton
  <2> QED
    BY <1>1, <1>2, <1>4, <1>5, <2>1
<1>7. \A p \in Child : child'[p] \in ChildInside => p \in Inside'
  BY <1>1, <1>2, <1>5 DEF TypeOK
<1> QED
  BY <1>1, <1>2, <1>4, <1>6, <1>7
     DEF LocksKept, SemaphoreAccounted, ServerLocksOnce

\* What a child has taken comes back, in UnlockChild or when it exits.
LEMMA ChildGivesBack ==
    ASSUME TypeOK, LocksKept, NEW c \in Child, main # "ended",
           undo' = [undo EXCEPT ![c] = 0],
           ~broken => sem' = sem + undo[c],
           UNCHANGED <<main, broken>>,
           child'[c] \notin ChildInside,
           \A p \in Child \ {c} : child'[p] = child[p]
    PROVE  LocksKept'
<1> SUFFICES ASSUME ~broken PROVE LocksKept'
  BY DEF LocksKept, SemaphoreAccounted, ServerLocksOnce
<1> USE DEF LocksKept, SemaphoreAccounted, ServerLocksOnce
<1>1. /\ undo'[Server] = undo[Server] /\ undo'[c] = 0
      /\ \A p \in Child \ {c} : undo'[p] = undo[p]
      /\ undo[Server] \in {0, 1} /\ undo[c] \in {0, 1}
  BY TcpServerAssumption DEF TypeOK
<1>2. Inside' = Inside \ {c}
  BY <1>1 DEF Inside
<1>3. Cardinality(Inside') = Cardinality(Inside) - undo[c]
  <2>1. Cardinality(Inside \ {c}) =
            IF c \in Inside THEN Cardinality(Inside) - 1 ELSE Cardinality(Inside)
    BY InsideFinite, FS_RemoveElement
  <2>2. c \in Inside <=> undo[c] = 1
    BY DEF Inside
  <2>3. Cardinality(Inside) \in Nat
    BY InsideFinite
  <2> QED
    BY <1>1, <1>2, <2>1, <2>2, <2>3
<1>4. sem' + undo'[Server] + Cardinality(Inside') = 1
  <2>1. sem \in Nat /\ Cardinality(Inside) \in Nat
    BY InsideFinite DEF TypeOK
  <2> QED
    BY <1>1, <1>3, <2>1
<1>5. \A p \in Child : child'[p] \in ChildInside => p \in Inside'
  BY <1>2
<1> QED
  BY <1>1, <1>4, <1>5

\* What the server has taken comes back when it dies.
LEMMA ServerDiesLocks == ASSUME TypeOK, LocksKept, ServerDies PROVE LocksKept'
<1> SUFFICES ASSUME ~broken PROVE LocksKept'
  BY DEF ServerDies, LocksKept, SemaphoreAccounted, ServerLocksOnce
<1> USE DEF LocksKept, SemaphoreAccounted, ServerLocksOnce
<1>1. /\ main # "ended" /\ main' = "down" /\ UNCHANGED broken
      /\ sem' = IF sem + undo[Server] > 0 THEN sem + undo[Server] ELSE 0
      /\ undo' = [undo EXCEPT ![Server] = 0]
      /\ \A p \in Child : child'[p] \in ChildInside => child[p] \in ChildInside
  BY DEF ServerDies, Undone, TypeOK, ChildInside
<1>2. /\ undo'[Server] = 0 /\ undo[Server] \in {0, 1}
      /\ \A p \in Child : undo'[p] = undo[p]
  BY <1>1, TcpServerAssumption DEF TypeOK
<1>3. Inside' = Inside
  BY <1>2 DEF Inside
<1>4. sem' + undo'[Server] + Cardinality(Inside') = 1
  <2>1. sem \in Nat /\ Cardinality(Inside) \in Nat
    BY InsideFinite DEF TypeOK
  <2> QED
    BY <1>1, <1>2, <1>3, <2>1
<1> QED
  BY <1>1, <1>2, <1>3, <1>4 DEF ServerInside

\* A server started again gives the semaphore its first value; if a child was
\* inside, somebody is now inside without the lock.
LEMMA StartServerLocks ==
    ASSUME TypeOK, LocksKept, StartServer PROVE LocksKept'
<1> SUFFICES ASSUME ~broken' PROVE LocksKept'
  BY DEF LocksKept, SemaphoreAccounted, ServerLocksOnce
<1>1. /\ ~broken /\ main = "down" /\ main' = "accept" /\ sem' = 1
      /\ \A p \in Child : undo[p] = 0
      /\ undo' = [p \in Child \cup {Server} |-> 0]
      /\ child' = child
  BY DEF StartServer, childVars
<1>2. \A p \in Child : undo'[p] = 0
  BY <1>1
<1>3. undo'[Server] = 0 /\ Inside' = {}
  BY <1>1, <1>2 DEF Inside
<1>4. \A p \in Child : child'[p] \notin ChildInside
  BY <1>1 DEF LocksKept, SemaphoreAccounted, Inside
<1>5. Cardinality(Inside') = 0
  BY <1>3, FS_EmptySet
<1> QED
  BY <1>1, <1>2, <1>3, <1>4, <1>5
     DEF LocksKept, SemaphoreAccounted, ServerLocksOnce, ServerInside

\* Every step keeps the account of the semaphore.
LEMMA LocksStep ==
    ASSUME TypeOK, TypeOK', LocksKept, [Next]_vars PROVE LocksKept'
<1> USE DEF shmVars, semVars, childVars, bounds, ghosts, mainVars
<1>1. CASE Accept \/ ForkFails
  BY <1>1, LocksFrame DEF Accept, ForkFails, Again, ServerInside
<1>2. CASE LockServer
  BY <1>2, LockServerLocks
<1>3. CASE CheckProcNumber \/ BumpCount \/ ScanTable
  BY <1>3, ServerGives
     DEF CheckProcNumber, BumpCount, ScanTable, Again, ServerInside
<1>4. ASSUME NEW p \in Child, Fork(p) PROVE LocksKept'
  <2>1. /\ UNCHANGED <<sem, undo, broken>>
        /\ main = "fork" /\ main' = "increase"
        /\ child' = [child EXCEPT ![p] = "new"]
    BY <1>4 DEF Fork, Goto
  <2> QED
    BY <2>1, LocksFrame DEF ServerInside, ChildInside, TypeOK
<1>5. CASE StorePid
  BY <1>5, LocksFrame DEF StorePid, ServerInside
<1>6. CASE KillNext
  <2>1. ~broken' => /\ ~broken
                    /\ \A p \in Child : child'[p] \in ChildInside
                                           => child[p] \in ChildInside
    BY <1>6 DEF KillNext, Sigterm, Goto, TypeOK, ChildInside
  <2>2. CASE scan = Slots
    BY <1>6, <2>1, <2>2, ServerGives DEF KillNext, ServerInside
  <2>3. CASE scan # Slots
    BY <1>6, <2>1, <2>3, LocksFrame DEF KillNext, ServerInside
  <2> QED
    BY <2>2, <2>3
<1>7. CASE SigtermServer \/ Reap
  <2>1. /\ UNCHANGED <<sem, undo>> /\ main \notin {"ended", "down"}
        /\ \A p \in Child : child'[p] \in ChildInside => child[p] \in ChildInside
    BY <1>7 DEF SigtermServer, Reap, TypeOK, ChildInside
  <2>2. /\ ~broken' => ~broken
        /\ ~broken' => (main' \in ServerInside <=> main \in ServerInside)
    BY <1>7, InterruptFacts DEF SigtermServer, Reap, TypeOK, ServerInside
  <2> QED
    BY <2>1, <2>2, LocksFrame
<1>8. CASE ServerDies
  BY <1>8, ServerDiesLocks
<1>9. CASE StartServer
  BY <1>9, StartServerLocks
<1>10. ASSUME NEW p \in Child,
              \/ InstallHandlers(p) \/ Message(p) \/ Reply(p)
              \/ ClientGone(p) \/ TimeOut(p) \/ LateAlarm(p)
              \/ ClearPid(p) \/ DropCount(p) \/ LeaveAfterEnd(p)
       PROVE  LocksKept'
  <2>1. UNCHANGED <<main, sem, undo, broken>>
    BY <1>10 DEF InstallHandlers, Message, Reply, ClientGone, TimeOut, Serve,
                 LateAlarm, ClearPid, DropCount, LeaveAfterEnd
  <2>2. \A q \in Child : child'[q] \in ChildInside => child[q] \in ChildInside
    BY <1>10 DEF InstallHandlers, Message, Reply, ClientGone, TimeOut, Serve,
                 LateAlarm, ClearPid, DropCount, LeaveAfterEnd, Goto,
                 ChildInside, TypeOK
  <2> QED
    BY <2>1, <2>2, LocksFrame
<1>11. ASSUME NEW p \in Child, LockChild(p) PROVE LocksKept'
  BY <1>11, LockChildLocks
<1>12. ASSUME NEW p \in Child, UnlockChild(p) PROVE LocksKept'
  <2>1. /\ main # "ended" /\ child[p] = "unlock" /\ sem' = sem + 1
        /\ undo' = [undo EXCEPT ![p] = @ - 1]
        /\ child' = [child EXCEPT ![p] = "exiting"]
        /\ UNCHANGED <<main, broken>>
    BY <1>12 DEF UnlockChild, Give, Goto
  <2>2. CASE broken
    BY <2>1, <2>2 DEF LocksKept, SemaphoreAccounted, ServerLocksOnce
  <2>3. CASE ~broken
    <3>1. undo[p] = 1
      BY <2>1, <2>3
         DEF LocksKept, SemaphoreAccounted, ChildInside, Inside
    <3>2. undo' = [undo EXCEPT ![p] = 0] /\ sem' = sem + undo[p]
      BY <2>1, <3>1 DEF TypeOK
    <3>3. /\ child'[p] \notin ChildInside
          /\ \A q \in Child \ {p} : child'[q] = child[q]
      BY <2>1 DEF ChildInside, TypeOK
    <3> QED
      BY <2>1, <3>2, <3>3, ChildGivesBack
  <2> QED
    BY <2>2, <2>3
<1>13. ASSUME NEW p \in Child, Exit(p) PROVE LocksKept'
  <2>1. /\ main # "ended" /\ child[p] = "exiting"
        /\ sem' = IF sem + undo[p] > 0 THEN sem + undo[p] ELSE 0
        /\ undo' = [undo EXCEPT ![p] = 0]
        /\ \E to \in {"none", "zombie"} : child' = [child EXCEPT ![p] = to]
        /\ UNCHANGED <<main, broken>>
    BY <1>13 DEF Exit, Undone, Goto
  <2>2. ~broken => undo[p] \in {0, 1}
    BY <2>1 DEF LocksKept, SemaphoreAccounted
  <2>3. ~broken => sem' = sem + undo[p]
    BY <2>1, <2>2 DEF TypeOK
  <2>4. /\ child'[p] \notin ChildInside
        /\ \A q \in Child \ {p} : child'[q] = child[q]
    BY <2>1 DEF ChildInside, TypeOK
  <2> QED
    BY <2>1, <2>3, <2>4, ChildGivesBack
<1>14. ASSUME NEW p \in Child, ChildDies(p) PROVE LocksKept'
  <2>1. /\ \E to \in {"none", "zombie"} : child' = [child EXCEPT ![p] = to]
        /\ UNCHANGED <<main, broken>>
    BY <1>14 DEF ChildDies, Goto
  <2>2. /\ child'[p] \notin ChildInside
        /\ \A q \in Child \ {p} : child'[q] = child[q]
    BY <2>1 DEF ChildInside, TypeOK
  <2>3. CASE main = "ended"
    BY <2>1, <2>3 DEF LocksKept, SemaphoreAccounted, ServerLocksOnce
  <2>4. CASE main # "ended"
    <3>1. /\ sem' = IF sem + undo[p] > 0 THEN sem + undo[p] ELSE 0
          /\ undo' = [undo EXCEPT ![p] = 0]
      BY <1>14, <2>4 DEF ChildDies, Undone
    <3>2. ~broken => undo[p] \in {0, 1}
      BY <2>4 DEF LocksKept, SemaphoreAccounted
    <3>3. ~broken => sem' = sem + undo[p]
      BY <3>1, <3>2 DEF TypeOK
    <3> QED
      BY <2>1, <2>2, <2>4, <3>1, <3>3, ChildGivesBack
  <2> QED
    BY <2>3, <2>4
<1>15. CASE UNCHANGED vars
  BY <1>15, LocksFrame DEF vars
<1> QED
  BY <1>1, <1>2, <1>3, <1>4, <1>5, <1>6, <1>7, <1>8, <1>9, <1>10, <1>11,
     <1>12, <1>13, <1>14, <1>15 DEF Next, ServerStep, ChildStep

\* The semaphore is held by at most one process and what SEM_UNDO has noted
\* is what is missing from it, through every signal, alarm, death and restart
\* that does not let somebody pass it without waiting.
THEOREM SemaphoreAccountedHolds ==
    Spec => [](SemaphoreAccounted /\ ServerLocksOnce)
<1>1. Init => LocksKept
  <2> SUFFICES ASSUME Init PROVE LocksKept
    OBVIOUS
  <2>1. \A p \in Child : undo[p] = 0 /\ child[p] = "none"
    BY DEF Init
  <2>2. undo[Server] = 0 /\ sem = 1 /\ main = "accept"
    BY DEF Init
  <2>3. Inside = {}
    BY <2>1 DEF Inside
  <2>4. Cardinality(Inside) = 0
    BY <2>3, FS_EmptySet
  <2> QED
    BY <2>1, <2>2, <2>4 DEF LocksKept, SemaphoreAccounted, ServerLocksOnce,
                            ServerInside, ChildInside
<1>2. TypeOK /\ TypeOK' /\ LocksKept /\ [Next]_vars => LocksKept'
  BY LocksStep
<1> QED
  BY <1>1, <1>2, TypeCorrect, PTL DEF Spec, LocksKept

-----------------------------------------------------------------------------
(* The counter.                                                            *)

\* A step that leaves the counter and what was read of it alone, and brings
\* nobody to where it is written.
LEMMA SeenFrame ==
    ASSUME SeenFresh, UNCHANGED <<count, seen>>,
           main = "ended" => main' = "ended",
           ~broken' => /\ ~broken
                       /\ main' = "bump" => main = "bump"
                       /\ \A p \in Child :
                             child'[p] = "drop" => child[p] = "drop"
    PROVE  SeenFresh'
BY DEF SeenFresh

\* Every step keeps what has been read of the counter up to date.
LEMMA SeenStep ==
    ASSUME TypeOK, TypeOK', LocksKept, SeenFresh, [Next]_vars
    PROVE  SeenFresh'
<1> USE DEF shmVars, semVars, childVars, bounds, ghosts, mainVars, Goto
<1>1. CASE Accept \/ ForkFails \/ CheckProcNumber \/ ScanTable
  BY <1>1, SeenFrame DEF Accept, ForkFails, CheckProcNumber, ScanTable, Again
<1>2. CASE LockServer
  BY <1>2, SeenFrame, AfterFacts DEF LockServer
<1>3. ASSUME NEW p \in Child, Fork(p) PROVE SeenFresh'
  BY <1>3, SeenFrame DEF Fork, TypeOK
<1>4. CASE StorePid
  <2>1. /\ seen' = [seen EXCEPT ![Server] = count] /\ main = "store"
        /\ UNCHANGED <<count, child, broken>>
    BY <1>4 DEF StorePid
  <2>2. seen'[Server] = count /\ \A p \in Child : seen'[p] = seen[p]
    BY <2>1, TcpServerAssumption DEF TypeOK
  <2> QED
    BY <2>1, <2>2 DEF SeenFresh
<1>5. CASE BumpCount
  <2>1. /\ main = "bump" /\ main' # "bump" /\ UNCHANGED <<child, broken>>
    BY <1>5 DEF BumpCount, Again
  <2>2. ~broken => \A p \in Child : child[p] # "drop"
    BY <2>1, Exclusion
       DEF LocksKept, SemaphoreAccounted, ServerInside, ChildInside
  <2> QED
    BY <2>1, <2>2 DEF SeenFresh
<1>6. CASE KillNext
  <2>1. /\ UNCHANGED <<count, seen>> /\ main' # "bump" /\ main # "ended"
        /\ ~broken' => ~broken
        /\ \A p \in Child : child'[p] = "drop" => child[p] = "drop"
    BY <1>6 DEF KillNext, Sigterm, TypeOK
  <2> QED
    BY <2>1, SeenFrame
<1>7. CASE SigtermServer \/ Reap
  <2>1. /\ UNCHANGED <<count, seen>> /\ main # "ended"
        /\ \A p \in Child : child'[p] = "drop" => child[p] = "drop"
    BY <1>7 DEF SigtermServer, Reap, TypeOK
  <2>2. (~broken' => ~broken) /\ (main' = "bump" => main = "bump")
    BY <1>7, InterruptFacts DEF SigtermServer, Reap, TypeOK
  <2> QED
    BY <2>1, <2>2, SeenFrame
<1>8. CASE ServerDies
  <2>1. /\ UNCHANGED <<count, seen, broken>> /\ main # "ended"
        /\ main' = "down"
        /\ \A p \in Child : child'[p] = "drop" => child[p] = "drop"
    BY <1>8 DEF ServerDies, TypeOK
  <2> QED
    BY <2>1, SeenFrame
<1>9. CASE StartServer
  <2>1. /\ main = "down" /\ main' = "accept" /\ child' = child
        /\ ~broken' => ~broken /\ \A p \in Child : undo[p] = 0
    BY <1>9 DEF StartServer
  <2>2. ~broken' => \A p \in Child : child[p] # "drop"
    BY <2>1 DEF LocksKept, SemaphoreAccounted, ChildInside, Inside
  <2> QED
    BY <2>1, <2>2 DEF SeenFresh
<1>10. ASSUME NEW p \in Child,
              \/ InstallHandlers(p) \/ Message(p) \/ Reply(p)
              \/ ClientGone(p) \/ TimeOut(p) \/ LateAlarm(p)
              \/ LockChild(p) \/ UnlockChild(p)
       PROVE  SeenFresh'
  <2>1. UNCHANGED <<main, count, seen, broken>>
    BY <1>10 DEF InstallHandlers, Message, Reply, ClientGone, TimeOut, Serve,
                 LateAlarm, LockChild, UnlockChild
  <2>2. \A q \in Child : child'[q] = "drop" => child[q] = "drop"
    BY <1>10 DEF InstallHandlers, Message, Reply, ClientGone, TimeOut, Serve,
                 LateAlarm, LockChild, UnlockChild, TypeOK
  <2> QED
    BY <2>1, <2>2, SeenFrame
<1>11. ASSUME NEW p \in Child, ClearPid(p) PROVE SeenFresh'
  <2>1. /\ seen' = [seen EXCEPT ![p] = count]
        /\ child' = [child EXCEPT ![p] = "drop"]
        /\ UNCHANGED <<main, count, broken>>
    BY <1>11 DEF ClearPid
  <2>2. /\ seen'[p] = count /\ seen'[Server] = seen[Server]
        /\ \A q \in Child \ {p} : seen'[q] = seen[q]
    BY <2>1, TcpServerAssumption DEF TypeOK
  <2>3. \A q \in Child \ {p} : child'[q] = child[q]
    BY <2>1 DEF TypeOK
  <2> QED
    BY <2>1, <2>2, <2>3 DEF SeenFresh
<1>12. ASSUME NEW p \in Child, DropCount(p) PROVE SeenFresh'
  <2>1. /\ child[p] = "drop" /\ child' = [child EXCEPT ![p] = "unlock"]
        /\ main # "ended" /\ UNCHANGED <<main, broken>>
    BY <1>12 DEF DropCount
  <2>2. ~broken => main # "bump" /\ \A q \in Child \ {p} : child[q] # "drop"
    BY <2>1, Exclusion
       DEF LocksKept, SemaphoreAccounted, ServerInside, ChildInside
  <2>3. \A q \in Child : child'[q] = "drop" => q # p /\ child[q] = "drop"
    BY <2>1 DEF TypeOK
  <2> QED
    BY <2>1, <2>2, <2>3 DEF SeenFresh
<1>13. ASSUME NEW p \in Child, Exit(p) \/ LeaveAfterEnd(p) \/ ChildDies(p)
       PROVE  SeenFresh'
  <2>1. /\ UNCHANGED <<main, count, broken>>
        /\ seen' = [seen EXCEPT ![p] = 0]
        /\ \E to \in {"none", "zombie"} : child' = [child EXCEPT ![p] = to]
    BY <1>13 DEF Exit, LeaveAfterEnd, ChildDies, Gone, Forget
  <2>2. \A q \in (Child \cup {Server}) \ {p} : seen'[q] = seen[q]
    BY <2>1 DEF TypeOK
  <2>3. \A q \in Child : child'[q] = "drop" => q # p /\ child[q] = "drop"
    BY <2>1 DEF TypeOK
  <2> QED
    BY <2>1, <2>2, <2>3, TcpServerAssumption DEF SeenFresh
<1>14. CASE UNCHANGED vars
  BY <1>14, SeenFrame DEF vars
<1> QED
  BY <1>1, <1>2, <1>3, <1>4, <1>5, <1>6, <1>7, <1>8, <1>9, <1>10, <1>11,
     <1>12, <1>13, <1>14 DEF Next, ServerStep, ChildStep

\* nProcCount++ and nProcCount-- write what they have read plus or minus one:
\* nobody writes the counter in between.
THEOREM SeenFreshHolds == Spec => []SeenFresh
<1>1. Init => SeenFresh
  BY DEF Init, SeenFresh
<1>2. TypeOK /\ TypeOK' /\ LocksKept /\ SeenFresh /\ [Next]_vars => SeenFresh'
  BY SeenStep
<1> QED
  BY <1>1, <1>2, TypeCorrect, SemaphoreAccountedHolds, PTL DEF Spec, LocksKept

CountKept == CountAccounted /\ LimitAccounted

\* Who serves: the children that run and have not been taken off.
LEMMA ServingIs ==
    /\ PidsKept => Serving = Running \ dropped
    /\ PidsKept' => Serving' = Running' \ dropped'
BY DEF PidsKept, Serving, Running

\* All these sets of children are finite, and those who serve are children of
\* this server or of one that was killed.
LEMMA CountsFinite ==
    ASSUME TypeOK
    PROVE  /\ IsFiniteSet(Serving) /\ Cardinality(Serving) \in Nat
           /\ IsFiniteSet(Twice) /\ Cardinality(Twice) \in Nat
           /\ IsFiniteSet(Serving \ old) /\ Cardinality(Serving \ old) \in Nat
           /\ IsFiniteSet(Serving \cap old)
           /\ Cardinality(Serving \cap old) \in Nat
           /\ Cardinality(Serving) =
                  Cardinality(Serving \ old) + Cardinality(Serving \cap old)
<1>1. /\ Serving \in SUBSET Child /\ Twice \in SUBSET Child
      /\ Serving \ old \in SUBSET Child /\ Serving \cap old \in SUBSET Child
  BY DEF Serving, Running, Twice, TypeOK
<1>2. /\ IsFiniteSet(Serving) /\ Cardinality(Serving) \in Nat
      /\ IsFiniteSet(Twice) /\ Cardinality(Twice) \in Nat
  BY <1>1, TcpServerAssumption, FS_Subset, FS_CardinalityType
<1>3. /\ IsFiniteSet(Serving \ old) /\ Cardinality(Serving \ old) \in Nat
      /\ IsFiniteSet(Serving \cap old)
      /\ Cardinality(Serving \cap old) \in Nat
  BY <1>1, TcpServerAssumption, FS_Subset, FS_CardinalityType
<1>4. Cardinality(Serving \ old)
          = Cardinality(Serving) - Cardinality(Serving \cap old)
  BY <1>2, FS_Difference
<1> QED
  BY <1>2, <1>3, <1>4

\* What each further server may have left behind.
LEMMA LimitProduct ==
    ASSUME TypeOK
    PROVE  /\ MaxProc * restarts \in Nat /\ MaxProc \in Nat
           /\ MaxProc * (1 + restarts) = MaxProc + MaxProc * restarts
BY TcpServerAssumption DEF TypeOK

\* A step that leaves the counter alone and no child serving more or less.
LEMMA CountFrame ==
    ASSUME TypeOK, PidsKept, PidsKept', CountKept,
           Running' = Running, Twice' = Twice,
           UNCHANGED <<old, dropped, count, debt, dead, restarts, alarms>>,
           ~broken' => ~broken,
           ~broken' /\ main' \notin {"ended", "down"} =>
              /\ main \notin {"ended", "down"}
              /\ Pending' = Pending
              /\ main' = "fork" => count < MaxProc
    PROVE  CountKept'
<1>1. Serving' = Serving
  BY ServingIs
<1> QED
  BY <1>1 DEF CountKept, CountAccounted, LimitAccounted

\* The server passes the test of the limit.
LEMMA CheckCount ==
    ASSUME TypeOK, PidsKept, PidsKept', CountKept, CheckProcNumber
    PROVE  CountKept'
<1>1. /\ UNCHANGED <<child, old, dropped, count, debt, dead, restarts,
                     alarms, broken>>
      /\ main = "checking" /\ main' \in {"accept", "kill", "fork"}
      /\ main' = "fork" => ~(count >= MaxProc)
  BY DEF CheckProcNumber, LimitReached, Again, childVars, ghosts, bounds,
         shmVars
<1>2. main' = "fork" => count < MaxProc
  BY <1>1, TcpServerAssumption DEF TypeOK
<1>3. Running' = Running /\ Twice' = Twice /\ Pending' = Pending
  BY <1>1 DEF Running, Twice, Pending
<1> QED
  BY <1>1, <1>2, <1>3, CountFrame

\* A child is added and will be counted.
LEMMA ForkCount ==
    ASSUME TypeOK, TypeOK', PidsKept, PidsKept', CountKept,
           NEW c \in Child, Fork(c)
    PROVE  CountKept'
<1> SUFFICES ASSUME ~broken PROVE CountKept'
  BY DEF CountKept, CountAccounted, LimitAccounted, Fork, ghosts
<1>1. /\ child[c] = "none" /\ child' = [child EXCEPT ![c] = "new"]
      /\ main = "fork" /\ main' = "increase"
      /\ UNCHANGED <<old, dropped, count, debt, dead, restarts, alarms,
                     broken>>
  BY DEF Fork, Goto, ghosts, shmVars
<1>2. /\ c \notin old /\ c \notin dropped
  BY <1>1 DEF PidsKept, Running, Leaving
<1>3. Running' = Running \cup {c} /\ c \notin Running
  BY <1>1 DEF Running, TypeOK
<1>4. Twice' = Twice
  BY <1>1, <1>2 DEF Twice, TypeOK
<1>5. /\ Serving' \ old' = (Serving \ old) \cup {c} /\ c \notin Serving \ old
      /\ Serving' \cap old' = Serving \cap old
      /\ Serving' = Serving \cup {c} /\ c \notin Serving
  BY <1>1, <1>2, <1>3, ServingIs
<1>6. Cardinality(Serving' \ old') = Cardinality(Serving \ old) + 1
  BY <1>5, CountsFinite, FS_AddElement
<1>7. Pending = 0 /\ Pending' = 1
  BY <1>1 DEF Pending
<1>8. /\ count = Cardinality(Serving \ old) + dead - Pending - debt
      /\ count < MaxProc
      /\ debt + Cardinality(Serving \cap old) + Cardinality(Twice)
             <= MaxProc * restarts + alarms
  BY <1>1 DEF CountKept, CountAccounted, LimitAccounted
<1> DEFINE A == Cardinality(Serving \ old)
           B == Cardinality(Serving \cap old)
           T == Cardinality(Twice)
           Q == MaxProc * restarts
<1>9. /\ A \in Nat /\ B \in Nat /\ T \in Nat
      /\ count \in Int /\ debt \in Nat /\ dead \in Nat /\ alarms \in Nat
      /\ Q \in Nat /\ MaxProc \in Nat
  BY CountsFinite, LimitProduct DEF TypeOK
<1>10. Cardinality(Serving') = A + 1 + B
  <2>1. Cardinality(Serving') = Cardinality(Serving) + 1
    BY <1>5, CountsFinite, FS_AddElement
  <2> QED
    BY <1>9, <2>1, CountsFinite
<1> HIDE DEF A, B, T, Q
<1>11. /\ count = (A + 1) + dead - 1 - debt
       /\ count + 1 <= MaxProc
       /\ debt + B + T <= Q + alarms
       /\ A + 1 + B + T <= MaxProc + Q + alarms
  BY <1>7, <1>8, <1>9 DEF A, B, T, Q
<1>12. CountAccounted'
  BY <1>1, <1>6, <1>7, <1>11 DEF CountAccounted, A
<1>13. LimitAccounted'
  BY <1>1, <1>4, <1>5, <1>7, <1>10, <1>11, LimitProduct
     DEF LimitAccounted, B, T, Q
<1> QED
  BY <1>12, <1>13 DEF CountKept

\* The child recorded is counted.
LEMMA BumpCountCount ==
    ASSUME TypeOK, TypeOK', PidsKept, PidsKept', CountKept, SeenFresh,
           BumpCount
    PROVE  CountKept'
<1> SUFFICES ASSUME ~broken PROVE CountKept'
  BY DEF CountKept, CountAccounted, LimitAccounted, BumpCount, ghosts
<1>1. /\ main = "bump" /\ main' \in {"accept", "kill"}
      /\ count' = count + 1
      /\ UNCHANGED <<child, old, dropped, debt, dead, restarts, alarms, broken>>
  BY DEF BumpCount, SeenFresh, Again, childVars, ghosts, bounds
<1>2. Serving' = Serving /\ Twice' = Twice
  BY <1>1 DEF Serving, Twice, Running
<1>3. Pending = 1 /\ Pending' = 0
  BY <1>1 DEF Pending
<1>4. CountAccounted'
  <2>1. Cardinality(Serving \ old) \in Nat
    BY CountsFinite
  <2> QED
    BY <1>1, <1>2, <1>3, <2>1 DEF CountKept, CountAccounted, TypeOK
<1>5. count + 1 <= MaxProc
  BY <1>1, <1>3 DEF CountKept, LimitAccounted
<1>6. LimitAccounted'
  BY <1>1, <1>2, <1>3, <1>5, TcpServerAssumption
     DEF CountKept, LimitAccounted, TypeOK
<1> QED
  BY <1>4, <1>6 DEF CountKept

\* A server started again counts from 0; all who serve are another's.
LEMMA StartServerCount ==
    ASSUME TypeOK, TypeOK', PidsKept, PidsKept', CountKept, StartServer
    PROVE  CountKept'
<1> SUFFICES ASSUME ~broken' PROVE CountKept'
  BY DEF CountKept, CountAccounted, LimitAccounted
<1>1. /\ ~broken /\ main = "down" /\ main' = "accept"
      /\ count' = 0 /\ debt' = 0 /\ dead' = 0 /\ restarts' = restarts + 1
      /\ UNCHANGED <<child, old, dropped, alarms>>
  BY DEF StartServer, childVars
<1>2. Serving' = Serving /\ Twice' = Twice /\ Pending' = 0
  BY <1>1 DEF Serving, Twice, Running, Pending
<1>3. Serving \subseteq old
  BY <1>1 DEF PidsKept, Serving
<1>4. Serving' \ old' = {} /\ Serving' \cap old' = Serving
  BY <1>1, <1>2, <1>3
<1>5. Cardinality(Serving' \ old') = 0
  BY <1>4, FS_EmptySet
<1>6. CountAccounted'
  BY <1>1, <1>2, <1>5 DEF CountAccounted
<1> DEFINE S == Cardinality(Serving)
           T == Cardinality(Twice)
<1>7. S \in Nat /\ T \in Nat /\ alarms \in Nat /\ MaxProc \in Nat
  BY CountsFinite, TcpServerAssumption DEF TypeOK
<1>8. S + T <= MaxProc * (1 + restarts) + alarms
  BY <1>1 DEF CountKept, LimitAccounted
<1> HIDE DEF S, T
<1>9. /\ MaxProc * restarts' = MaxProc * (1 + restarts)
      /\ MaxProc * (1 + restarts') = MaxProc + MaxProc * restarts'
      /\ MaxProc * restarts' \in Nat
  BY <1>1, TcpServerAssumption DEF TypeOK
<1>10. /\ S + T <= MaxProc * (1 + restarts') + alarms
       /\ 0 + S + T <= MaxProc * restarts' + alarms
       /\ 0 + 0 <= MaxProc
  BY <1>7, <1>8, <1>9
<1>11. LimitAccounted'
  BY <1>1, <1>2, <1>4, <1>10 DEF LimitAccounted, S, T
<1> QED
  BY <1>6, <1>11 DEF CountKept

\* The counter goes down by one, and with it the children it counts, or the
\* debt goes up; the debt is paid for by a child of a server killed before
\* that serves no more, or by an alarm.
LEMMA DropCountCount ==
    ASSUME TypeOK, TypeOK', PidsKept, PidsKept', CountKept, SeenFresh,
           NEW c \in Child, DropCount(c)
    PROVE  CountKept'
<1> SUFFICES ASSUME ~broken PROVE CountKept'
  BY DEF CountKept, CountAccounted, LimitAccounted, DropCount
<1> DEFINE A == Cardinality(Serving \ old)
           B == Cardinality(Serving \cap old)
           S == Cardinality(Serving)
           T == Cardinality(Twice)
           Q == MaxProc * restarts
           R == MaxProc * (1 + restarts)
<1>1. /\ child[c] = "drop" /\ child' = [child EXCEPT ![c] = "unlock"]
      /\ dropped' = dropped \cup {c}
      /\ debt' = IF c \in old \cup dropped THEN debt + 1 ELSE debt
      /\ main' = main /\ main # "ended"
      /\ UNCHANGED <<old, dead, restarts, alarms, broken>>
  BY DEF DropCount, Goto, bounds, mainVars
<1>2. count' = count - 1 /\ Pending' = Pending /\ Running' = Running
  BY <1>1 DEF DropCount, SeenFresh, Pending, Running, TypeOK
<1>3. c \in Running
  BY <1>1 DEF Running
<1>4. Twice' = Twice \ {c} /\ (c \in Twice <=> c \in dropped)
  BY <1>1 DEF Twice, TypeOK
<1>5. Serving' = Serving \ {c} /\ (c \in Serving <=> c \notin dropped)
  BY <1>1, <1>2, <1>3, ServingIs
<1>6. /\ A \in Nat /\ B \in Nat /\ T \in Nat /\ S \in Nat
      /\ count \in Int /\ debt \in Nat /\ dead \in Nat /\ alarms \in Nat
      /\ Q \in Nat /\ R \in Nat /\ MaxProc \in Nat
  BY CountsFinite, LimitProduct DEF TypeOK
<1>7. /\ Cardinality(Serving') = IF c \in dropped THEN S ELSE S - 1
      /\ Cardinality(Twice') = IF c \in dropped THEN T - 1 ELSE T
  <2>1. /\ Cardinality(Serving \ {c}) = IF c \in Serving THEN S - 1 ELSE S
        /\ Cardinality(Twice \ {c}) = IF c \in Twice THEN T - 1 ELSE T
    BY CountsFinite, FS_RemoveElement
  <2> QED
    BY <1>4, <1>5, <2>1
<1>8. /\ Cardinality(Serving' \ old')
             = IF c \in old \cup dropped THEN A ELSE A - 1
      /\ Cardinality(Serving' \cap old')
             = IF c \in old /\ c \notin dropped THEN B - 1 ELSE B
  <2>1. /\ Serving' \ old' = (Serving \ old) \ {c}
        /\ c \in Serving \ old <=> c \notin old \cup dropped
        /\ Serving' \cap old' = (Serving \cap old) \ {c}
        /\ c \in Serving \cap old <=> c \in old /\ c \notin dropped
    BY <1>1, <1>5
  <2>2. /\ Cardinality((Serving \ old) \ {c})
               = IF c \in Serving \ old THEN A - 1 ELSE A
        /\ Cardinality((Serving \cap old) \ {c})
               = IF c \in Serving \cap old THEN B - 1 ELSE B
    BY CountsFinite, FS_RemoveElement
  <2> QED
    BY <2>1, <2>2
<1>9. /\ main # "down" => /\ count = A + dead - Pending - debt
                          /\ count + Pending <= MaxProc
                          /\ main = "fork" => count < MaxProc
                          /\ debt + B + T <= Q + alarms
      /\ S + T <= R + alarms
  BY <1>1 DEF CountKept, CountAccounted, LimitAccounted
<1>10. Pending \in Nat
  BY DEF Pending
<1> DEFINE d == debt'
           a == Cardinality(Serving' \ old')
           b == Cardinality(Serving' \cap old')
           s == Cardinality(Serving')
           t == Cardinality(Twice')
<1> HIDE DEF A, B, S, T, Q, R
<1>11. /\ main # "down" => /\ count - 1 = a + dead - Pending - d
                           /\ count - 1 + Pending <= MaxProc
                           /\ main = "fork" => count - 1 < MaxProc
                           /\ d + b + t <= Q + alarms
       /\ s + t <= R + alarms
  <2>1. CASE c \in dropped
    <3>1. d = debt + 1 /\ a = A /\ b = B /\ s = S /\ t = T - 1
      BY <1>1, <1>7, <1>8, <2>1
    <3> HIDE DEF d, a, b, s, t
    <3> QED
      BY <1>6, <1>9, <1>10, <3>1
  <2>2. CASE c \in old /\ c \notin dropped
    <3>1. d = debt + 1 /\ a = A /\ b = B - 1 /\ s = S - 1 /\ t = T
      BY <1>1, <1>7, <1>8, <2>2
    <3> HIDE DEF d, a, b, s, t
    <3> QED
      BY <1>6, <1>9, <1>10, <3>1
  <2>3. CASE c \notin old /\ c \notin dropped
    <3>1. d = debt /\ a = A - 1 /\ b = B /\ s = S - 1 /\ t = T
      BY <1>1, <1>7, <1>8, <2>3
    <3> HIDE DEF d, a, b, s, t
    <3> QED
      BY <1>6, <1>9, <1>10, <3>1
  <2> QED
    BY <2>1, <2>2, <2>3
<1>12. CountAccounted'
  BY <1>1, <1>2, <1>11 DEF CountAccounted
<1>13. LimitAccounted'
  BY <1>1, <1>2, <1>11 DEF LimitAccounted, Q, R
<1> QED
  BY <1>12, <1>13 DEF CountKept

\* An alarm pays for the child it sends back.
LEMMA LateAlarmCount ==
    ASSUME TypeOK, TypeOK', PidsKept, PidsKept', CountKept,
           NEW c \in Child, LateAlarm(c)
    PROVE  CountKept'
<1> SUFFICES ASSUME ~broken PROVE CountKept'
  BY DEF CountKept, CountAccounted, LimitAccounted, LateAlarm, ghosts
<1>1. /\ child[c] \in Leaving /\ child' = [child EXCEPT ![c] = "leave"]
      /\ alarms' = alarms + 1
      /\ UNCHANGED <<main, count, old, dropped, debt, dead, restarts, broken>>
  BY DEF LateAlarm, Goto, mainVars, shmVars, ghosts
<1>2. Running' = Running /\ Pending' = Pending
  BY <1>1 DEF Running, Pending, TypeOK, Leaving
<1>3. Serving' = Serving
  BY <1>1, <1>2, ServingIs
<1>4. Twice' = Twice \/ Twice' = Twice \cup {c}
  BY <1>1 DEF Twice, TypeOK
<1> DEFINE T == Cardinality(Twice)
           t == Cardinality(Twice')
<1>5. t = T \/ t = T + 1
  <2>1. Cardinality(Twice \cup {c}) = IF c \in Twice THEN T ELSE T + 1
    BY CountsFinite, FS_AddElement
  <2> QED
    BY <1>4, <2>1
<1>6. T \in Nat /\ alarms \in Nat
  BY CountsFinite DEF TypeOK
<1> HIDE DEF T, t
<1>7. CountAccounted'
  BY <1>1, <1>2, <1>3 DEF CountKept, CountAccounted
<1>8. LimitAccounted'
  <2> DEFINE S == Cardinality(Serving)
             B == debt + Cardinality(Serving \cap old)
             Q == MaxProc * restarts
             R == MaxProc * (1 + restarts)
  <2>1. S \in Nat /\ B \in Nat /\ Q \in Nat /\ R \in Nat
    BY CountsFinite, LimitProduct DEF TypeOK
  <2>2. /\ S + T <= R + alarms
        /\ main \notin {"ended", "down"} =>
              /\ count + Pending <= MaxProc
              /\ main = "fork" => count < MaxProc
              /\ B + T <= Q + alarms
    BY DEF CountKept, LimitAccounted, T
  <2> HIDE DEF S, B, Q, R
  <2>3. /\ S + t <= R + (alarms + 1)
        /\ main \notin {"ended", "down"} => B + t <= Q + (alarms + 1)
    BY <1>5, <1>6, <2>1, <2>2
  <2> QED
    BY <1>1, <1>2, <1>3, <2>2, <2>3 DEF LimitAccounted, S, B, Q, R, t
<1> QED
  BY <1>7, <1>8 DEF CountKept

\* A child that exits has been taken off already; when the server has ended,
\* nobody is counted any more.
LEMMA ExitCount ==
    ASSUME TypeOK, TypeOK', PidsKept, PidsKept', CountKept,
           NEW c \in Child, Exit(c) \/ LeaveAfterEnd(c)
    PROVE  CountKept'
<1>1. /\ \E to \in {"none", "zombie"} : child' = [child EXCEPT ![c] = to]
      /\ old' = old \ {c} /\ dropped' = dropped \ {c}
      /\ child[c] = "exiting" \/ main = "ended"
      /\ UNCHANGED <<main, count, debt, dead, restarts, alarms, broken>>
  BY DEF Exit, LeaveAfterEnd, Goto, Gone, mainVars, shmVars, bounds
<1>2. Running' = Running \ {c}
  BY <1>1 DEF Running, TypeOK
<1>3. Serving' = Serving \ {c}
  BY <1>1, <1>2, ServingIs
<1>4. Twice' = Twice \ {c}
  BY <1>1 DEF Twice, TypeOK
<1>5. CASE main = "ended"
  <2>1. /\ Cardinality(Serving') <= Cardinality(Serving)
        /\ Cardinality(Twice') <= Cardinality(Twice)
    <3>1. Serving' \in SUBSET Serving /\ Twice' \in SUBSET Twice
      BY <1>3, <1>4
    <3> QED
      BY <3>1, CountsFinite, FS_Subset
  <2>2. CountAccounted'
    BY <1>1, <1>5 DEF CountAccounted
  <2>3. LimitAccounted'
    <3>1. /\ Cardinality(Serving) \in Nat /\ Cardinality(Serving') \in Nat
          /\ Cardinality(Twice) \in Nat /\ Cardinality(Twice') \in Nat
      BY <1>3, <1>4, CountsFinite, FS_RemoveElement, FS_CardinalityType
    <3>2. MaxProc * (1 + restarts) \in Nat /\ alarms \in Nat
      BY LimitProduct DEF TypeOK
    <3> DEFINE R == MaxProc * (1 + restarts)
    <3>3. ~broken => Cardinality(Serving) + Cardinality(Twice) <= R + alarms
      BY DEF CountKept, LimitAccounted
    <3> HIDE DEF R
    <3>4. ~broken => Cardinality(Serving') + Cardinality(Twice') <= R + alarms
      BY <2>1, <3>1, <3>2, <3>3 DEF R
    <3> QED
      BY <1>1, <1>5, <3>4 DEF LimitAccounted, R
  <2> QED
    BY <2>2, <2>3 DEF CountKept
<1>6. CASE child[c] = "exiting"
  <2>1. c \in dropped
    BY <1>6 DEF PidsKept
  <2>2. c \notin Serving /\ c \notin Twice
    BY <1>6, <2>1, ServingIs DEF Twice
  <2>3. /\ Serving' = Serving /\ Twice' = Twice
        /\ Serving' \ old' = Serving \ old
        /\ Serving' \cap old' = Serving \cap old
    BY <1>1, <1>3, <1>4, <2>2
  <2>4. Pending' = Pending
    BY <1>1 DEF Pending
  <2> QED
    BY <1>1, <2>3, <2>4 DEF CountKept, CountAccounted, LimitAccounted
<1> QED
  BY <1>1, <1>5, <1>6

\* A child that dies stays in the counter; one that had been taken off it,
\* or that this server never counted, was not in it.
LEMMA ChildDiesCount ==
    ASSUME TypeOK, TypeOK', PidsKept, PidsKept', CountKept,
           NEW c \in Child, ChildDies(c)
    PROVE  CountKept'
<1> SUFFICES ASSUME ~broken PROVE CountKept'
  BY DEF CountKept, CountAccounted, LimitAccounted, ChildDies
<1> DEFINE A == Cardinality(Serving \ old)
           B == Cardinality(Serving \cap old)
           S == Cardinality(Serving)
           T == Cardinality(Twice)
           Q == MaxProc * restarts
           R == MaxProc * (1 + restarts)
<1>1. /\ c \in Running
      /\ \E to \in {"none", "zombie"} : child' = [child EXCEPT ![c] = to]
      /\ old' = old \ {c} /\ dropped' = dropped \ {c}
      /\ dead' = IF c \in old \cup dropped THEN dead ELSE dead + 1
      /\ UNCHANGED <<main, count, debt, restarts, alarms, broken>>
  BY DEF ChildDies, Goto, Gone, mainVars, shmVars
<1>2. Running' = Running \ {c} /\ Pending' = Pending
  BY <1>1 DEF Running, Pending, TypeOK
<1>3. Serving' = Serving \ {c} /\ (c \in Serving <=> c \notin dropped)
  BY <1>1, <1>2, ServingIs
<1>4. Twice' = Twice \ {c} /\ (c \in Twice => c \in dropped)
  BY <1>1 DEF Twice, TypeOK
<1>5. /\ A \in Nat /\ B \in Nat /\ T \in Nat /\ S \in Nat
      /\ count \in Int /\ debt \in Nat /\ dead \in Nat /\ alarms \in Nat
      /\ Q \in Nat /\ R \in Nat /\ MaxProc \in Nat
  BY CountsFinite, LimitProduct DEF TypeOK
<1>6. /\ Cardinality(Serving') = IF c \in dropped THEN S ELSE S - 1
      /\ Cardinality(Twice') \in {T, T - 1}
  <2>1. /\ Cardinality(Serving \ {c}) = IF c \in Serving THEN S - 1 ELSE S
        /\ Cardinality(Twice \ {c}) = IF c \in Twice THEN T - 1 ELSE T
    BY CountsFinite, FS_RemoveElement
  <2> QED
    BY <1>3, <1>4, <2>1
<1>7. /\ Cardinality(Serving' \ old')
             = IF c \in old \cup dropped THEN A ELSE A - 1
      /\ Cardinality(Serving' \cap old')
             = IF c \in old /\ c \notin dropped THEN B - 1 ELSE B
  <2>1. /\ Serving' \ old' = (Serving \ old) \ {c}
        /\ c \in Serving \ old <=> c \notin old \cup dropped
        /\ Serving' \cap old' = (Serving \cap old) \ {c}
        /\ c \in Serving \cap old <=> c \in old /\ c \notin dropped
    BY <1>1, <1>3
  <2>2. /\ Cardinality((Serving \ old) \ {c})
               = IF c \in Serving \ old THEN A - 1 ELSE A
        /\ Cardinality((Serving \cap old) \ {c})
               = IF c \in Serving \cap old THEN B - 1 ELSE B
    BY CountsFinite, FS_RemoveElement
  <2> QED
    BY <2>1, <2>2
<1>8. /\ main \notin {"ended", "down"} =>
            /\ count = A + dead - Pending - debt
            /\ count + Pending <= MaxProc
            /\ main = "fork" => count < MaxProc
            /\ debt + B + T <= Q + alarms
      /\ S + T <= R + alarms
  BY DEF CountKept, CountAccounted, LimitAccounted
<1>9. Pending \in Nat
  BY DEF Pending
<1> DEFINE n == dead'
           a == Cardinality(Serving' \ old')
           b == Cardinality(Serving' \cap old')
           s == Cardinality(Serving')
           t == Cardinality(Twice')
<1>10. /\ a + n = A + dead /\ b \in {B, B - 1}
       /\ s \in {S, S - 1} /\ t \in {T, T - 1}
       /\ a \in Int /\ n \in Int
  BY <1>1, <1>5, <1>6, <1>7
<1> HIDE DEF A, B, S, T, Q, R, n, a, b, s, t
<1>11. /\ main \notin {"ended", "down"} =>
             /\ count = a + n - Pending - debt
             /\ debt + b + t <= Q + alarms
       /\ s + t <= R + alarms
  BY <1>5, <1>8, <1>9, <1>10
<1>12. CountAccounted'
  BY <1>1, <1>2, <1>11 DEF CountAccounted, a, n
<1>13. LimitAccounted'
  BY <1>1, <1>2, <1>8, <1>11 DEF LimitAccounted, b, s, t, Q, R
<1> QED
  BY <1>12, <1>13 DEF CountKept

\* Every step keeps the account of the counter and of its limit.
LEMMA CountStep ==
    ASSUME TypeOK, TypeOK', PidsKept, PidsKept', SeenFresh, CountKept,
           [Next]_vars
    PROVE  CountKept'
<1> USE DEF shmVars, semVars, childVars, bounds, ghosts, mainVars, Goto
<1>1. CASE Accept \/ ForkFails \/ ScanTable \/ LockServer \/ StorePid
           \/ UNCHANGED vars
  <2>1. /\ UNCHANGED <<child, old, dropped, count, debt, dead, restarts,
                       alarms, broken>>
        /\ main' \notin {"ended", "down"} =>
              /\ main \notin {"ended", "down"}
              /\ Pending' = Pending
              /\ main' = "fork" => main = "fork"
    BY <1>1, AfterFacts
       DEF Accept, ForkFails, ScanTable, LockServer, StorePid, Again, Pending,
           vars
  <2>2. Running' = Running /\ Twice' = Twice
    BY <2>1 DEF Running, Twice
  <2>3. ~broken /\ main = "fork" => count < MaxProc
    BY DEF CountKept, LimitAccounted
  <2> QED
    BY <2>1, <2>2, <2>3, CountFrame
<1>2. CASE CheckProcNumber
  BY <1>2, CheckCount
<1>3. ASSUME NEW p \in Child, Fork(p) PROVE CountKept'
  BY <1>3, ForkCount
<1>4. CASE BumpCount
  BY <1>4, BumpCountCount
<1>5. CASE KillNext
  <2>1. /\ UNCHANGED <<old, dropped, count, debt, dead, restarts, alarms>>
        /\ ~broken' => ~broken
        /\ main = "killing" /\ main' \in {"killing", "wait"}
        /\ \A p \in Child : \/ child'[p] = child[p]
                            \/ child[p] = "recv" /\ child'[p] = "leave"
                            \/ child[p] = "leave" /\ child'[p] = "clear"
    BY <1>5 DEF KillNext, Sigterm, TypeOK
  <2>2. Running' = Running /\ Pending' = Pending
    BY <2>1 DEF Running, Pending
  <2>3. \A p \in dropped : child[p] # "recv" /\ p \in Child
    BY DEF PidsKept, Leaving, TypeOK
  <2>4. Twice' = Twice
    BY <2>1, <2>3 DEF Twice
  <2> QED
    BY <2>1, <2>2, <2>4, CountFrame
<1>6. CASE SigtermServer \/ Reap
  <2>1. /\ UNCHANGED <<old, dropped, count, debt, dead, restarts, alarms>>
        /\ main \notin {"ended", "down"}
        /\ \A p \in Child : \/ child'[p] = child[p]
                            \/ child[p] = "zombie" /\ child'[p] = "none"
    BY <1>6 DEF SigtermServer, Reap
  <2>2. /\ ~broken' => ~broken
        /\ Pending' = Pending /\ (main' = "fork" => main = "fork")
    BY <1>6, InterruptFacts DEF SigtermServer, Reap, Pending, TypeOK
  <2>3. Running' = Running
    BY <2>1 DEF Running
  <2>4. Twice' = Twice
    BY <2>1 DEF Twice, TypeOK
  <2>5. ~broken /\ main = "fork" => count < MaxProc
    BY <2>1 DEF CountKept, LimitAccounted
  <2> QED
    BY <2>1, <2>2, <2>3, <2>4, <2>5, CountFrame
<1>7. CASE ServerDies
  <2>1. /\ UNCHANGED <<dropped, count, debt, dead, restarts, alarms, broken>>
        /\ main' = "down"
        /\ \A p \in Child : \/ child'[p] = child[p]
                            \/ child[p] = "zombie" /\ child'[p] = "none"
    BY <1>7 DEF ServerDies
  <2>2. Running' = Running /\ Twice' = Twice
    BY <2>1 DEF Running, Twice, TypeOK
  <2>3. Serving' = Serving
    BY <2>1, <2>2, ServingIs
  <2> QED
    BY <2>1, <2>2, <2>3 DEF CountKept, CountAccounted, LimitAccounted
<1>8. CASE StartServer
  BY <1>8, StartServerCount
<1>9. ASSUME NEW p \in Child,
              \/ InstallHandlers(p) \/ Message(p) \/ Reply(p)
              \/ ClientGone(p) \/ TimeOut(p)
              \/ LockChild(p) \/ ClearPid(p) \/ UnlockChild(p)
       PROVE  CountKept'
  <2>1. UNCHANGED <<main, old, dropped, count, debt, dead, restarts, alarms,
                    broken>>
    BY <1>9 DEF InstallHandlers, Message, Reply, ClientGone, TimeOut, Serve,
                LockChild, ClearPid, UnlockChild
  <2>2. \E from, to \in {"new", "recv", "deal", "leave", "clear", "drop",
                         "unlock", "exiting"} :
            /\ child[p] = from /\ child' = [child EXCEPT ![p] = to]
            /\ from \notin {"new", "recv", "deal"} =>
                  \/ from \in {"leave", "clear"} /\ to \in {"clear", "drop"}
                  \/ from = "unlock" /\ to = "exiting"
    BY <1>9 DEF InstallHandlers, Message, Reply, ClientGone, TimeOut, Serve,
                LockChild, ClearPid, UnlockChild
  <2>3. Running' = Running /\ Pending' = Pending
    BY <2>1, <2>2 DEF Running, Pending, TypeOK
  <2>4. \A q \in dropped : child[q] \in Leaving /\ q \in Child
    BY DEF PidsKept, TypeOK
  <2>5. Twice' = Twice
    BY <2>1, <2>2, <2>4 DEF Twice, TypeOK, Leaving
  <2>6. ~broken /\ main = "fork" => count < MaxProc
    BY DEF CountKept, LimitAccounted
  <2> QED
    BY <2>1, <2>3, <2>5, <2>6, CountFrame
<1>10. ASSUME NEW p \in Child, LateAlarm(p) PROVE CountKept'
  BY <1>10, LateAlarmCount
<1>11. ASSUME NEW p \in Child, DropCount(p) PROVE CountKept'
  BY <1>11, DropCountCount
<1>12. ASSUME NEW p \in Child, Exit(p) \/ LeaveAfterEnd(p) PROVE CountKept'
  BY <1>12, ExitCount
<1>13. ASSUME NEW p \in Child, ChildDies(p) PROVE CountKept'
  BY <1>13, ChildDiesCount
<1> QED
  BY <1>1, <1>2, <1>3, <1>4, <1>5, <1>6, <1>7, <1>8, <1>9, <1>10, <1>11,
     <1>12, <1>13 DEF Next, ServerStep, ChildStep

\* As long as nobody has passed the semaphore without waiting, nProcCount is
\* the number of this server's children that serve and of those that died
\* before they could be taken off it, less the debt.
THEOREM CountAccountedHolds == Spec => [](CountAccounted /\ LimitAccounted)
<1>1. Init => CountKept
  <2> SUFFICES ASSUME Init PROVE CountKept
    OBVIOUS
  <2>1. Serving = {} /\ Twice = {} /\ Pending = 0
    BY DEF Init, Serving, Running, Twice, Pending
  <2>2. Serving \ old = {} /\ Serving \cap old = {}
    BY <2>1
  <2>3. /\ Cardinality(Serving) = 0 /\ Cardinality(Twice) = 0
        /\ Cardinality(Serving \ old) = 0 /\ Cardinality(Serving \cap old) = 0
    BY <2>1, <2>2, FS_EmptySet
  <2>4. /\ count = 0 /\ debt = 0 /\ dead = 0 /\ restarts = 0 /\ alarms = 0
        /\ main = "accept"
    BY DEF Init
  <2>5. /\ MaxProc * (1 + restarts) = MaxProc /\ MaxProc * restarts = 0
        /\ MaxProc \in Nat
    BY <2>4, TcpServerAssumption
  <2>6. CountAccounted
    BY <2>1, <2>3, <2>4 DEF CountAccounted
  <2>7. LimitAccounted
    BY <2>1, <2>3, <2>4, <2>5 DEF LimitAccounted
  <2> QED
    BY <2>6, <2>7 DEF CountKept
<1>2. TypeOK /\ TypeOK' /\ PidsKept /\ PidsKept' /\ SeenFresh /\ CountKept
          /\ [Next]_vars => CountKept'
  BY CountStep
<1> QED
  BY <1>1, <1>2, TypeCorrect, SeenFreshHolds, PTL DEF Spec, CountKept

\* MaxProc limits the children that serve; only a server killed and started
\* again, or an alarm that takes a child off twice, raises that limit.
THEOREM LimitHoldsAlways == Spec => []LimitHolds
<1>1. TypeOK /\ LimitAccounted => LimitHolds
  <2> SUFFICES ASSUME TypeOK, LimitAccounted, ~broken
               PROVE  Cardinality(Serving)
                          <= MaxProc * (1 + restarts) + alarms
    BY DEF LimitHolds
  <2> DEFINE R == MaxProc * (1 + restarts) + alarms
  <2>1. Cardinality(Serving) + Cardinality(Twice) <= R
    BY DEF LimitAccounted
  <2>2. /\ Cardinality(Serving) \in Nat /\ Cardinality(Twice) \in Nat
        /\ R \in Nat
    BY CountsFinite, LimitProduct DEF TypeOK
  <2> HIDE DEF R
  <2>3. Cardinality(Serving) <= R
    BY <2>1, <2>2
  <2> QED
    BY <2>3 DEF R
<1> QED
  BY <1>1, TypeCorrect, CountAccountedHolds, PTL

-----------------------------------------------------------------------------
(* The table of pids.                                                      *)

\* A set of entries that is not empty has a first one: among the ranges that
\* end at its members, one includes no other.
LEMMA FirstEntry ==
    ASSUME NEW S \in SUBSET Slot, S # {}
    PROVE  (CHOOSE i \in S : \A j \in S : i <= j) \in S
<1> DEFINE T == {1 .. i : i \in S}
<1>1. T \subseteq FiniteSubsetsOf(Slot) /\ T # {}
  <2>1. ASSUME NEW i \in S PROVE 1 .. i \in FiniteSubsetsOf(Slot)
    <3>1. 1 .. i \subseteq Slot
      BY TcpServerAssumption DEF Slot
    <3>2. IsFiniteSet(1 .. i)
      BY FS_Interval DEF Slot
    <3> QED
      BY <3>1, <3>2 DEF FiniteSubsetsOf
  <2> QED
    BY <2>1
<1>2. \E X \in T : \A Y \in T : ~(<<Y, X>> \in StrictSubsetOrdering(Slot))
  BY <1>1, FS_StrictSubsetOrderingWellFounded, WFMin
<1>3. PICK i \in S : \A j \in S :
          ~(<<1 .. j, 1 .. i>> \in StrictSubsetOrdering(Slot))
  BY <1>2
<1>4. ASSUME NEW j \in S PROVE i <= j
  <2> SUFFICES ASSUME j < i PROVE FALSE
    BY DEF Slot
  <2>1. 1 .. j \subseteq 1 .. i /\ 1 .. j # 1 .. i
    <3>1. i \in 1 .. i /\ i \notin 1 .. j
      BY DEF Slot
    <3> QED
      BY <3>1 DEF Slot
  <2>2. /\ 1 .. j \in SUBSET Slot /\ 1 .. i \in SUBSET Slot
        /\ 1 .. j \in FiniteSubsetsOf(Slot) /\ 1 .. i \in FiniteSubsetsOf(Slot)
    BY <1>1, TcpServerAssumption DEF FiniteSubsetsOf, Slot
  <2> QED
    BY <1>3, <2>1, <2>2 DEF StrictSubsetOrdering
<1> QED
  BY <1>4

\* A step that takes no pid out of the table and starts no child.
LEMMA RecordedFrame ==
    ASSUME PidsKept, Recorded, UNCHANGED <<table, newPid>>,
           old \subseteq old', unstored \subseteq unstored',
           main \in {"increase", "store"} => main' \in {"increase", "store"},
           \A p \in Child : /\ p \in Running' => p \in Running
                            /\ child[p] \in Leaving /\ p \in Running'
                                  => child'[p] \in Leaving
    PROVE  Recorded'
BY DEF Recorded, Running

\* While the server runs, every step keeps who serves in the table.
LEMMA RecordedStep ==
    ASSUME TypeOK, TypeOK', PidsKept, PidsKept', Recorded,
           main # "ended", [Next]_vars
    PROVE  Recorded'
<1> USE DEF shmVars, semVars, childVars, bounds, ghosts, mainVars, Goto
<1>1. CASE Accept \/ ForkFails \/ ScanTable \/ LockServer \/ CheckProcNumber
           \/ UNCHANGED vars
  <2>1. /\ UNCHANGED <<table, newPid, old, unstored, child>>
        /\ main \in {"increase", "store"} => main' \in {"increase", "store"}
    BY <1>1, AfterFacts
       DEF Accept, ForkFails, ScanTable, LockServer, CheckProcNumber, vars
  <2> QED
    BY <2>1, RecordedFrame DEF Running
<1>2. ASSUME NEW c \in Child, Fork(c) PROVE Recorded'
  <2>1. /\ child[c] = "none" /\ child' = [child EXCEPT ![c] = "new"]
        /\ main = "fork" /\ main' = "increase" /\ newPid' = c
        /\ UNCHANGED <<table, old, unstored>>
    BY <1>2 DEF Fork
  <2>2. \A p \in Child \ {c} : child'[p] = child[p]
    BY <2>1 DEF TypeOK
  <2> QED
    BY <2>1, <2>2 DEF Recorded, Running
<1>3. CASE StorePid
  <2> DEFINE free == {i \in Slot : table[i] = Free}
             at == CHOOSE i \in free : \A j \in free : i <= j
  <2>1. /\ main = "store" /\ UNCHANGED <<newPid, child, old>>
        /\ newPid \in Child
    BY <1>3 DEF StorePid, PidsKept
  <2>2. CASE free = {}
    <3>1. /\ unstored' = unstored \cup ({newPid} \cap Running)
          /\ table' = table
      BY <1>3, <2>2 DEF StorePid
    <3> QED
      BY <2>1, <3>1 DEF Recorded, Running
  <2>3. CASE free # {}
    <3>1. at \in free
      BY <2>3, FirstEntry
    <3>2. table' = [table EXCEPT ![at] = newPid] /\ unstored' = unstored
      BY <1>3, <2>3 DEF StorePid
    <3> HIDE DEF at
    <3>3. /\ at \in Slot /\ table[at] \notin Child /\ table'[at] = newPid
          /\ \A i \in Slot \ {at} : table'[i] = table[i]
      BY <3>1, <3>2, TcpServerAssumption DEF TypeOK
    <3> QED
      BY <2>1, <3>2, <3>3 DEF Recorded, Running
  <2> QED
    BY <2>2, <2>3
<1>4. CASE BumpCount
  <2>1. main = "bump" /\ UNCHANGED <<table, child, old, unstored>>
    BY <1>4 DEF BumpCount
  <2> QED
    BY <2>1 DEF Recorded, Running
<1>5. CASE KillNext
  <2>1. /\ UNCHANGED <<table, newPid, old, unstored>> /\ main = "killing"
        /\ \A p \in Child : \/ child'[p] = child[p]
                            \/ child[p] = "recv" /\ child'[p] = "leave"
                            \/ child[p] = "leave" /\ child'[p] = "clear"
    BY <1>5 DEF KillNext, Sigterm, TypeOK
  <2> QED
    BY <2>1, RecordedFrame DEF Running, Leaving
<1>6. CASE SigtermServer \/ Reap
  <2>1. /\ UNCHANGED <<table, newPid, old, unstored>>
        /\ \A p \in Child : \/ child'[p] = child[p]
                            \/ child[p] = "zombie" /\ child'[p] = "none"
    BY <1>6 DEF SigtermServer, Reap
  <2>2. main \in {"increase", "store"} => main' \in {"increase", "store"}
    BY <1>6, InterruptFacts DEF SigtermServer, Reap, TypeOK
  <2> QED
    BY <2>1, <2>2, RecordedFrame DEF Running
<1>7. CASE ServerDies
  <2>1. /\ \A p \in Child : \/ child'[p] = child[p]
                            \/ child[p] = "zombie" /\ child'[p] = "none"
        /\ old' = Running
    BY <1>7 DEF ServerDies
  <2>2. Running' \subseteq old'
    BY <2>1 DEF Running
  <2> QED
    BY <2>2 DEF Recorded
<1>8. CASE StartServer
  <2>1. main = "down" /\ UNCHANGED <<child, old>>
    BY <1>8 DEF StartServer
  <2>2. Running' \subseteq old'
    BY <2>1 DEF Running, PidsKept
  <2> QED
    BY <2>2 DEF Recorded
<1>9. ASSUME NEW c \in Child,
             \/ InstallHandlers(c) \/ Message(c) \/ Reply(c)
             \/ ClientGone(c) \/ TimeOut(c) \/ LateAlarm(c)
             \/ LockChild(c) \/ DropCount(c) \/ UnlockChild(c)
      PROVE  Recorded'
  <2>1. UNCHANGED <<main, table, newPid, old, unstored>>
    BY <1>9 DEF InstallHandlers, Message, Reply, ClientGone, TimeOut, Serve,
                LateAlarm, LockChild, DropCount, UnlockChild
  <2>2. /\ c \in Running
        /\ \E to \in {"recv", "deal", "leave", "clear", "unlock", "exiting"} :
              /\ child' = [child EXCEPT ![c] = to]
              /\ child[c] \in Leaving => to \in Leaving
    BY <1>9 DEF InstallHandlers, Message, Reply, ClientGone, TimeOut, Serve,
                LateAlarm, LockChild, DropCount, UnlockChild, Leaving, Running
  <2>3. \A p \in Child : /\ p \in Running' => p \in Running
                         /\ child[p] \in Leaving => child'[p] \in Leaving
    BY <2>2 DEF Running, TypeOK
  <2> QED
    BY <2>1, <2>3, RecordedFrame
<1>10. ASSUME NEW c \in Child, ClearPid(c) PROVE Recorded'
  <2> DEFINE mine == {i \in Slot : table[i] = c}
             at == CHOOSE i \in mine : \A j \in mine : i <= j
  <2>1. /\ child' = [child EXCEPT ![c] = "drop"] /\ child[c] = "clear"
        /\ UNCHANGED <<main, newPid, old, unstored>>
        /\ table' = IF mine = {} THEN table ELSE [table EXCEPT ![at] = Free]
    BY <1>10 DEF ClearPid
  <2>2. child'[c] \in Leaving /\ \A p \in Child \ {c} : child'[p] = child[p]
    BY <2>1 DEF TypeOK, Leaving
  <2>3. \A i \in Slot : table[i] # c => table'[i] = table[i]
    <3>1. mine # {} => at \in mine
      BY FirstEntry
    <3> HIDE DEF at
    <3> QED
      BY <2>1, <3>1 DEF TypeOK
  <2> QED
    BY <2>1, <2>2, <2>3 DEF Recorded, Running
<1>11. ASSUME NEW c \in Child, Exit(c) \/ ChildDies(c) PROVE Recorded'
  <2>1. /\ UNCHANGED <<main, table, newPid>>
        /\ old' = old \ {c} /\ unstored' = unstored \ {c}
        /\ \E to \in {"none", "zombie"} : child' = [child EXCEPT ![c] = to]
    BY <1>11 DEF Exit, ChildDies, Gone
  <2>2. c \notin Running' /\ \A p \in Child \ {c} : child'[p] = child[p]
    BY <2>1 DEF Running, TypeOK
  <2> QED
    BY <2>1, <2>2 DEF Recorded, Running
<1>12. \A c \in Child : ~LeaveAfterEnd(c)
  BY DEF LeaveAfterEnd
<1> QED
  BY <1>1, <1>2, <1>3, <1>4, <1>5, <1>6, <1>7, <1>8, <1>9, <1>10, <1>11,
     <1>12 DEF Next, ServerStep, ChildStep

\* The server ends when nobody the table names is alive; what lives on then
\* is leaving, or was never in the table.
LEMMA EndedStep ==
    ASSUME TypeOK, TypeOK', RecordedOrEnded, [Next]_vars
    PROVE  NoOrphans'
<1> SUFFICES ASSUME main' = "ended" PROVE NoOrphans'
  BY DEF NoOrphans
<1> USE DEF shmVars, semVars, childVars, bounds, ghosts, mainVars, Goto
<1>1. CASE ScanTable
  <2>1. /\ main = "scan" /\ NobodyAlive
        /\ UNCHANGED <<child, old, unstored, table>>
    BY <1>1 DEF ScanTable
  <2>2. \A p \in Running, i \in Slot : table[i] # p
    BY <2>1, TcpServerAssumption DEF NobodyAlive, Running
  <2> QED
    BY <2>1, <2>2 DEF RecordedOrEnded, Recorded, NoOrphans, Running
<1>2. CASE main = "ended"
  <2>1. ASSUME NEW c \in Child,
               \/ InstallHandlers(c) \/ Message(c) \/ Reply(c)
               \/ ClientGone(c) \/ TimeOut(c) \/ LateAlarm(c)
        PROVE  NoOrphans'
    <3>1. /\ UNCHANGED <<old, unstored>> /\ c \in Running
          /\ \E to \in {"recv", "deal", "leave"} :
                /\ child' = [child EXCEPT ![c] = to]
                /\ child[c] \in Leaving => to \in Leaving
      BY <2>1 DEF InstallHandlers, Message, Reply, ClientGone, TimeOut, Serve,
                  LateAlarm, Leaving, Running
    <3>2. \A p \in Running' :
              p \in Running /\ (child[p] \in Leaving => child'[p] \in Leaving)
      BY <3>1 DEF Running, TypeOK
    <3> QED
      BY <1>2, <3>1, <3>2 DEF RecordedOrEnded, NoOrphans
  <2>2. ASSUME NEW c \in Child, LeaveAfterEnd(c) \/ ChildDies(c)
        PROVE  NoOrphans'
    <3>1. /\ child' = [child EXCEPT ![c] = "none"]
          /\ old' = old \ {c} /\ unstored' = unstored \ {c}
      BY <1>2, <2>2 DEF LeaveAfterEnd, ChildDies, Gone
    <3>2. c \notin Running' /\ \A p \in Child \ {c} : child'[p] = child[p]
      BY <3>1 DEF Running, TypeOK
    <3> QED
      BY <1>2, <3>1, <3>2 DEF RecordedOrEnded, NoOrphans, Running
  <2>3. CASE UNCHANGED vars
    BY <1>2, <2>3 DEF vars, RecordedOrEnded, NoOrphans, Running
  <2>4. /\ ~Accept /\ ~ForkFails /\ ~ScanTable /\ ~LockServer
        /\ ~CheckProcNumber /\ ~StorePid /\ ~BumpCount /\ ~KillNext
        /\ ~SigtermServer /\ ~Reap /\ ~ServerDies /\ ~StartServer
        /\ \A c \in Child : ~Fork(c) /\ ~LockChild(c) /\ ~ClearPid(c)
                            /\ ~DropCount(c) /\ ~UnlockChild(c) /\ ~Exit(c)
    BY <1>2, AfterFacts
       DEF Accept, ForkFails, ScanTable, LockServer, CheckProcNumber, StorePid,
           BumpCount, KillNext, SigtermServer, Reap, ServerDies, StartServer,
           Fork, LockChild, ClearPid, DropCount, UnlockChild, Exit
  <2> QED
    BY <2>1, <2>2, <2>3, <2>4 DEF Next, ServerStep, ChildStep
<1>3. CASE main # "ended" /\ ~ScanTable
  <2>2. ~SigtermServer /\ ~Reap
    BY InterruptFacts, <1>3 DEF SigtermServer, Reap, TypeOK
  <2>3. /\ ~Accept /\ ~ForkFails /\ ~LockServer
        /\ ~CheckProcNumber /\ ~StorePid /\ ~BumpCount /\ ~KillNext
        /\ ~ServerDies /\ ~StartServer
        /\ \A c \in Child : ~Fork(c)
    BY <1>3, AfterFacts
       DEF Accept, ForkFails, LockServer, CheckProcNumber, StorePid,
           BumpCount, KillNext, ServerDies, StartServer, Fork, Again
  <2>4. ASSUME NEW c \in Child, ChildStep(c) \/ LateAlarm(c) \/ ChildDies(c)
        PROVE  FALSE
    BY <2>4, <1>3 DEF ChildStep, InstallHandlers, Message, Reply, ClientGone,
          TimeOut, Serve, LateAlarm, LockChild, ClearPid, DropCount,
          UnlockChild, Exit, LeaveAfterEnd, ChildDies
  <2>5. UNCHANGED vars => FALSE
    BY <1>3 DEF vars
  <2> QED
    BY <1>3, <2>2, <2>3, <2>4, <2>5 DEF Next, ServerStep
<1> QED
  BY <1>1, <1>2, <1>3

\* When the server has ended none of its children serves any more, but those
\* the table had no room for and those of a server that was killed.
THEOREM NoOrphansHolds == Spec => []NoOrphans
<1>1. Init => RecordedOrEnded
  BY DEF Init, RecordedOrEnded, Recorded, NoOrphans, Running
<1>2. TypeOK /\ TypeOK' /\ PidsKept /\ PidsKept' /\ RecordedOrEnded
          /\ [Next]_vars => RecordedOrEnded'
  <2> SUFFICES ASSUME TypeOK, TypeOK', PidsKept, PidsKept', RecordedOrEnded,
                      [Next]_vars
               PROVE  RecordedOrEnded'
    OBVIOUS
  <2>1. NoOrphans'
    BY EndedStep
  <2>2. CASE main # "ended"
    BY <2>1, <2>2, RecordedStep DEF RecordedOrEnded
  <2>3. CASE main = "ended"
    <3>1. main' = "ended"
      BY <2>3, AfterFacts, InterruptFacts
         DEF Next, ServerStep, ChildStep, Accept, ForkFails, ScanTable,
             LockServer, CheckProcNumber, StorePid, BumpCount, KillNext,
             SigtermServer, Reap, ServerDies, StartServer, Fork, LockChild,
             ClearPid, DropCount, UnlockChild, Exit, InstallHandlers, Message,
             Reply, ClientGone, TimeOut, Serve, LateAlarm, LeaveAfterEnd,
             ChildDies, vars, mainVars
    <3> QED
      BY <2>1, <3>1 DEF RecordedOrEnded
  <2> QED
    BY <2>2, <2>3
<1> QED
  BY <1>1, <1>2, TypeCorrect, PTL DEF Spec, RecordedOrEnded
=============================================================================
