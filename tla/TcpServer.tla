------------------------------ MODULE TcpServer ------------------------------
(***************************************************************************)
(* The processes of TcpServer: a server that forks one child per           *)
(* connection, the table of the children's pids in shared memory with its  *)
(* counter and its semaphore, and the signals SIGTERM, SIGCHLD and SIGALRM.*)
(*                                                                         *)
(* No handler is installed with SA_RESTART and semop never restarts: a     *)
(* signal that arrives while a process waits for the semaphore lets it go  *)
(* on without the lock (locksem's result is only logged).  SEM_UNDO gives  *)
(* back at exit what a process has taken and not returned.                 *)
(***************************************************************************)
EXTENDS Integers, FiniteSets

CONSTANTS Child,      \* pids the system gives to children
          Server,     \* the main process
          Slots,      \* MAXPROCNUMBER, entries of the table
          MaxProc,    \* MaxProc of TcpServer.cfg
          MaxForks,   \* bound on connections served
          MaxFaults   \* bound on crashes, failing forks, interrupted waits of
                      \* the server and alarms that hit a leaving child

Free == "-1"                \* the pid of an entry that is free

ASSUME TcpServerAssumption ==
    /\ IsFiniteSet(Child) /\ Server \notin Child /\ Free \notin Child
    /\ Slots \in Nat \ {0} /\ MaxProc \in Nat \ {0}
    /\ MaxForks \in Nat /\ MaxFaults \in Nat

VARIABLES
    main,     \* where the server is
    quit,     \* MainQuitFlag
    newPid,   \* childpid, the child being recorded
    scan,     \* the entry Killsonpid is at
    seen,     \* nProcCount as each process has read it to change it
    table,    \* ProcPid
    count,    \* nProcCount
    sem,      \* the semaphore
    undo,     \* what SEM_UNDO has noted for each process
    child,    \* where each child is
    told,     \* the children with sonquit 1
    handler,  \* the children in TimeOut, the handler of SIGALRM
    forks, faults,
    old,      \* children of a server that was killed
    unstored, \* children the table had no room for
    deaf,     \* children whose SIGTERM came before they had a handler for it
    dropped,  \* children that have been taken off the counter
    debt,     \* times the counter was lowered for a child not counted in it
    dead,     \* children that died without having been taken off it
    restarts, alarms,
    broken    \* somebody was in the critical section without the lock

mainVars == <<main, quit, newPid, scan>>
shmVars == <<table, count>>
semVars == <<sem, undo>>
childVars == <<child, told, handler>>
bounds == <<forks, faults, restarts, alarms>>
ghosts == <<old, unstored, deaf, dropped, debt, dead, broken>>
vars == <<mainVars, seen, shmVars, semVars, childVars, bounds, ghosts>>

-----------------------------------------------------------------------------
Slot == 1 .. Slots

\* locksem is called at these places; After says what follows it.
After == [check |-> "checking", increase |-> "store", kill |-> "killing",
          wait |-> "scan"]
Leaving == {"leave", "clear", "drop", "unlock", "exiting"}
ServerInside == {"checking", "store", "bump", "killing", "scan"}
ChildInside == {"clear", "drop", "unlock"}
Running == {p \in Child : child[p] \notin {"none", "zombie"}}

TypeOK ==
    /\ main \in {"accept", "fork", "ended", "down"}
                 \cup DOMAIN After \cup ServerInside
    /\ quit \in BOOLEAN
    /\ newPid \in Child \cup {Server}
    /\ scan \in Slot
    /\ seen \in [Child \cup {Server} -> Int]
    /\ table \in [Slot -> Child \cup {Free}]
    /\ count \in Int
    /\ sem \in Nat
    /\ undo \in [Child \cup {Server} -> Int]
    /\ child \in [Child -> {"none", "new", "recv", "deal", "zombie"} \cup Leaving]
    /\ told \subseteq Child /\ handler \subseteq Child
    /\ forks \in 0 .. MaxForks /\ faults \in 0 .. MaxFaults
    /\ old \subseteq Child /\ unstored \subseteq Child
    /\ deaf \subseteq Child /\ dropped \subseteq Child
    /\ debt \in Nat /\ dead \in Nat /\ restarts \in Nat /\ alarms \in Nat
    /\ broken \in BOOLEAN

\* After LockFile, Create_share, CreateSEM and InitServerSocket.
Init ==
    /\ main = "accept" /\ quit = FALSE /\ newPid = Server /\ scan = 1
    /\ seen = [p \in Child \cup {Server} |-> 0]
    /\ table = [i \in Slot |-> Free] /\ count = 0
    /\ sem = 1 /\ undo = [p \in Child \cup {Server} |-> 0]
    /\ child = [p \in Child |-> "none"]
    /\ told = {} /\ handler = {}
    /\ forks = 0 /\ faults = 0 /\ restarts = 0 /\ alarms = 0
    /\ old = {} /\ unstored = {} /\ deaf = {} /\ dropped = {}
    /\ debt = 0 /\ dead = 0 /\ broken = FALSE

Take(p) ==
    /\ sem > 0
    /\ sem' = sem - 1
    /\ undo' = [undo EXCEPT ![p] = @ + 1]

Give(p) ==
    /\ sem' = sem + 1
    /\ undo' = [undo EXCEPT ![p] = @ - 1]

\* Mutant: locksem without SEM_UNDO.
UndoneNothing(p) ==
    /\ sem' = sem
    /\ undo' = [undo EXCEPT ![p] = 0]

\* The kernel applies what SEM_UNDO has noted; a value never goes below 0.
Undone(p) ==
    /\ sem' = IF sem + undo[p] > 0 THEN sem + undo[p] ELSE 0
    /\ undo' = [undo EXCEPT ![p] = 0]

Goto(p, place) == child' = [child EXCEPT ![p] = place]

\* The value read for nProcCount++ or nProcCount-- is not used again.
Forget(p) == seen' = [seen EXCEPT ![p] = 0]

-----------------------------------------------------------------------------
(* The server.                                                             *)

\* The test of MainQuitFlag at the head of the loop.
Again == IF quit THEN "kill" ELSE "accept"

\* A connection from a legal address, or from another one.
Accept ==
    /\ main = "accept"
    /\ forks < MaxForks
    /\ main' \in {"check", Again}
    /\ UNCHANGED <<quit, newPid, scan, seen, shmVars, semVars, childVars,
                   bounds, ghosts>>

LockServer ==
    /\ main \in DOMAIN After
    /\ Take(Server)
    /\ main' = After[main]
    /\ scan' = 1
    /\ UNCHANGED <<quit, newPid, seen, shmVars, childVars, bounds, ghosts>>

\* Mutant: the limit is off by one.
LimitReachedLate == count > MaxProc

LimitReached == count >= MaxProc

CheckProcNumber ==
    /\ main = "checking"
    /\ Give(Server)
    /\ main' = IF LimitReached THEN Again ELSE "fork"
    /\ UNCHANGED <<quit, newPid, scan, seen, shmVars, childVars, bounds,
                   ghosts>>

\* The child has the server's handler of SIGTERM until it installs its own.
Fork(p) ==
    /\ main = "fork"
    /\ child[p] = "none"
    /\ forks < MaxForks
    /\ forks' = forks + 1
    /\ Goto(p, "new")
    /\ newPid' = p
    /\ main' = "increase"
    /\ UNCHANGED <<quit, scan, seen, shmVars, semVars, told, handler, faults,
                   restarts, alarms, ghosts>>

ForkFails ==
    /\ main = "fork"
    /\ faults < MaxFaults
    /\ faults' = faults + 1
    /\ main' = "kill"
    /\ UNCHANGED <<quit, newPid, scan, seen, shmVars, semVars, childVars,
                   forks, restarts, alarms, ghosts>>

\* IncreaseChildPid: the first free entry, if there is one; nProcCount++ reads
\* here and writes in BumpCount, before the lock is released.
StorePid ==
    LET free == {i \in Slot : table[i] = Free}
    IN  /\ main = "store"
        /\ IF free = {}
           THEN /\ unstored' = unstored \cup ({newPid} \cap Running)
                /\ UNCHANGED table
           ELSE /\ table' = [table EXCEPT
                      ![CHOOSE i \in free : \A j \in free : i <= j] = newPid]
                /\ UNCHANGED unstored
        /\ seen' = [seen EXCEPT ![Server] = count]
        /\ main' = "bump"
        /\ UNCHANGED <<quit, newPid, scan, count, semVars, childVars, bounds,
                       old, deaf, dropped, debt, dead, broken>>

BumpCount ==
    /\ main = "bump"
    /\ count' = seen[Server] + 1
    /\ Forget(Server)
    /\ Give(Server)
    /\ main' = Again
    /\ newPid' = Server
    /\ UNCHANGED <<quit, scan, table, childVars, bounds, ghosts>>

-----------------------------------------------------------------------------
(* Killsonpid.                                                             *)

\* SIGTERM at child p: recv fails, a wait for the semaphore ends without it;
\* otherwise, and when it comes between the test of sonquit and recv, it is
\* seen at the next turn; a new child never sees it.
Sigterm(p) ==
    \/ /\ child[p] = "new"
       /\ deaf' = deaf \cup {p}
       /\ UNCHANGED <<child, told, broken>>
    \/ /\ child[p] = "recv"
       /\ Goto(p, "leave")
       /\ told' = told \cup {p}
       /\ UNCHANGED <<deaf, broken>>
    \/ /\ child[p] = "leave" /\ sem = 0
       /\ Goto(p, "clear")
       /\ told' = told \cup {p}
       /\ broken' = TRUE
       /\ UNCHANGED deaf
    \/ /\ child[p] # "new"
       /\ told' = told \cup {p}
       /\ UNCHANGED <<child, deaf, broken>>

\* Mutant: the first loop goes one entry too far.
KillNextTooFar ==
    /\ main = "killing"
    /\ IF table[scan] \in Running
       THEN Sigterm(table[scan])
       ELSE UNCHANGED <<child, told, deaf, broken>>
    /\ IF scan > Slots
       THEN main' = "wait" /\ Give(Server) /\ UNCHANGED scan
       ELSE scan' = scan + 1 /\ UNCHANGED <<main, semVars>>
    /\ UNCHANGED <<quit, newPid, seen, shmVars, handler, bounds, old, unstored,
                   dropped, debt, dead>>

KillNext ==
    /\ main = "killing"
    /\ IF table[scan] \in Running
       THEN Sigterm(table[scan])
       ELSE UNCHANGED <<child, told, deaf, broken>>
    /\ IF scan = Slots
       THEN main' = "wait" /\ Give(Server) /\ UNCHANGED scan
       ELSE scan' = scan + 1 /\ UNCHANGED <<main, semVars>>
    /\ UNCHANGED <<quit, newPid, seen, shmVars, handler, bounds, old, unstored,
                   dropped, debt, dead>>

\* Mutant: one turn of the second loop is taken for all.
NobodyAliveAnyway == TRUE

\* kill(pid, 0) fails for every pid of the table; it succeeds for a zombie.
NobodyAlive == \A i \in Slot : table[i] # Free => child[table[i]] = "none"

\* The second loop; at the end the memory and the semaphore are removed.
ScanTable ==
    /\ main = "scan"
    /\ Give(Server)
    /\ main' = IF NobodyAlive THEN "ended" ELSE "wait"
    /\ UNCHANGED <<quit, newPid, scan, seen, shmVars, childVars, bounds,
                   ghosts>>

-----------------------------------------------------------------------------
(* Signals of the server.                                                  *)

\* What a signal does to the call the server is in.  It has no effect on
\* accept and semop when it comes just before the call.
Interrupt(flag) ==
    \/ /\ main = "accept"
       /\ main' = IF flag THEN "kill" ELSE "accept"
       /\ UNCHANGED <<faults, broken>>
    \/ /\ main \in DOMAIN After
       /\ sem = 0
       /\ faults < MaxFaults
       /\ faults' = faults + 1
       /\ main' = After[main]
       /\ broken' = TRUE
    \/ UNCHANGED <<main, faults, broken>>

\* sig_int.
SigtermServer ==
    /\ main \notin {"ended", "down"}
    /\ ~quit
    /\ quit' = TRUE
    /\ Interrupt(TRUE)
    /\ scan' = 1
    /\ UNCHANGED <<newPid, seen, shmVars, semVars, childVars, forks, restarts,
                   alarms, old, unstored, deaf, dropped, debt, dead>>

\* sig_chld: all children that have ended.
Reap ==
    /\ main \notin {"ended", "down"}
    /\ \E p \in Child : child[p] = "zombie"
    /\ child' = [p \in Child |-> IF child[p] = "zombie" THEN "none" ELSE child[p]]
    /\ Interrupt(quit)
    /\ UNCHANGED <<quit, newPid, scan, seen, shmVars, semVars, told, handler,
                   forks, restarts, alarms, old, unstored, deaf, dropped,
                   debt, dead>>

\* SIGKILL or a crash: the children live on, adopted by init.
ServerDies ==
    /\ main \notin {"ended", "down"}
    /\ faults < MaxFaults
    /\ faults' = faults + 1
    /\ main' = "down"
    /\ Undone(Server)
    /\ child' = [p \in Child |-> IF child[p] = "zombie" THEN "none" ELSE child[p]]
    /\ old' = Running
    /\ UNCHANGED <<quit, newPid, scan, seen, shmVars, told, handler, forks,
                   restarts, alarms, unstored, deaf, dropped, debt, dead,
                   broken>>

\* The new server finds the memory and the semaphore of the old one by their
\* key and sets both anew; SETVAL clears what SEM_UNDO has noted.
StartServer ==
    /\ main = "down"
    /\ main' = "accept" /\ quit' = FALSE /\ newPid' = Server
    /\ table' = [i \in Slot |-> Free] /\ count' = 0
    /\ sem' = 1 /\ undo' = [p \in Child \cup {Server} |-> 0]
    /\ broken' = (broken \/ \E p \in Child : undo[p] # 0)
    /\ restarts' = restarts + 1
    /\ debt' = 0 /\ dead' = 0
    /\ unstored' = {}
    /\ UNCHANGED <<scan, seen, childVars, forks, faults, alarms, old, deaf,
                   dropped>>

-----------------------------------------------------------------------------
(* A child.                                                                *)

Serve(p, from, to) ==
    /\ child[p] = from
    /\ Goto(p, to)
    /\ UNCHANGED <<mainVars, seen, shmVars, semVars, told, handler, bounds,
                   ghosts>>

InstallHandlers(p) == Serve(p, "new", "recv")
Message(p) == Serve(p, "recv", "deal")
Reply(p) == Serve(p, "deal", IF p \in told THEN "leave" ELSE "recv")
ClientGone(p) == Serve(p, "recv", "leave")

\* SIGALRM while the child waits or serves.
TimeOut(p) ==
    /\ child[p] \in {"recv", "deal"}
    /\ Goto(p, "leave")
    /\ handler' = handler \cup {p}
    /\ UNCHANGED <<mainVars, seen, shmVars, semVars, told, bounds, ghosts>>

\* SIGALRM in a child that is leaving already: nothing cancels the alarm, so
\* TimeOut interrupts decreaseChildPid and calls it again.
LateAlarm(p) ==
    /\ child[p] \in Leaving
    /\ p \notin handler
    /\ faults < MaxFaults
    /\ faults' = faults + 1
    /\ alarms' = alarms + 1
    /\ Goto(p, "leave")
    /\ handler' = handler \cup {p}
    /\ UNCHANGED <<mainVars, seen, shmVars, semVars, told, forks, restarts,
                   ghosts>>

\* decreaseChildPid, while the memory and the semaphore exist.
LockChild(p) ==
    /\ main # "ended"
    /\ child[p] = "leave"
    /\ Take(p)
    /\ Goto(p, "clear")
    /\ UNCHANGED <<mainVars, seen, shmVars, told, handler, bounds, ghosts>>

ClearPid(p) ==
    LET mine == {i \in Slot : table[i] = p}
    IN  /\ main # "ended"
        /\ child[p] = "clear"
        /\ table' = IF mine = {} THEN table
                    ELSE [table EXCEPT
                             ![CHOOSE i \in mine : \A j \in mine : i <= j] = Free]
        /\ seen' = [seen EXCEPT ![p] = count]
        /\ Goto(p, "drop")
        /\ UNCHANGED <<mainVars, count, semVars, told, handler, bounds, ghosts>>

\* Mutant: the counter does not go below 0, although a child may leave before
\* the server has counted it.
DropCountNotNegative(p) ==
    /\ main # "ended"
    /\ child[p] = "drop"
    /\ count' = IF seen[p] > 0 THEN seen[p] - 1 ELSE 0
    /\ debt' = IF p \in old \cup dropped THEN debt + 1 ELSE debt
    /\ dropped' = dropped \cup {p}
    /\ Goto(p, "unlock")
    /\ Forget(p)
    /\ UNCHANGED <<mainVars, table, semVars, told, handler, bounds, old,
                   unstored, deaf, dead, broken>>

DropCount(p) ==
    /\ main # "ended"
    /\ child[p] = "drop"
    /\ count' = seen[p] - 1
    /\ debt' = IF p \in old \cup dropped THEN debt + 1 ELSE debt
    /\ dropped' = dropped \cup {p}
    /\ Goto(p, "unlock")
    /\ Forget(p)
    /\ UNCHANGED <<mainVars, table, semVars, told, handler, bounds, old,
                   unstored, deaf, dead, broken>>

\* Mutant: unlocksem without SEM_UNDO, so that the kernel gives back once more
\* at exit what has been given back already.
UnlockChildWithoutUndo(p) ==
    /\ main # "ended"
    /\ child[p] = "unlock"
    /\ sem' = sem + 1
    /\ Goto(p, "exiting")
    /\ UNCHANGED <<mainVars, seen, shmVars, undo, told, handler, bounds,
                   ghosts>>

UnlockChild(p) ==
    /\ main # "ended"
    /\ child[p] = "unlock"
    /\ Give(p)
    /\ Goto(p, "exiting")
    /\ UNCHANGED <<mainVars, seen, shmVars, told, handler, bounds, ghosts>>

\* The pid is free again once its parent has waited for it.
Gone(p) ==
    /\ told' = told \ {p} /\ handler' = handler \ {p}
    /\ old' = old \ {p} /\ unstored' = unstored \ {p}
    /\ deaf' = deaf \ {p} /\ dropped' = dropped \ {p}
    /\ Forget(p)

Exit(p) ==
    /\ main # "ended"
    /\ child[p] = "exiting"
    /\ Goto(p, IF p \in old THEN "none" ELSE "zombie")
    /\ Undone(p)
    /\ Gone(p)
    /\ UNCHANGED <<mainVars, shmVars, bounds, debt, dead, broken>>

\* Without the memory shmat returns -1, which is not NULL: the child dies of
\* SIGSEGV; one that has it attached already comes to its exit.
LeaveAfterEnd(p) ==
    /\ main = "ended"
    /\ child[p] \in Leaving
    /\ Goto(p, "none")
    /\ Gone(p)
    /\ UNCHANGED <<mainVars, shmVars, semVars, bounds, debt, dead, broken>>

\* SIGKILL or a crash, as on a request with more parameters than acParaName
\* has room for: neither the counter nor the table learns of it.
ChildDies(p) ==
    /\ p \in Running
    /\ faults < MaxFaults
    /\ faults' = faults + 1
    /\ Goto(p, IF main = "ended" \/ p \in old THEN "none" ELSE "zombie")
    /\ IF main = "ended" THEN UNCHANGED semVars ELSE Undone(p)
    /\ dead' = IF p \in old \cup dropped THEN dead ELSE dead + 1
    /\ Gone(p)
    /\ UNCHANGED <<mainVars, shmVars, forks, restarts, alarms, debt, broken>>

-----------------------------------------------------------------------------
ServerStep ==
    \/ LockServer \/ CheckProcNumber
    \/ (\E p \in Child : Fork(p))
    \/ StorePid \/ BumpCount \/ KillNext \/ ScanTable \/ Reap

ChildStep(p) ==
    \/ InstallHandlers(p) \/ Message(p) \/ Reply(p) \/ ClientGone(p) \/ TimeOut(p)
    \/ LockChild(p) \/ ClearPid(p) \/ DropCount(p) \/ UnlockChild(p)
    \/ Exit(p) \/ LeaveAfterEnd(p)

Next ==
    \/ ServerStep
    \/ \E p \in Child : ChildStep(p) \/ LateAlarm(p) \/ ChildDies(p)
    \/ Accept \/ ForkFails \/ SigtermServer \/ ServerDies \/ StartServer

Spec == Init /\ [][Next]_vars

\* The processes run, signals are delivered, a silent client runs into the
\* alarm, and semop serves its waiters in turn.  Nothing is assumed of clients
\* and operators.
Fairness ==
    /\ WF_vars(ServerStep) /\ WF_vars(Reap) /\ SF_vars(LockServer)
    /\ \A p \in Child : WF_vars(ChildStep(p)) /\ SF_vars(LockChild(p))

LiveSpec == Spec /\ Fairness

-----------------------------------------------------------------------------
(* Properties.                                                             *)

\* The children that are still in the counter, or about to be put in it.
Serving ==
    {p \in Running : p \notin dropped /\ child[p] \notin {"unlock", "exiting"}}

Pending == IF main \in {"increase", "store", "bump"} THEN 1 ELSE 0

\* The semaphore is free or held by exactly one process, though handlers
\* interrupt the processes that hold it and some of them die: what SEM_UNDO
\* has noted is what is missing.  After a wait that was interrupted it is not.
Inside == {p \in Child : undo[p] = 1}
SemaphoreAccounted ==
    ~broken /\ main # "ended" =>
        /\ sem + undo[Server] + Cardinality(Inside) = 1
        /\ \A p \in Child : undo[p] \in {0, 1}
        /\ \A p \in Child : child[p] \in ChildInside => p \in Inside
        /\ main \in ServerInside <=> undo[Server] = 1

\* nProcCount is the number of children serving, whoever leaves before the
\* server has recorded him, and of those that died, less what children of a
\* killed server and children that were taken off twice have cost.
CountAccounted ==
    ~broken /\ main \notin {"ended", "down"} =>
        count = Cardinality(Serving \ old) + dead - Pending - debt

\* The limit: a server that was killed and started again, and a child taken
\* off twice, let more children in, but never more than this.
LimitHolds ==
    ~broken => Cardinality(Serving) <= MaxProc * (1 + restarts) + alarms

\* When the server has ended none of its children serves a client any more,
\* but those the table had no room for and those of a server killed before.
NoOrphans ==
    main = "ended" =>
        \A p \in Running : child[p] \in Leaving \/ p \in old \cup unstored

\* A child that waits for the semaphore it holds itself.
SelfDeadlock == \E p \in Child : child[p] = "leave" /\ undo[p] = 1

\* Once the server stops, it ends: it outlives its children only as long as
\* one that missed the signal keeps talking, or when an alarm has made a
\* child wait for itself.
StopEnds ==
    main = "kill" ~>
        main \in {"ended", "down"} \/ Running \cap deaf # {} \/ SelfDeadlock

-----------------------------------------------------------------------------
(* The inductive invariant.                                                *)

\* A child being recorded is a child; the ghosts name processes that run; who
\* has been taken off the counter is leaving, and who has left the critical
\* section has been taken off; a server that was killed left every child it
\* had to init.
PidsKept ==
    /\ main \in {"increase", "store", "bump"} => newPid \in Child
    /\ old \subseteq Running
    /\ \A p \in dropped : child[p] \in Leaving
    /\ \A p \in Child : child[p] \in {"unlock", "exiting"} => p \in dropped
    /\ main = "down" => Running \subseteq old

\* The server holds the lock once or not at all.
ServerLocksOnce == ~broken /\ main # "ended" => undo[Server] \in {0, 1}

\* nProcCount has not changed since the process that is about to write it
\* read it.
SeenFresh ==
    ~broken /\ main # "ended" =>
        /\ main = "bump" => seen[Server] = count
        /\ \A p \in Child : child[p] = "drop" => seen[p] = count

\* The children an alarm has sent back to take themselves off again.
Twice == {p \in dropped : child[p] \in {"leave", "clear", "drop"}}

\* The server never counts more than the limit; what is above it are children
\* of a server killed before and the errors of the counter, each of which an
\* earlier server's limit or an alarm pays for.
LimitAccounted ==
    ~broken =>
        /\ Cardinality(Serving) + Cardinality(Twice)
               <= MaxProc * (1 + restarts) + alarms
        /\ main \notin {"ended", "down"} =>
              /\ count + Pending <= MaxProc
              /\ main = "fork" => count < MaxProc
              /\ debt + Cardinality(Serving \cap old) + Cardinality(Twice)
                     <= MaxProc * restarts + alarms

\* A child that serves is in the table, or about to be put in it, unless it
\* is a child of a server killed before or the table had no room for it.
Recorded ==
    \A p \in Running \ (old \cup unstored) :
        \/ child[p] \in Leaving
        \/ \E i \in Slot : table[i] = p
        \/ main \in {"increase", "store"} /\ newPid = p

RecordedOrEnded == NoOrphans /\ (main # "ended" => Recorded)
=============================================================================
