----------------------------- MODULE OrderSched -----------------------------
(***************************************************************************)
(* The process scheduler every pubOrder program starts in main: a parent   *)
(* (PubAssignTask) that owns the node table, PROCESS_NUM children          *)
(* (PubDealTaskOneDB / PubDealTaskTwoDB), one System V queue from all      *)
(* children to the parent and one queue from the parent to each child, and *)
(* the monitor script that stops and starts the program when the number of *)
(* its processes is wrong.                                                 *)
(*                                                                         *)
(* A table label is represented by its index in g_PUB_NodeCfg: labels are  *)
(* pairwise different ("00", "01", ..., "XX"), so the strncmp search of    *)
(* PubAssignTask finds exactly that index.                                 *)
(***************************************************************************)
EXTENDS Integers, Sequences, FiniteSets

CONSTANTS ProcessNum,  \* PROCESS_NUM of the program's configuration
          MaxFaults    \* bound on deaths and on untimely monitor runs

ASSUME ProcessNumAssumption == ProcessNum \in Nat \ {0}
ASSUME MaxFaultsAssumption == MaxFaults \in Nat

VARIABLES
    parent,   \* where the parent is: "fork", "rcv", "assign" or "dead"
    forked,   \* entries of g_PUB_TaskShm whose pid is written
    rcvBuf,   \* the parent's g_PUB_RcvBuf
    nodePos,  \* PubAssignTask's nodePos
    status,   \* g_PUB_NodeCfg[].status
    child,    \* where each child is in PubDealTask*
    task,     \* each child's own g_PUB_RcvBuf: the report it sends next
    rcvQ,     \* the queue g_PUB_RcvId, all children to the parent
    sndQ,     \* the queues g_PUB_SndId[], the parent to each child
    monitor,  \* the monitor script: "watch", or "start" after orderStop
    faults    \* deaths and untimely monitor runs so far

vars == <<parent, forked, rcvBuf, nodePos, status, child, task, rcvQ, sndQ,
          monitor, faults>>

-----------------------------------------------------------------------------
Pos  == 0 .. ProcessNum - 1        \* msgPos: positions in g_PUB_TaskShm

\* Mutant: the node table is one entry short.
NodeNumShort == ProcessNum - 1

\* PubReadNodeMsg makes one node for each child it is told to start.
NodeNum == ProcessNum
Node == 0 .. NodeNum - 1
NoLabel == -1                      \* the empty tableLebel

\* OrderMsgInfoType; refresh is PUB_REFRESH_N or PUB_REFRESH_I.
Msg == [msgPos : Pos, tableLebel : Node \cup {NoLabel}, refresh : {"N", "I"}]

\* What a child sends first: no table dealt with, no table to free.
FirstMsg(i) == [msgPos |-> i, tableLebel |-> NoLabel, refresh |-> "I"]

\* PubInitMain's g_PUB_RcvBuf, which the parent never reads before msgrcv.
InitBuf == [msgPos |-> 0, tableLebel |-> NoLabel, refresh |-> "N"]

TypeOK ==
    /\ parent \in {"fork", "rcv", "assign", "dead"}
    /\ forked \in 0 .. ProcessNum
    /\ rcvBuf \in Msg
    /\ nodePos \in Node
    /\ status \in [Node -> {"Y", "N"}]
    /\ child \in [Pos -> {"none", "start", "send", "wait", "deal", "dead"}]
    /\ task \in [Pos -> Msg]
    /\ rcvQ \in Seq(Msg)
    /\ sndQ \in [Pos -> Seq(Msg)]
    /\ monitor \in {"watch", "start"}
    /\ faults \in 0 .. MaxFaults

\* PubReadNodeMsg marks every node free.
FreeNodes == [n \in Node |-> "N"]
\* PubInitMain's zeroed task table: no child has been forked.
NoChild == [i \in Pos |-> "none"]
FirstTasks == [i \in Pos |-> FirstMsg(i)]
\* PubFreeSysRes removes the queues an earlier instance left behind, and
\* PubInitMain makes new ones.
EmptyQueues == [i \in Pos |-> <<>>]

\* main after startDaemon.
Init ==
    /\ parent = "fork"
    /\ forked = 0
    /\ rcvBuf = InitBuf
    /\ nodePos = 0
    /\ status = FreeNodes
    /\ child = NoChild
    /\ task = FirstTasks
    /\ rcvQ = <<>>
    /\ sndQ = EmptyQueues
    /\ monitor = "watch"
    /\ faults = 0

-----------------------------------------------------------------------------
(* The parent.                                                             *)

parentVars == <<parent, forked, rcvBuf, nodePos, status>>
queueVars == <<rcvQ, sndQ>>
envVars == <<monitor, faults>>

\* PubInitTaskList*: the fork.  The child runs before its pid is written.
ForkChild ==
    /\ parent = "fork"
    /\ forked < ProcessNum
    /\ child[forked] = "none"
    /\ child' = [child EXCEPT ![forked] = "start"]
    /\ UNCHANGED <<parentVars, task, queueVars, envVars>>

\* PubInitTaskList*: the parent writes the pid, then forks the next child
\* or goes on to PubAssignTask.
RecordPid ==
    /\ parent = "fork"
    /\ forked < ProcessNum
    /\ child[forked] # "none"
    /\ forked' = forked + 1
    /\ parent' = IF forked + 1 = ProcessNum THEN "rcv" ELSE "fork"
    /\ UNCHANGED <<rcvBuf, nodePos, status, child, task, queueVars, envVars>>

\* Mutant: the search position is freed instead of the reported table.
AfterReportAtSearchPos(m) ==
    IF m.refresh = "N" THEN [status EXCEPT ![nodePos] = "N"] ELSE status

\* What a report does to the node table: a finished table becomes free.
AfterReport(m) ==
    IF m.refresh = "N" /\ m.tableLebel \in Node
    THEN [status EXCEPT ![m.tableLebel] = "N"]
    ELSE status

\* PubAssignTask: msgrcv of a report, and freeing the table it names.
ReceiveReport ==
    /\ parent = "rcv"
    /\ rcvQ # <<>>
    /\ rcvBuf' = Head(rcvQ)
    /\ rcvQ' = Tail(rcvQ)
    /\ status' = AfterReport(Head(rcvQ))
    /\ parent' = "assign"
    /\ UNCHANGED <<forked, nodePos, child, task, sndQ, envVars>>

\* Mutant: each busy table is answered with an idle message while the search
\* goes on.
SkipBusyNodeIdle ==
    /\ parent = "assign"
    /\ status[nodePos] = "Y"
    /\ nodePos' = (nodePos + 1) % NodeNum
    /\ sndQ' = [sndQ EXCEPT ![rcvBuf.msgPos] =
                    Append(@, FirstMsg(rcvBuf.msgPos))]
    /\ UNCHANGED <<parent, forked, rcvBuf, status, child, task, rcvQ, envVars>>

\* PubAssignTask: one turn of the search for a free table.
SkipBusyNode ==
    /\ parent = "assign"
    /\ status[nodePos] = "Y"
    /\ nodePos' = (nodePos + 1) % NodeNum
    /\ UNCHANGED <<parent, forked, rcvBuf, status, child, task, queueVars,
                   envVars>>

\* Mutant: the table handed out is not marked busy.
AssignTaskUnmarked ==
    /\ parent = "assign"
    /\ status[nodePos] = "N"
    /\ sndQ' = [sndQ EXCEPT ![rcvBuf.msgPos] = Append(@,
                   [msgPos |-> rcvBuf.msgPos, tableLebel |-> nodePos,
                    refresh |-> "N"])]
    /\ nodePos' = (nodePos + 1) % NodeNum
    /\ parent' = "rcv"
    /\ UNCHANGED <<forked, rcvBuf, status, child, task, rcvQ, envVars>>

\* PubAssignTask: the table found is marked busy and sent to the child that
\* reported, dead or alive.
AssignTask ==
    /\ parent = "assign"
    /\ status[nodePos] = "N"
    /\ status' = [status EXCEPT ![nodePos] = "Y"]
    /\ sndQ' = [sndQ EXCEPT ![rcvBuf.msgPos] = Append(@,
                   [msgPos |-> rcvBuf.msgPos, tableLebel |-> nodePos,
                    refresh |-> "N"])]
    /\ nodePos' = (nodePos + 1) % NodeNum
    /\ parent' = "rcv"
    /\ UNCHANGED <<forked, rcvBuf, child, task, rcvQ, envVars>>

\* fork, msgrcv or msgsnd fails, or the process is killed.
ParentDies ==
    /\ parent # "dead"
    /\ faults < MaxFaults
    /\ parent' = "dead"
    /\ faults' = faults + 1
    /\ UNCHANGED <<forked, rcvBuf, nodePos, status, child, task, queueVars,
                   monitor>>

-----------------------------------------------------------------------------
(* The children.                                                           *)

\* The child finds its own pid in g_PUB_TaskShm, takes the entry's pos and
\* connects to its database(s).
FindPos(i) ==
    /\ child[i] = "start"
    /\ i < forked
    /\ child' = [child EXCEPT ![i] = "send"]
    /\ task' = [task EXCEPT ![i] = FirstMsg(i)]
    /\ UNCHANGED <<parentVars, queueVars, envVars>>

SendReport(i) ==
    /\ child[i] = "send"
    /\ rcvQ' = Append(rcvQ, task[i])
    /\ child' = [child EXCEPT ![i] = "wait"]
    /\ UNCHANGED <<parentVars, task, sndQ, envVars>>

\* Mutant: the answer's refresh flag is not copied.
ReceiveTaskKeepRefresh(i) ==
    /\ child[i] = "wait"
    /\ sndQ[i] # <<>>
    /\ task' = [task EXCEPT ![i].tableLebel = Head(sndQ[i]).tableLebel]
    /\ child' = [child EXCEPT ![i] = "deal"]
    /\ sndQ' = [sndQ EXCEPT ![i] = Tail(@)]
    /\ UNCHANGED <<parentVars, rcvQ, envVars>>

\* The answer is copied into the report the child sends when it has
\* finished; an answer without a task makes it report again at once.
ReceiveTask(i) ==
    /\ child[i] = "wait"
    /\ sndQ[i] # <<>>
    /\ LET m == Head(sndQ[i])
       IN  /\ task' = [task EXCEPT ![i] =
                           [msgPos |-> @.msgPos, tableLebel |-> m.tableLebel,
                            refresh |-> m.refresh]]
           /\ child' = [child EXCEPT ![i] =
                            IF m.refresh = "I" THEN "send" ELSE "deal"]
    /\ sndQ' = [sndQ EXCEPT ![i] = Tail(@)]
    /\ UNCHANGED <<parentVars, rcvQ, envVars>>

\* The deal function returns, whatever became of the table's orders.
FinishDeal(i) ==
    /\ child[i] = "deal"
    /\ child' = [child EXCEPT ![i] = "send"]
    /\ UNCHANGED <<parentVars, task, queueVars, envVars>>

\* No database connection, msgsnd or msgrcv fails, or the deal function or
\* a signal ends the process.
ChildDies(i) ==
    /\ child[i] \notin {"none", "dead"}
    /\ faults < MaxFaults
    /\ child' = [child EXCEPT ![i] = "dead"]
    /\ faults' = faults + 1
    /\ UNCHANGED <<parentVars, task, queueVars, monitor>>

-----------------------------------------------------------------------------
(* The monitor script.                                                     *)

Alive == {i \in Pos : child[i] \notin {"none", "dead"}}
Damaged == parent = "dead" \/ \E i \in Pos : child[i] = "dead"

\* ps counts one process for each living child and one for the parent.
ProcessCount == Cardinality(Alive) + (IF parent = "dead" THEN 0 ELSE 1)

\* Mutant: the monitor looks at the parent only.
OrderStopParentOnly ==
    /\ monitor = "watch"
    /\ parent = "dead"
    /\ UNCHANGED faults
    /\ parent' = "dead"
    /\ child' = [i \in Pos |-> "dead"]
    /\ monitor' = "start"
    /\ UNCHANGED <<forked, rcvBuf, nodePos, status, task, queueVars>>

\* orderStop: kill -9 to every process of the program.  The count is also
\* wrong while the program is still starting; that run of the monitor is
\* untimely and counted as a fault.
OrderStop ==
    /\ monitor = "watch"
    /\ ProcessCount # ProcessNum + 1
    /\ \/ Damaged /\ UNCHANGED faults
       \/ ~Damaged /\ faults < MaxFaults /\ faults' = faults + 1
    /\ parent' = "dead"
    /\ child' = [i \in Pos |-> "dead"]
    /\ monitor' = "start"
    /\ UNCHANGED <<forked, rcvBuf, nodePos, status, task, queueVars>>

\* Mutant: PubFreeSysRes leaves the earlier instance's queues in place.
StartProgramKeepQueues ==
    /\ monitor = "start"
    /\ monitor' = "watch"
    /\ parent' = "fork"
    /\ forked' = 0
    /\ rcvBuf' = InitBuf
    /\ nodePos' = 0
    /\ status' = FreeNodes
    /\ child' = NoChild
    /\ task' = FirstTasks
    /\ UNCHANGED <<rcvQ, sndQ, faults>>

\* The monitor starts the program again: main runs from the beginning.
StartProgram ==
    /\ monitor = "start"
    /\ monitor' = "watch"
    /\ parent' = "fork"
    /\ forked' = 0
    /\ rcvBuf' = InitBuf
    /\ nodePos' = 0
    /\ status' = FreeNodes
    /\ child' = NoChild
    /\ task' = FirstTasks
    /\ rcvQ' = <<>>
    /\ sndQ' = EmptyQueues
    /\ UNCHANGED faults

-----------------------------------------------------------------------------
ParentStep == ForkChild \/ RecordPid \/ ReceiveReport \/ SkipBusyNode
              \/ AssignTask
ChildStep(i) == FindPos(i) \/ SendReport(i) \/ ReceiveTask(i) \/ FinishDeal(i)

Next ==
    \/ ParentStep
    \/ ParentDies
    \/ \E i \in Pos : ChildStep(i) \/ ChildDies(i)
    \/ OrderStop
    \/ StartProgram

\* Every process is a Unix process the kernel keeps scheduling, a deal
\* function returns, and the monitor script is run again and again.
Fairness ==
    /\ WF_vars(ParentStep)
    /\ \A i \in Pos : WF_vars(ChildStep(i))
    /\ WF_vars(OrderStop)
    /\ WF_vars(StartProgram)

Spec == Init /\ [][Next]_vars
FairSpec == Spec /\ Fairness

-----------------------------------------------------------------------------
(* Properties.                                                             *)

\* The label of the table a child is dealing with, NoLabel outside.
Dealing(i) == IF child[i] = "deal" THEN task[i].tableLebel ELSE NoLabel

\* No two processes ever run the deal function (PubLogicDeal) on the same
\* table: nothing in PubLogicDeal locks the rows it reads, so the scheduler
\* alone keeps two children from dealing with the same orders.
TableExclusion ==
    \A i, j \in Pos : i # j => \/ Dealing(i) # Dealing(j)
                               \/ Dealing(i) = NoLabel

\* A child answers for the table l: it was sent l, it deals with l, it is
\* about to report l, or its report of l is on the way to the parent.
Sent(i, l) == sndQ[i] # <<>> /\ Head(sndQ[i]).tableLebel = l
Reported(i, l) == \E k \in 1 .. Len(rcvQ) : /\ rcvQ[k].msgPos = i
                                            /\ rcvQ[k].tableLebel = l
Holds(i, l) == \/ Sent(i, l)
               \/ child[i] \in {"deal", "send"} /\ task[i].tableLebel = l
               \/ Reported(i, l)

\* A table some child answers for is marked busy in the node table and no
\* other child answers for it: PubAssignTask never frees a table early and
\* never hands it out twice.
BusyHasOneHolder ==
    \A i \in Pos, l \in Node :
        Holds(i, l) => /\ status[l] = "Y"
                       /\ \A j \in Pos : Holds(j, l) => j = i

\* "Loop to find a task nobody has taken": whenever PubAssignTask searches,
\* there is one, dead children or not.  The parent takes no report while it
\* searches, so a search without a free node would never end.
SearchEnds == parent = "assign" => \E n \in Node : status[n] = "N"

\* A child has at most one message on the way in either direction, so no
\* queue outgrows one message for each process and msgsnd never blocks.
Reports(i) == {k \in 1 .. Len(rcvQ) : rcvQ[k].msgPos = i}
OneMessagePerChild ==
    \A i \in Pos : Len(sndQ[i]) + Cardinality(Reports(i)) <= 1

\* Every table is dealt with again and again: a death may cost a table its
\* child, but then the monitor starts the program again.
EveryTableServed ==
    \A l \in Node : []<>(\E i \in Pos : Dealing(i) = l)

-----------------------------------------------------------------------------
(* The inductive invariant.                                                *)

Requesting(i) == parent = "assign" /\ rcvBuf.msgPos = i
Waiting(i) == child[i] \in {"wait", "dead"}

\* A child's own buffer: it carries the child's position, and it frees a
\* table exactly if it names one.
TaskWellFormed ==
    \A i \in Pos :
        /\ task[i].msgPos = i
        /\ task[i].refresh = "N" <=> task[i].tableLebel \in Node
        /\ child[i] = "deal" => task[i].refresh = "N"

\* A report on the way is its sender's buffer, and its sender waits for an
\* answer that has not been sent.
ReportWellFormed(m) ==
    /\ m = task[m.msgPos]
    /\ Waiting(m.msgPos)
    /\ sndQ[m.msgPos] = <<>>
    /\ ~Requesting(m.msgPos)
ReportsWellFormed == \A k \in 1 .. Len(rcvQ) : ReportWellFormed(rcvQ[k])

\* No two reports on the way come from the same child.
ReportsDistinct ==
    \A j, k \in 1 .. Len(rcvQ) : rcvQ[j].msgPos = rcvQ[k].msgPos => j = k

\* A task on the way is a real task, the only one, and its child waits.
TasksWellFormed ==
    \A i \in Pos :
        sndQ[i] # <<>> => /\ Len(sndQ[i]) = 1
                          /\ sndQ[i][1].tableLebel \in Node
                          /\ sndQ[i][1].refresh = "N"
                          /\ Waiting(i)
                          /\ ~Requesting(i)

\* The child the parent is about to answer waits for the answer.
RequesterWaits == parent = "assign" => Waiting(rcvBuf.msgPos)

\* The table a child accounts for: the one it was sent last, dead or alive,
\* until the parent has taken its report of it.
Account(i) ==
    IF sndQ[i] # <<>> THEN sndQ[i][1].tableLebel
    ELSE IF Requesting(i) THEN NoLabel ELSE task[i].tableLebel

\* Every busy table has a child that accounts for it, which is why the parent
\* finds a free one: the child it is about to answer accounts for none.
BusyAccounted ==
    /\ \A l \in Node : status[l] = "Y" => \E i \in Pos : Account(i) = l
    /\ \A i \in Pos :
          child[i] \in {"none", "start"} => task[i].tableLebel = NoLabel

IInv == /\ TypeOK
        /\ TaskWellFormed
        /\ ReportsWellFormed
        /\ ReportsDistinct
        /\ TasksWellFormed
        /\ RequesterWaits
        /\ BusyHasOneHolder

-----------------------------------------------------------------------------
(* The scheduler implements the lease cycle of TableLease.                 *)

WorkingNow == [i \in Pos |-> Dealing(i)]

\* A child has been sent the table l and is there to take it; it has dealt
\* with l and the parent has not taken its report yet.
GrantedTo(i, l) == child[i] # "dead" /\ Sent(i, l)
EndedBy(i, l) == \/ Reported(i, l)
                 \/ child[i] = "send" /\ task[i].tableLebel = l

PhaseOf(l) ==
    IF monitor = "start" \/ status[l] = "N" THEN "free"
    ELSE IF \E i \in Pos : Dealing(i) = l THEN "dealing"
    ELSE IF \E i \in Pos : GrantedTo(i, l) THEN "granted"
    ELSE IF \E i \in Pos : EndedBy(i, l) THEN "done"
    ELSE "lost"

Lease == INSTANCE TableLease WITH
            Label <- Node, Child <- Pos, Idle <- NoLabel,
            phase <- [l \in Node |-> PhaseOf(l)], working <- WorkingNow

\* Each step of the scheduler is a step of the lease cycle or none.
ImplementsLease == Lease!LeaseSpec
=============================================================================
