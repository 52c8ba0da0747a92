-------------------------- MODULE OrderSchedProofs --------------------------
(***************************************************************************)
(* Proofs about OrderSched, for every number of children and every bound   *)
(* on the faults.                                                          *)
(***************************************************************************)
EXTENDS OrderSched, SequenceTheorems, FiniteSetTheorems, TLAPS

\* The positions and the nodes are the same non-empty range of numbers.
LEMMA PosFacts ==
    /\ ProcessNum \in Nat /\ ProcessNum > 0
    /\ Pos = Node
    /\ 0 \in Pos
    /\ Pos \subseteq Nat
    /\ NoLabel \notin Node
    /\ \A n \in Node : (n + 1) % NodeNum \in Node
BY ProcessNumAssumption DEF Pos, Node, NodeNum, NoLabel

LEMMA MsgFields ==
    \A m \in Msg : m.msgPos \in Pos /\ m.tableLebel \in Node \cup {NoLabel}
BY DEF Msg

LEMMA FirstMsgType == \A i \in Pos : FirstMsg(i) \in Msg
BY DEF FirstMsg, Msg

LEMMA InitBufType == InitBuf \in Msg
BY PosFacts DEF InitBuf, Msg

\* Every variable keeps its type: in particular no position or table index
\* a message carries leaves the tables it indexes.
THEOREM TypeCorrect == Spec => []TypeOK
<1>1. Init => TypeOK
  BY PosFacts, FirstMsgType, InitBufType, MaxFaultsAssumption
     DEF Init, TypeOK, FreeNodes, NoChild, FirstTasks, EmptyQueues
<1>2. TypeOK /\ [Next]_vars => TypeOK'
  <2> SUFFICES ASSUME TypeOK, [Next]_vars PROVE TypeOK'
    OBVIOUS
  <2> USE DEF TypeOK, parentVars, queueVars, envVars
  <2>1. CASE ForkChild
    BY <2>1 DEF ForkChild
  <2>2. CASE RecordPid
    BY <2>2, PosFacts DEF RecordPid
  <2>3. CASE ReceiveReport
    BY <2>3, SMTT(30) DEF ReceiveReport, AfterReport
  <2>4. CASE SkipBusyNode
    BY <2>4, PosFacts DEF SkipBusyNode
  <2>5. CASE AssignTask
    <3>1. rcvBuf.msgPos \in Pos
      BY DEF Msg
    <3>2. [msgPos |-> rcvBuf.msgPos, tableLebel |-> nodePos, refresh |-> "N"]
             \in Msg
      BY <3>1 DEF Msg
    <3>3. sndQ' \in [Pos -> Seq(Msg)]
      BY <2>5, <3>1, <3>2 DEF AssignTask
    <3> QED
      BY <2>5, <3>3, PosFacts DEF AssignTask
  <2>6. CASE ParentDies
    BY <2>6, MaxFaultsAssumption DEF ParentDies
  <2>7. ASSUME NEW i \in Pos, FindPos(i) PROVE TypeOK'
    BY <2>7, FirstMsgType DEF FindPos
  <2>8. ASSUME NEW i \in Pos, SendReport(i) PROVE TypeOK'
    BY <2>8 DEF SendReport
  <2>9. ASSUME NEW i \in Pos, ReceiveTask(i) PROVE TypeOK'
    <3>1. Head(sndQ[i]) \in Msg /\ Tail(sndQ[i]) \in Seq(Msg)
      BY <2>9 DEF ReceiveTask
    <3>2. task' \in [Pos -> Msg]
      BY <2>9, <3>1 DEF ReceiveTask, Msg
    <3> QED
      BY <2>9, <3>1, <3>2 DEF ReceiveTask
  <2>10. ASSUME NEW i \in Pos, FinishDeal(i) PROVE TypeOK'
    BY <2>10 DEF FinishDeal
  <2>11. ASSUME NEW i \in Pos, ChildDies(i) PROVE TypeOK'
    BY <2>11, MaxFaultsAssumption DEF ChildDies
  <2>12. CASE OrderStop
    BY <2>12, MaxFaultsAssumption DEF OrderStop
  <2>13. CASE StartProgram
    BY <2>13, PosFacts, FirstMsgType, InitBufType
       DEF StartProgram, FreeNodes, NoChild, FirstTasks, EmptyQueues
  <2>14. CASE UNCHANGED vars
    BY <2>14 DEF vars
  <2> QED
    BY <2>1, <2>2, <2>3, <2>4, <2>5, <2>6, <2>7, <2>8, <2>9, <2>10, <2>11,
       <2>12, <2>13, <2>14 DEF Next, ParentStep, ChildStep
<1> QED
  BY <1>1, <1>2, PTL DEF Spec

-----------------------------------------------------------------------------
(* The inductive invariant.                                                *)

\* What appending to and taking from the report queue does to its elements.
LEMMA QueueFacts ==
    ASSUME NEW q \in Seq(Msg), NEW m \in Msg
    PROVE  /\ Len(Append(q, m)) = Len(q) + 1
           /\ \A k \in 1 .. Len(q) : Append(q, m)[k] = q[k]
           /\ Append(q, m)[Len(q) + 1] = m
           /\ q # <<>> => /\ Len(q) \in Nat \ {0}
                          /\ Head(q) = q[1]
                          /\ Len(Tail(q)) = Len(q) - 1
                          /\ \A k \in 1 .. Len(q) - 1 : Tail(q)[k] = q[k + 1]
OBVIOUS

\* The names the steps below expand.
LEMMA InitIInv == Init => IInv
<1> SUFFICES ASSUME Init PROVE IInv
  OBVIOUS
<1>1. TypeOK
  BY PosFacts, FirstMsgType, InitBufType, MaxFaultsAssumption
     DEF Init, TypeOK, FreeNodes, NoChild, FirstTasks, EmptyQueues
<1>2. TaskWellFormed
  BY PosFacts DEF Init, TaskWellFormed, FirstTasks, FirstMsg, NoChild
<1>3. /\ ReportsWellFormed /\ ReportsDistinct
      /\ TasksWellFormed /\ RequesterWaits
  BY DEF Init, ReportsWellFormed, ReportsDistinct, TasksWellFormed, RequesterWaits, EmptyQueues
<1>4. BusyHasOneHolder
  BY PosFacts DEF Init, BusyHasOneHolder, Holds, Sent, Reported, EmptyQueues,
                  NoChild
<1> QED
  BY <1>1, <1>2, <1>3, <1>4 DEF IInv

\* The parent's msgrcv frees a table only on the report of the child that
\* held it, after which nobody holds it.
LEMMA ReceiveReportIInv ==
    ASSUME IInv, TypeOK', ReceiveReport PROVE IInv'
<1> DEFINE r == rcvQ[1].msgPos
<1> USE DEF IInv, TypeOK
<1>1. /\ Len(rcvQ) \in Nat \ {0}
      /\ rcvQ[1] \in Msg /\ r \in Pos
      /\ rcvBuf' = rcvQ[1]
      /\ Len(rcvQ') = Len(rcvQ) - 1
      /\ \A k \in 1 .. Len(rcvQ') : rcvQ'[k] = rcvQ[k + 1]
      /\ parent' = "assign"
      /\ UNCHANGED <<nodePos, child, task, sndQ>>
  BY QueueFacts DEF ReceiveReport, Msg
<1>2. /\ rcvQ[1] = task[r] /\ Waiting(r) /\ sndQ[r] = <<>>
      /\ \A k \in 2 .. Len(rcvQ) : rcvQ[k].msgPos # r
  <2>1. 1 \in 1 .. Len(rcvQ)
    BY <1>1
  <2>2. ReportWellFormed(rcvQ[1])
    BY <2>1 DEF ReportsWellFormed
  <2> QED
    BY <1>1, <2>1, <2>2 DEF ReportWellFormed, ReportsDistinct
<1>3. TaskWellFormed'
  BY <1>1 DEF TaskWellFormed
<1>4. ReportsWellFormed'
  <2>1. ASSUME NEW n \in Msg, ReportWellFormed(n), n.msgPos # r
        PROVE  ReportWellFormed(n)'
    BY <1>1, <2>1 DEF ReportWellFormed, Waiting, Requesting
  <2>2. ASSUME NEW k \in 1 .. Len(rcvQ') PROVE ReportWellFormed(rcvQ[k])'
    <3>1. k + 1 \in 2 .. Len(rcvQ) /\ k + 1 \in 1 .. Len(rcvQ)
      BY <1>1
    <3>2. rcvQ'[k] = rcvQ[k + 1] /\ rcvQ[k + 1] \in Msg
      BY <1>1, <3>1
    <3>3. ReportWellFormed(rcvQ[k + 1]) /\ rcvQ[k + 1].msgPos # r
      BY <1>2, <3>1 DEF ReportsWellFormed
    <3> QED
      BY <2>1, <3>2, <3>3
  <2> QED
    BY <2>2 DEF ReportsWellFormed
<1>8. ReportsDistinct'
  <2>1. ASSUME NEW j \in 1 .. Len(rcvQ'), NEW k \in 1 .. Len(rcvQ'),
               rcvQ'[j].msgPos = rcvQ'[k].msgPos
        PROVE  j = k
    <3>1. j \in Int /\ k \in Int
      OBVIOUS
    <3>2. j + 1 \in 1 .. Len(rcvQ) /\ k + 1 \in 1 .. Len(rcvQ)
      BY <1>1
    <3>3. rcvQ[j + 1].msgPos = rcvQ[k + 1].msgPos
      BY <1>1, <2>1
    <3>4. j + 1 = k + 1
      BY <3>2, <3>3 DEF ReportsDistinct
    <3> QED
      BY <3>1, <3>4
  <2> QED
    BY <2>1 DEF ReportsDistinct
<1>5. TasksWellFormed'
  BY <1>1, <1>2 DEF TasksWellFormed, Waiting, Requesting, ReceiveReport
<1>6. RequesterWaits'
  BY <1>1, <1>2 DEF RequesterWaits, Waiting
<1>7. BusyHasOneHolder'
  <2>1. ASSUME NEW i \in Pos, NEW l \in Node, Holds(i, l)'
        PROVE  Holds(i, l) /\ i # r
    <3>1. ASSUME NEW k \in 1 .. Len(rcvQ'), rcvQ'[k].msgPos = i,
                 rcvQ'[k].tableLebel = l
          PROVE  Reported(i, l) /\ i # r
      <4>1. k + 1 \in 2 .. Len(rcvQ) /\ rcvQ'[k] = rcvQ[k + 1]
        BY <1>1
      <4> QED
        BY <1>2, <3>1, <4>1 DEF Reported
    <3> QED
      BY <1>1, <1>2, <2>1, <3>1 DEF Holds, Sent, Reported, Waiting
  <2>2. ASSUME NEW l \in Node, status'[l] # status[l]
        PROVE  Holds(r, l)
    <3>1. task[r].tableLebel = l
      BY <1>1, <1>2, <2>2 DEF ReceiveReport, AfterReport
    <3> QED
      BY <1>1, <1>2, <3>1 DEF Holds, Reported
  <2> QED
    BY <1>1, <2>1, <2>2 DEF BusyHasOneHolder
<1> QED
  BY <1>3, <1>4, <1>5, <1>6, <1>7, <1>8

\* PubAssignTask hands out a table nobody holds to a child that holds none.
LEMMA AssignTaskIInv ==
    ASSUME IInv, TypeOK', AssignTask PROVE IInv'
<1> DEFINE r == rcvBuf.msgPos
           m == [msgPos |-> r, tableLebel |-> nodePos, refresh |-> "N"]
<1> USE DEF IInv, TypeOK
<1>1. /\ r \in Pos /\ m \in Msg /\ nodePos \in Node
      /\ status[nodePos] = "N"
      /\ status' = [status EXCEPT ![nodePos] = "Y"]
      /\ sndQ[r] = <<>>
      /\ Waiting(r)
      /\ parent = "assign" /\ parent' = "rcv"
      /\ \A k \in 1 .. Len(rcvQ) : rcvQ[k].msgPos # r
      /\ UNCHANGED <<rcvBuf, child, task, rcvQ>>
  BY DEF AssignTask, Msg, RequesterWaits, ReportsWellFormed,
         ReportWellFormed, TasksWellFormed, Requesting
<1>2. sndQ' = [sndQ EXCEPT ![r] = <<m>>]
  BY <1>1 DEF AssignTask
<1>3. TaskWellFormed'
  BY <1>1 DEF TaskWellFormed
<1>4. ReportsWellFormed' /\ ReportsDistinct'
  BY <1>1, <1>2 DEF ReportsWellFormed, ReportWellFormed, ReportsDistinct,
                    Waiting, Requesting, Msg
<1>5. TasksWellFormed'
  BY <1>1, <1>2 DEF TasksWellFormed, Waiting, Requesting
<1>6. RequesterWaits'
  BY <1>1 DEF RequesterWaits
<1>7. BusyHasOneHolder'
  <2>1. ASSUME NEW i \in Pos, NEW l \in Node
        PROVE  Holds(i, l)' <=> Holds(i, l) \/ (i = r /\ l = nodePos)
    BY <1>1, <1>2 DEF Holds, Sent, Reported, Waiting
  <2>2. \A i \in Pos : ~Holds(i, nodePos)
    BY <1>1 DEF BusyHasOneHolder
  <2> QED
    BY <1>1, <2>1, <2>2 DEF BusyHasOneHolder
<1> QED
  BY <1>3, <1>4, <1>5, <1>6, <1>7

\* A child's msgsnd moves the table it holds from its buffer to the queue.
LEMMA SendReportIInv ==
    ASSUME IInv, TypeOK', NEW s \in Pos, SendReport(s) PROVE IInv'
<1> USE DEF IInv, TypeOK
<1>1. /\ task[s] \in Msg /\ task[s].msgPos = s
      /\ child[s] = "send"
      /\ child' = [child EXCEPT ![s] = "wait"]
      /\ Len(rcvQ) \in Nat
      /\ Len(rcvQ') = Len(rcvQ) + 1
      /\ \A k \in 1 .. Len(rcvQ) : rcvQ'[k] = rcvQ[k]
      /\ rcvQ'[Len(rcvQ) + 1] = task[s]
      /\ UNCHANGED <<parent, rcvBuf, status, task, sndQ>>
  BY QueueFacts DEF SendReport, TaskWellFormed, parentVars
<1>2. /\ sndQ[s] = <<>>
      /\ ~Requesting(s)
      /\ \A k \in 1 .. Len(rcvQ) : rcvQ[k].msgPos # s
  BY <1>1 DEF TasksWellFormed, ReportsWellFormed, ReportWellFormed,
              RequesterWaits, Waiting, Requesting
<1>3. TaskWellFormed'
  BY <1>1 DEF TaskWellFormed
<1>4. ReportsWellFormed' /\ ReportsDistinct'
  <2>1. ASSUME NEW k \in 1 .. Len(rcvQ')
        PROVE  k \in 1 .. Len(rcvQ) \/ k = Len(rcvQ) + 1
    BY <1>1
  <2>2. ASSUME NEW k \in 1 .. Len(rcvQ)
        PROVE  ReportWellFormed(rcvQ[k])' /\ rcvQ'[k] = rcvQ[k]
    <3>1. ReportWellFormed(rcvQ[k]) /\ rcvQ[k] \in Msg /\ rcvQ'[k] = rcvQ[k]
      BY <1>1 DEF ReportsWellFormed
    <3> QED
      BY <1>1, <1>2, <3>1 DEF ReportWellFormed, Waiting, Requesting, Msg
  <2>3. ReportWellFormed(task[s])'
    BY <1>1, <1>2 DEF ReportWellFormed, Waiting, Requesting
  <2>4. ReportsWellFormed'
    BY <1>1, <2>1, <2>2, <2>3 DEF ReportsWellFormed
  <2>5. ReportsDistinct'
    <3>1. ASSUME NEW j \in 1 .. Len(rcvQ'), NEW k \in 1 .. Len(rcvQ'),
                 rcvQ'[j].msgPos = rcvQ'[k].msgPos
          PROVE  j = k
      <4>1. CASE j \in 1 .. Len(rcvQ) /\ k \in 1 .. Len(rcvQ)
        BY <1>1, <3>1, <4>1 DEF ReportsDistinct
      <4>2. ASSUME NEW h \in 1 .. Len(rcvQ) PROVE rcvQ'[h].msgPos # s
        BY <1>1, <1>2, <4>2
      <4>3. rcvQ'[Len(rcvQ) + 1].msgPos = s
        BY <1>1
      <4> QED
        BY <2>1, <3>1, <4>1, <4>2, <4>3
    <3> QED
      BY <3>1 DEF ReportsDistinct
  <2> QED
    BY <2>4, <2>5
<1>5. TasksWellFormed'
  BY <1>1 DEF TasksWellFormed, Waiting, Requesting
<1>6. RequesterWaits'
  BY <1>1 DEF RequesterWaits, Waiting, Msg
<1>7. BusyHasOneHolder'
  <2>1. ASSUME NEW i \in Pos, NEW l \in Node, Holds(i, l)'
        PROVE  Holds(i, l)
    <3>1. ASSUME NEW k \in 1 .. Len(rcvQ'), rcvQ'[k].msgPos = i,
                 rcvQ'[k].tableLebel = l
          PROVE  Holds(i, l)
      <4>1. CASE k \in 1 .. Len(rcvQ)
        BY <1>1, <3>1, <4>1 DEF Holds, Reported
      <4>2. CASE k = Len(rcvQ) + 1
        BY <1>1, <3>1, <4>2 DEF Holds
      <4> QED
        BY <1>1, <4>1, <4>2
    <3> QED
      BY <1>1, <2>1, <3>1 DEF Holds, Sent, Reported
  <2> QED
    BY <1>1, <2>1 DEF BusyHasOneHolder
<1> QED
  BY <1>3, <1>4, <1>5, <1>6, <1>7

\* A child's msgrcv moves the table it was sent into its buffer.
LEMMA ReceiveTaskIInv ==
    ASSUME IInv, TypeOK', NEW s \in Pos, ReceiveTask(s) PROVE IInv'
<1> DEFINE m == sndQ[s][1]
<1> USE DEF IInv, TypeOK
<1>1. /\ Head(sndQ[s]) = m /\ m \in Msg
      /\ m.tableLebel \in Node /\ m.refresh = "N"
      /\ Len(sndQ[s]) = 1
      /\ child[s] = "wait"
      /\ ~Requesting(s)
      /\ UNCHANGED <<parent, rcvBuf, status, rcvQ>>
  BY DEF ReceiveTask, TasksWellFormed, parentVars
<1>2. /\ child' = [child EXCEPT ![s] = "deal"]
      /\ sndQ' = [sndQ EXCEPT ![s] = <<>>]
      /\ task' = [task EXCEPT ![s] = [msgPos |-> s,
                                      tableLebel |-> m.tableLebel,
                                      refresh |-> "N"]]
  <2>1. Tail(sndQ[s]) = <<>>
    <3>1. sndQ[s] \in Seq(Msg) /\ sndQ[s] # <<>>
      BY DEF ReceiveTask
    <3>2. Tail(sndQ[s]) \in Seq(Msg) /\ Len(Tail(sndQ[s])) = 0
      BY <1>1, <3>1, QueueFacts
    <3> QED
      BY <3>2, EmptySeq
  <2> QED
    BY <1>1, <2>1 DEF ReceiveTask, TaskWellFormed
<1>3. \A k \in 1 .. Len(rcvQ) : rcvQ[k].msgPos # s /\ rcvQ[k].msgPos \in Pos
  <2>1. ASSUME NEW k \in 1 .. Len(rcvQ)
        PROVE  rcvQ[k].msgPos # s /\ rcvQ[k].msgPos \in Pos
    <3>1. rcvQ[k] \in Msg /\ sndQ[rcvQ[k].msgPos] = <<>>
      BY DEF ReportsWellFormed, ReportWellFormed
    <3>2. sndQ[s] # <<>>
      BY DEF ReceiveTask
    <3> QED
      BY <3>1, <3>2, MsgFields
  <2> QED
    BY <2>1
<1>4. TaskWellFormed'
  BY <1>1, <1>2 DEF TaskWellFormed
<1>5. ReportsWellFormed' /\ ReportsDistinct'
  BY <1>1, <1>2, <1>3 DEF ReportsWellFormed, ReportWellFormed,
                          ReportsDistinct, Waiting, Requesting
<1>6. TasksWellFormed'
  BY <1>1, <1>2 DEF TasksWellFormed, Waiting, Requesting
<1>7. RequesterWaits'
  BY <1>1, <1>2 DEF RequesterWaits, Waiting, Requesting, Msg
<1>8. BusyHasOneHolder'
  <2>1. ASSUME NEW i \in Pos, NEW l \in Node, Holds(i, l)'
        PROVE  Holds(i, l)
    BY <1>1, <1>2, <1>3, <2>1 DEF Holds, Sent, Reported
  <2> QED
    BY <1>1, <2>1 DEF BusyHasOneHolder
<1> QED
  BY <1>4, <1>5, <1>6, <1>7, <1>8
\* A step of a process that moves no message, frees no table and makes no
\* child hold more than it held keeps the invariant.
LEMMA LocalStepIInv ==
    ASSUME IInv, TypeOK', TaskWellFormed',
           UNCHANGED <<rcvQ, sndQ, status, rcvBuf>>,
           parent' = "assign" => parent = "assign",
           \A i \in Pos : Waiting(i) => Waiting(i)' /\ task'[i] = task[i],
           \A i \in Pos, l \in Node :
              child'[i] \in {"deal", "send"} /\ task'[i].tableLebel = l
                 => Holds(i, l)
    PROVE  IInv'
<1> USE DEF IInv, TypeOK
<1>1. \A k \in 1 .. Len(rcvQ) : rcvQ[k].msgPos \in Pos
  BY MsgFields
<1>2. ReportsWellFormed' /\ ReportsDistinct'
  BY <1>1 DEF ReportsWellFormed, ReportWellFormed, ReportsDistinct, Requesting
<1>3. TasksWellFormed'
  BY DEF TasksWellFormed, Requesting
<1>4. RequesterWaits'
  BY DEF RequesterWaits, Msg
<1>5. ASSUME NEW i \in Pos, NEW l \in Node, Holds(i, l)' PROVE Holds(i, l)
  BY <1>5 DEF Holds, Sent, Reported
<1>6. BusyHasOneHolder'
  BY <1>5 DEF BusyHasOneHolder
<1> QED
  BY <1>2, <1>3, <1>4, <1>6

\* Starting the program again leaves nothing behind: the queues of the
\* earlier instance are gone.
LEMMA StartProgramIInv ==
    ASSUME IInv, TypeOK', StartProgram PROVE IInv'
<1> USE DEF StartProgram
<1>1. TaskWellFormed'
  BY PosFacts DEF TaskWellFormed, FirstTasks, FirstMsg, NoChild
<1>2. /\ ReportsWellFormed' /\ ReportsDistinct'
      /\ TasksWellFormed' /\ RequesterWaits'
  BY DEF ReportsWellFormed, ReportsDistinct, TasksWellFormed, RequesterWaits,
         EmptyQueues
<1>3. BusyHasOneHolder'
  BY PosFacts DEF BusyHasOneHolder, Holds, Sent, Reported, EmptyQueues, NoChild
<1> QED
  BY <1>1, <1>2, <1>3 DEF IInv

\* The inductive invariant holds in every reachable state.
THEOREM InvariantHolds == Spec => []IInv
<1>1. IInv /\ TypeOK' /\ [Next]_vars => IInv'
  <2> SUFFICES ASSUME IInv, TypeOK', [Next]_vars PROVE IInv'
    OBVIOUS
  <2> USE DEF IInv, TypeOK, parentVars, queueVars, envVars
  <2>1. CASE ForkChild
    <3>1. forked \in Pos
      BY <2>1, PosFacts DEF ForkChild, Pos
    <3> QED
      BY <2>1, <3>1, LocalStepIInv
         DEF ForkChild, TaskWellFormed, Waiting, Holds
  <2>2. CASE RecordPid
    BY <2>2, LocalStepIInv DEF RecordPid, TaskWellFormed, Waiting, Holds
  <2>3. CASE ReceiveReport
    BY <2>3, ReceiveReportIInv
  <2>4. CASE SkipBusyNode
    BY <2>4, LocalStepIInv DEF SkipBusyNode, TaskWellFormed, Waiting, Holds
  <2>5. CASE AssignTask
    BY <2>5, AssignTaskIInv
  <2>6. CASE ParentDies
    BY <2>6, LocalStepIInv DEF ParentDies, TaskWellFormed, Waiting, Holds
  <2>7. ASSUME NEW i \in Pos, FindPos(i) PROVE IInv'
    <3>1. child[i] = "start" /\ child' = [child EXCEPT ![i] = "send"]
          /\ task' = [task EXCEPT ![i] = FirstMsg(i)]
      BY <2>7 DEF FindPos
    <3>2. TaskWellFormed'
      BY <3>1, PosFacts DEF TaskWellFormed, FirstMsg
    <3>3. \A j \in Pos, l \in Node :
             child'[j] \in {"deal", "send"} /\ task'[j].tableLebel = l
                => Holds(j, l)
      BY <3>1, PosFacts DEF Holds, FirstMsg
    <3>4. \A j \in Pos : Waiting(j) => Waiting(j)' /\ task'[j] = task[j]
      BY <3>1 DEF Waiting
    <3>5. UNCHANGED <<rcvQ, sndQ, status, rcvBuf, parent>>
      BY <2>7 DEF FindPos
    <3> QED
      BY <3>2, <3>3, <3>4, <3>5, LocalStepIInv
  <2>8. ASSUME NEW i \in Pos, SendReport(i) PROVE IInv'
    BY <2>8, SendReportIInv
  <2>9. ASSUME NEW i \in Pos, ReceiveTask(i) PROVE IInv'
    BY <2>9, ReceiveTaskIInv
  <2>10. ASSUME NEW i \in Pos, FinishDeal(i) PROVE IInv'
    BY <2>10, LocalStepIInv DEF FinishDeal, TaskWellFormed, Waiting, Holds
  <2>11. ASSUME NEW i \in Pos, ChildDies(i) PROVE IInv'
    BY <2>11, LocalStepIInv DEF ChildDies, TaskWellFormed, Waiting, Holds
  <2>12. CASE OrderStop
    BY <2>12, LocalStepIInv DEF OrderStop, TaskWellFormed, Waiting, Holds
  <2>13. CASE StartProgram
    BY <2>13, StartProgramIInv
  <2>14. CASE UNCHANGED vars
    BY <2>14, LocalStepIInv DEF vars, TaskWellFormed, Waiting, Holds
  <2> QED
    BY <2>1, <2>2, <2>3, <2>4, <2>5, <2>6, <2>7, <2>8, <2>9, <2>10, <2>11,
       <2>12, <2>13, <2>14 DEF Next, ParentStep, ChildStep
<1> QED
  BY <1>1, InitIInv, TypeCorrect, PTL DEF Spec

\* A table some child answers for is busy and has no other holder.
COROLLARY BusyHasOneHolderHolds == Spec => []BusyHasOneHolder
<1>1. IInv => BusyHasOneHolder
  BY DEF IInv
<1> QED
  BY <1>1, InvariantHolds, PTL

\* No two children ever deal with the same table.
THEOREM TableExclusionHolds == Spec => []TableExclusion
<1>1. IInv => TableExclusion
  <2> SUFFICES ASSUME IInv, NEW i \in Pos, NEW j \in Pos,
                      Dealing(i) = Dealing(j), Dealing(i) # NoLabel
               PROVE  i = j
    BY DEF TableExclusion
  <2>1. /\ child[i] = "deal" /\ child[j] = "deal"
        /\ task[i].tableLebel = task[j].tableLebel
        /\ task[i].tableLebel \in Node
    BY DEF Dealing, IInv, TypeOK, Msg
  <2>2. Holds(i, task[i].tableLebel) /\ Holds(j, task[i].tableLebel)
    BY <2>1 DEF Holds
  <2> QED
    BY <2>1, <2>2 DEF IInv, BusyHasOneHolder
<1> QED
  BY <1>1, InvariantHolds, PTL

\* No child ever has more than one message on the way: a report and a task
\* of one child are never in the queues at the same time.
THEOREM OneMessagePerChildHolds == Spec => []OneMessagePerChild
<1>1. IInv => OneMessagePerChild
  <2> SUFFICES ASSUME IInv, NEW i \in Pos
               PROVE  Len(sndQ[i]) + Cardinality(Reports(i)) <= 1
    BY DEF OneMessagePerChild
  <2> USE DEF IInv, TypeOK
  <2>1. CASE sndQ[i] = <<>>
    <3>1. Len(sndQ[i]) = 0
      BY <2>1
    <3>2. Cardinality(Reports(i)) \in {0, 1}
      <4>1. CASE Reports(i) = {}
        BY <4>1, FS_EmptySet
      <4>2. CASE Reports(i) # {}
        <5>1. PICK k \in Reports(i) : TRUE
          BY <4>2
        <5>2. Reports(i) = {k}
          BY <5>1 DEF Reports, ReportsDistinct
        <5> QED
          BY <5>2, FS_Singleton
      <4> QED
        BY <4>1, <4>2
    <3> QED
      BY <3>1, <3>2
  <2>2. CASE sndQ[i] # <<>>
    <3>1. Len(sndQ[i]) = 1
      BY <2>2 DEF TasksWellFormed
    <3>2. Reports(i) = {}
      BY <2>2 DEF Reports, ReportsWellFormed, ReportWellFormed
    <3> QED
      BY <3>1, <3>2, FS_EmptySet
  <2> QED
    BY <2>1, <2>2
<1> QED
  BY <1>1, InvariantHolds, PTL

\* A step that marks no table busy and takes no account away keeps every
\* busy table accounted for.
LEMMA AccountsKept ==
    ASSUME BusyAccounted, TypeOK,
           \A l \in Node : status'[l] = "Y" => status[l] = "Y",
           \A i \in Pos : Account(i) \in Node => Account(i)' = Account(i)
    PROVE  \A l \in Node : status'[l] = "Y" => \E i \in Pos : Account(i)' = l
<1> SUFFICES ASSUME NEW l \in Node, status'[l] = "Y"
             PROVE  \E i \in Pos : Account(i)' = l
  OBVIOUS
<1>1. PICK i \in Pos : Account(i) = l
  BY DEF BusyAccounted
<1>2. Account(i)' = l
  BY <1>1
<1> QED
  BY <1>2

\* Taking a report takes the reporting child's account away, of the table
\* the report frees.
LEMMA ReceiveReportAccounted ==
    ASSUME IInv, IInv', BusyAccounted, ReceiveReport
    PROVE  \A l \in Node : status'[l] = "Y" => \E i \in Pos : Account(i)' = l
<1> DEFINE m == rcvQ[1]
<1> USE DEF IInv, TypeOK
<1>1. m \in Msg /\ m.msgPos \in Pos /\ 1 \in 1 .. Len(rcvQ)
  BY MsgFields DEF ReceiveReport
<1>2. m = task[m.msgPos] /\ sndQ[m.msgPos] = <<>> /\ ~Requesting(m.msgPos)
  BY <1>1 DEF ReportsWellFormed, ReportWellFormed
<1>3. Account(m.msgPos) = m.tableLebel
  BY <1>2 DEF Account
<1>4. m.tableLebel \in Node => m.refresh = "N"
  BY <1>1, <1>2 DEF TaskWellFormed
<1>5. status' = AfterReport(m) /\ rcvBuf' = m /\ UNCHANGED <<task, sndQ>>
      /\ parent = "rcv" /\ parent' = "assign"
  BY DEF ReceiveReport
<1> SUFFICES ASSUME NEW l \in Node, status'[l] = "Y"
             PROVE  \E i \in Pos : Account(i)' = l
  OBVIOUS
<1>6. status[l] = "Y" /\ l # m.tableLebel
  BY <1>1, <1>4, <1>5 DEF AfterReport
<1>7. PICK i \in Pos : Account(i) = l
  BY <1>6 DEF BusyAccounted
<1>8. i # m.msgPos
  BY <1>3, <1>6, <1>7
<1>9. Account(i)' = Account(i)
  BY <1>5, <1>8 DEF Account, Requesting
<1> QED
  BY <1>7, <1>9

\* The table handed out is accounted for by the child it is sent to, which
\* accounted for none before.
LEMMA AssignTaskAccounted ==
    ASSUME IInv, IInv', BusyAccounted, AssignTask
    PROVE  \A l \in Node : status'[l] = "Y" => \E i \in Pos : Account(i)' = l
<1> USE DEF IInv, TypeOK
<1>0. PICK r \in Pos : r = rcvBuf.msgPos
  BY MsgFields
<1>1. Requesting(r) /\ sndQ[r] = <<>>
  BY <1>0 DEF AssignTask, Requesting, TasksWellFormed
<1>2. /\ sndQ' = [sndQ EXCEPT ![r] = Append(sndQ[r],
                     [msgPos |-> r, tableLebel |-> nodePos, refresh |-> "N"])]
      /\ UNCHANGED <<task, rcvBuf>> /\ parent' = "rcv"
      /\ status' = [status EXCEPT ![nodePos] = "Y"]
  BY <1>0 DEF AssignTask
<1>3. sndQ'[r] = <<[msgPos |-> r, tableLebel |-> nodePos, refresh |-> "N"]>>
  BY <1>1, <1>2
<1>4. Account(r)' = nodePos
  BY <1>3 DEF Account
<1>5. Account(r) = NoLabel
  BY <1>1 DEF Account
<1> SUFFICES ASSUME NEW l \in Node, status'[l] = "Y"
             PROVE  \E i \in Pos : Account(i)' = l
  OBVIOUS
<1>6. CASE l = nodePos
  BY <1>4, <1>6
<1>7. CASE l # nodePos
  <2>1. status[l] = "Y"
    BY <1>2, <1>7
  <2>2. PICK i \in Pos : Account(i) = l
    BY <2>1 DEF BusyAccounted
  <2>3. i # r
    BY <1>5, <2>2, PosFacts
  <2>4. Account(i)' = Account(i)
    BY <1>0, <1>1, <1>2, <2>3 DEF Account, Requesting
  <2> QED
    BY <2>2, <2>4
<1> QED
  BY <1>6, <1>7

\* Every step keeps every busy table accounted for.
LEMMA AccountedStep ==
    ASSUME IInv, IInv', BusyAccounted, [Next]_vars PROVE BusyAccounted'
<1> USE DEF IInv, TypeOK, parentVars, queueVars, envVars
<1>1. \A l \in Node : status'[l] = "Y" => \E i \in Pos : Account(i)' = l
  <2>1. CASE ReceiveReport
    BY <2>1, ReceiveReportAccounted
  <2>2. CASE AssignTask
    BY <2>2, AssignTaskAccounted
  <2>3. CASE StartProgram
    BY <2>3 DEF StartProgram, FreeNodes
  <2>4. ASSUME NEW i \in Pos, SendReport(i) \/ FinishDeal(i) \/ ChildDies(i)
        PROVE  UNCHANGED <<status, sndQ, task, parent, rcvBuf>>
    BY <2>4 DEF SendReport, FinishDeal, ChildDies
  <2>5. CASE \/ ForkChild \/ RecordPid \/ SkipBusyNode \/ ParentDies \/ OrderStop
             \/ UNCHANGED vars
             \/ \E i \in Pos : SendReport(i) \/ FinishDeal(i) \/ ChildDies(i)
    <3>1. UNCHANGED <<status, sndQ, task>>
      BY <2>4, <2>5 DEF ForkChild, RecordPid, SkipBusyNode, ParentDies,
                        OrderStop, vars
    <3>2. \A i \in Pos : Requesting(i)' => Requesting(i)
      BY <2>4, <2>5 DEF ForkChild, RecordPid, SkipBusyNode, ParentDies,
                        OrderStop, vars, Requesting
    <3>3. \A i \in Pos : Account(i) \in Node => Account(i)' = Account(i)
      BY <3>1, <3>2, PosFacts DEF Account
    <3> QED
      BY <3>1, <3>3, AccountsKept
  <2>6. ASSUME NEW i \in Pos, FindPos(i)
        PROVE  \A l \in Node : status'[l] = "Y" => \E j \in Pos : Account(j)' = l
    <3>1. UNCHANGED <<status, sndQ, parent, rcvBuf>>
          /\ task' = [task EXCEPT ![i] = FirstMsg(i)]
          /\ task[i].tableLebel = NoLabel
      BY <2>6 DEF FindPos, BusyAccounted
    <3>2. task'[i].tableLebel = task[i].tableLebel
      BY <3>1 DEF FirstMsg
    <3>3. \A j \in Pos : task'[j].tableLebel = task[j].tableLebel
      BY <3>1, <3>2
    <3>4. \A j \in Pos : Account(j)' = Account(j)
      BY <3>1, <3>3 DEF Account, Requesting
    <3> QED
      BY <3>1, <3>4, AccountsKept
  <2>7. ASSUME NEW i \in Pos, ReceiveTask(i)
        PROVE  \A l \in Node : status'[l] = "Y" => \E j \in Pos : Account(j)' = l
    <3>1. /\ sndQ[i] # <<>> /\ Len(sndQ[i]) = 1 /\ ~Requesting(i)
          /\ UNCHANGED <<status, parent, rcvBuf>>
          /\ sndQ' = [sndQ EXCEPT ![i] = Tail(sndQ[i])]
          /\ task'[i].tableLebel = sndQ[i][1].tableLebel
          /\ \A j \in Pos \ {i} : task'[j] = task[j]
      BY <2>7 DEF ReceiveTask, TasksWellFormed
    <3>2. sndQ'[i] = <<>> /\ ~Requesting(i)'
      <4>1. sndQ[i] \in Seq(Msg) /\ sndQ[i] # <<>>
        BY <3>1
      <4>2. Tail(sndQ[i]) \in Seq(Msg) /\ Len(Tail(sndQ[i])) = 0
        BY <3>1, <4>1, QueueFacts
      <4>3. Tail(sndQ[i]) = <<>>
        BY <4>2, EmptySeq
      <4> QED
        BY <3>1, <4>3 DEF Requesting
    <3>3. Account(i)' = Account(i)
      BY <3>1, <3>2 DEF Account
    <3>4. \A j \in Pos \ {i} : Account(j)' = Account(j)
      BY <3>1 DEF Account, Requesting
    <3> QED
      BY <3>1, <3>3, <3>4, AccountsKept
  <2> QED
    BY <2>1, <2>2, <2>3, <2>5, <2>6, <2>7 DEF Next, ParentStep, ChildStep
<1>2. \A i \in Pos :
         child'[i] \in {"none", "start"} => task'[i].tableLebel = NoLabel
  <2>1. CASE StartProgram
    BY <2>1 DEF StartProgram, FirstTasks, FirstMsg
  <2>2. ASSUME NEW i \in Pos, FindPos(i) \/ ReceiveTask(i)
        PROVE  /\ child'[i] \notin {"none", "start"}
               /\ \A j \in Pos \ {i} : child'[j] = child[j] /\ task'[j] = task[j]
    BY <2>2 DEF FindPos, ReceiveTask
  <2>3. CASE \E i \in Pos : FindPos(i) \/ ReceiveTask(i)
    BY <2>2, <2>3 DEF BusyAccounted
  <2>4. CASE \E i \in Pos : SendReport(i) \/ FinishDeal(i) \/ ChildDies(i)
    BY <2>4 DEF SendReport, FinishDeal, ChildDies, BusyAccounted
  <2>5. CASE ForkChild
    BY <2>5 DEF ForkChild, BusyAccounted
  <2>6. CASE \/ RecordPid \/ ReceiveReport \/ SkipBusyNode \/ AssignTask
             \/ ParentDies \/ OrderStop \/ UNCHANGED vars
    BY <2>6 DEF RecordPid, ReceiveReport, SkipBusyNode, AssignTask, ParentDies,
                OrderStop, vars, BusyAccounted
  <2> QED
    BY <2>1, <2>3, <2>4, <2>5, <2>6 DEF Next, ParentStep, ChildStep
<1> QED
  BY <1>1, <1>2 DEF BusyAccounted

\* Every busy table has a child that accounts for it.
THEOREM BusyAccountedHolds == Spec => []BusyAccounted
<1>1. Init => BusyAccounted
  BY PosFacts DEF Init, BusyAccounted, FreeNodes, FirstTasks, FirstMsg
<1> QED
  BY <1>1, AccountedStep, InvariantHolds, PTL DEF Spec

\* There are more nodes than children other than r.
LEMMA MoreNodesThanOthers ==
    ASSUME NEW r \in Pos, NEW f \in [Node -> Pos \ {r}]
    PROVE  \E x, y \in Node : x # y /\ f[x] = f[y]
<1>1. IsFiniteSet(Pos) /\ Cardinality(Pos) = ProcessNum
  <2> DEFINE b == ProcessNum - 1
  <2>1. b \in Int /\ b >= 0
    BY PosFacts
  <2>2. IsFiniteSet(0 .. b) /\ Cardinality(0 .. b) = b + 1
    <3> HIDE DEF b
    <3>1. Cardinality(0 .. b) = IF 0 > b THEN 0 ELSE b - 0 + 1
      BY <2>1, FS_Interval
    <3> QED
      BY <2>1, <3>1, FS_Interval
  <2> QED
    BY <2>2, PosFacts DEF Pos
<1>2. IsFiniteSet(Pos \ {r}) /\ Cardinality(Pos \ {r}) = ProcessNum - 1
  BY <1>1, FS_RemoveElement
<1>3. Cardinality(Pos \ {r}) < Cardinality(Node) /\ IsFiniteSet(Node)
  BY <1>1, <1>2, PosFacts
<1> QED
  BY <1>2, <1>3, FS_PigeonHole

\* The parent's search for a free table always ends: fewer tables are
\* accounted for than there are children, since the child that asks for a
\* table accounts for none.
THEOREM SearchEndsHolds == Spec => []SearchEnds
<1>1. IInv /\ BusyAccounted => SearchEnds
  <2> SUFFICES ASSUME IInv, BusyAccounted, parent = "assign",
                      \A n \in Node : status[n] # "N"
               PROVE  FALSE
    BY DEF SearchEnds
  <2> USE DEF IInv, TypeOK
  <2>1. PICK r \in Pos : r = rcvBuf.msgPos
    BY MsgFields
  <2>2. Account(r) = NoLabel
    BY <2>1 DEF Account, Requesting, TasksWellFormed
  <2>3. \A l \in Node : \E i \in Pos \ {r} : Account(i) = l
    BY <2>2, PosFacts DEF BusyAccounted
  <2> DEFINE f == [l \in Node |-> CHOOSE i \in Pos \ {r} : Account(i) = l]
  <2>4. f \in [Node -> Pos \ {r}] /\ \A l \in Node : Account(f[l]) = l
    BY <2>3
  <2> HIDE DEF f
  <2>5. \E x, y \in Node : x # y /\ f[x] = f[y]
    BY <2>4, MoreNodesThanOthers
  <2> QED
    BY <2>4, <2>5
<1> QED
  BY <1>1, InvariantHolds, BusyAccountedHolds, PTL
-----------------------------------------------------------------------------
(***************************************************************************)
(* OrderSched implements the lease cycle of TableLease, for every number   *)
(* of children and any number of deaths and monitor runs: each step of the *)
(* parent, the children and the monitor is one step of the cycle or none.  *)
(***************************************************************************)

\* While the monitor has the program stopped, no process of it is left, so
\* that the tables can be called free at once.
StoppedIsDead ==
    monitor = "start" => parent = "dead" /\ \A i \in Pos : child[i] = "dead"

\* Every step keeps it: who is dead stays dead until the program is started.
LEMMA StoppedStep ==
    TypeOK /\ StoppedIsDead /\ [Next]_vars => StoppedIsDead'
<1> SUFFICES ASSUME TypeOK, StoppedIsDead, [Next]_vars, monitor' = "start"
             PROVE  parent' = "dead" /\ \A i \in Pos : child'[i] = "dead"
  BY DEF StoppedIsDead
<1> USE DEF TypeOK, parentVars, queueVars, envVars, StoppedIsDead
<1>1. CASE ForkChild \/ RecordPid \/ ReceiveReport \/ SkipBusyNode
             \/ AssignTask
  BY <1>1 DEF ForkChild, RecordPid, ReceiveReport, SkipBusyNode, AssignTask
<1>2. CASE ParentDies
  BY <1>2 DEF ParentDies
<1>3. CASE OrderStop
  BY <1>3 DEF OrderStop
<1>4. CASE StartProgram
  BY <1>4 DEF StartProgram
<1>5. ASSUME NEW i \in Pos, ChildStep(i) \/ ChildDies(i) PROVE FALSE
  BY <1>5 DEF ChildStep, FindPos, SendReport, ReceiveTask, FinishDeal,
              ChildDies
<1>6. CASE UNCHANGED vars
  BY <1>6 DEF vars
<1> QED
  BY <1>1, <1>2, <1>3, <1>4, <1>5, <1>6 DEF Next, ParentStep

\* When the program is stopped it has no process left.
THEOREM StoppedIsDeadHolds == Spec => []StoppedIsDead
<1>1. Init => StoppedIsDead
  BY DEF Init, StoppedIsDead
<1> QED
  BY <1>1, StoppedStep, TypeCorrect, PTL DEF Spec

-----------------------------------------------------------------------------
(* Reading the phases.                                                     *)

\* Whoever deals with a table, was granted it or ends with it, holds it; so
\* the table is busy and nobody else does.
LEMMA PhaseHolder ==
    ASSUME IInv, NEW i \in Pos, NEW l \in Node,
           Dealing(i) = l \/ GrantedTo(i, l) \/ EndedBy(i, l)
    PROVE  /\ status[l] = "Y"
           /\ \A j \in Pos \ {i} :
                 Dealing(j) # l /\ ~GrantedTo(j, l) /\ ~EndedBy(j, l)
<1>1. \A j \in Pos : Dealing(j) = l \/ GrantedTo(j, l) \/ EndedBy(j, l)
                         => Holds(j, l)
  BY PosFacts DEF Dealing, GrantedTo, EndedBy, Holds
<1> QED
  BY <1>1 DEF IInv, BusyHasOneHolder

\* A table whose part in every process stays as it is stays in its phase.
LEMMA PhaseKept ==
    ASSUME NEW l \in Node, monitor' = monitor, status'[l] = status[l],
           \A i \in Pos : /\ (Dealing(i) = l)' <=> Dealing(i) = l
                          /\ GrantedTo(i, l)' <=> GrantedTo(i, l)
                          /\ EndedBy(i, l)' <=> EndedBy(i, l)
    PROVE  PhaseOf(l)' = PhaseOf(l)
BY DEF PhaseOf

\* If that holds of all tables and no child changes its table, the step is a
\* stutter of the lease cycle.
LEMMA LeaseStutter ==
    ASSUME \A l \in Node : PhaseOf(l)' = PhaseOf(l),
           \A i \in Pos : Dealing(i)' = Dealing(i)
    PROVE  UNCHANGED Lease!leaseVars
<1>1. [l \in Node |-> PhaseOf(l)]' = [l \in Node |-> PhaseOf(l)]
  OBVIOUS
<1>2. WorkingNow' = WorkingNow
  BY DEF WorkingNow
<1> QED
  BY <1>1, <1>2 DEF Lease!leaseVars

\* The phases as a function, when one table changes its phase.
LEMMA OnePhase ==
    ASSUME NEW l \in Node, NEW p, PhaseOf(l)' = p,
           \A n \in Node \ {l} : PhaseOf(n)' = PhaseOf(n)
    PROVE  [n \in Node |-> PhaseOf(n)]'
               = [[n \in Node |-> PhaseOf(n)] EXCEPT ![l] = p]
OBVIOUS

\* The same of the tables the children deal with.
LEMMA OneWorking ==
    ASSUME NEW c \in Pos, NEW w, Dealing(c)' = w,
           \A i \in Pos \ {c} : Dealing(i)' = Dealing(i)
    PROVE  WorkingNow' = [WorkingNow EXCEPT ![c] = w]
BY DEF WorkingNow

LEMMA SameWorking ==
    ASSUME \A i \in Pos : Dealing(i)' = Dealing(i)
    PROVE  WorkingNow' = WorkingNow
BY DEF WorkingNow

-----------------------------------------------------------------------------
(* The steps.                                                              *)

\* The parent's msgrcv ends the lease of the table the report names.
LEMMA ReceiveReportLease ==
    ASSUME IInv, StoppedIsDead, ReceiveReport
    PROVE  [Lease!LeaseNext]_(Lease!leaseVars)
<1> DEFINE m == rcvQ[1]
           r == m.msgPos
<1> USE DEF IInv, TypeOK
<1>1. /\ Len(rcvQ) \in Nat \ {0} /\ 1 \in 1 .. Len(rcvQ)
      /\ m \in Msg /\ r \in Pos /\ m.tableLebel \in Node \cup {NoLabel}
      /\ status' = AfterReport(m)
      /\ Len(rcvQ') = Len(rcvQ) - 1
      /\ \A k \in 1 .. Len(rcvQ') : rcvQ'[k] = rcvQ[k + 1]
      /\ UNCHANGED <<child, task, sndQ, monitor>>
      /\ monitor # "start"
  BY QueueFacts, MsgFields DEF ReceiveReport, envVars, StoppedIsDead
<1>2. /\ m = task[r] /\ Waiting(r) /\ sndQ[r] = <<>>
      /\ \A k \in 2 .. Len(rcvQ) : rcvQ[k].msgPos # r
  BY <1>1 DEF ReportsWellFormed, ReportWellFormed, ReportsDistinct
<1>3. m.refresh = "N" <=> m.tableLebel \in Node
  BY <1>1, <1>2 DEF TaskWellFormed
<1>4. \A i \in Pos : Dealing(i)' = Dealing(i)
  BY <1>1 DEF Dealing
<1>5. \A i \in Pos, l \in Node : GrantedTo(i, l)' <=> GrantedTo(i, l)
  BY <1>1 DEF GrantedTo, Sent
<1>6. \A i \in Pos, l \in Node :
          Reported(i, l)' <=> Reported(i, l) /\ ~(i = r /\ l = m.tableLebel)
  <2> SUFFICES ASSUME NEW i \in Pos, NEW l \in Node
               PROVE  Reported(i, l)' <=>
                          Reported(i, l) /\ ~(i = r /\ l = m.tableLebel)
    OBVIOUS
  <2>1. ASSUME Reported(i, l)'
        PROVE  Reported(i, l) /\ i # r
    <3>1. PICK k \in 1 .. Len(rcvQ') :
              rcvQ'[k].msgPos = i /\ rcvQ'[k].tableLebel = l
      BY <2>1 DEF Reported
    <3>2. k + 1 \in 2 .. Len(rcvQ) /\ rcvQ'[k] = rcvQ[k + 1]
      BY <1>1
    <3> QED
      BY <1>2, <3>1, <3>2 DEF Reported
  <2>2. ASSUME Reported(i, l), ~(i = r /\ l = m.tableLebel)
        PROVE  Reported(i, l)'
    <3>1. PICK k \in 1 .. Len(rcvQ) :
              rcvQ[k].msgPos = i /\ rcvQ[k].tableLebel = l
      BY <2>2 DEF Reported
    <3>2. k # 1
      BY <2>2, <3>1
    <3>3. k - 1 \in 1 .. Len(rcvQ') /\ rcvQ'[k - 1] = rcvQ[k]
      <4>1. k - 1 \in 1 .. Len(rcvQ') /\ (k - 1) + 1 = k
        BY <1>1, <3>2
      <4> QED
        BY <1>1, <4>1
    <3> QED
      BY <3>1, <3>3 DEF Reported
  <2> QED
    BY <2>1, <2>2
<1>7. child[r] # "send" /\ child[r] # "deal"
  BY <1>2 DEF Waiting
<1>8. \A l \in Node \ {m.tableLebel} : PhaseOf(l)' = PhaseOf(l)
  <2> SUFFICES ASSUME NEW l \in Node \ {m.tableLebel}
               PROVE  PhaseOf(l)' = PhaseOf(l)
    OBVIOUS
  <2>1. status'[l] = status[l]
    BY <1>1 DEF AfterReport
  <2>2. \A i \in Pos : EndedBy(i, l)' <=> EndedBy(i, l)
    BY <1>1, <1>6 DEF EndedBy
  <2> QED
    BY <1>1, <1>4, <1>5, <2>1, <2>2, PhaseKept
<1>9. CASE m.tableLebel \in Node
  <2>0. PICK l \in Node : l = m.tableLebel
    BY <1>9
  <2>1. Reported(r, l)
    BY <1>1, <2>0 DEF Reported
  <2>2. EndedBy(r, l)
    BY <2>1 DEF EndedBy
  <2>3. /\ status[l] = "Y"
        /\ \A j \in Pos \ {r} : Dealing(j) # l /\ ~GrantedTo(j, l)
    BY <1>1, <2>2, PhaseHolder
  <2>4. Dealing(r) # l /\ ~GrantedTo(r, l)
    BY <1>2, <1>7, PosFacts DEF Dealing, GrantedTo, Sent
  <2>5. PhaseOf(l) = "done"
    BY <1>1, <2>2, <2>3, <2>4 DEF PhaseOf
  <2>6. status'[l] = "N"
    BY <1>1, <1>3, <1>9, <2>0 DEF AfterReport
  <2>7. PhaseOf(l)' = "free"
    BY <2>6 DEF PhaseOf
  <2>8. \A n \in Node \ {l} : PhaseOf(n)' = PhaseOf(n)
    BY <1>8, <2>0
  <2>9. Lease!Release(l)
    <3>1. [n \in Node |-> PhaseOf(n)]'
              = [[n \in Node |-> PhaseOf(n)] EXCEPT ![l] = "free"]
      BY <2>7, <2>8, OnePhase
    <3>2. WorkingNow' = WorkingNow
      BY <1>4, SameWorking
    <3> QED
      BY <2>5, <3>1, <3>2 DEF Lease!Release
  <2> QED
    BY <2>9 DEF Lease!LeaseNext
<1>10. CASE m.tableLebel \notin Node
  BY <1>4, <1>8, <1>10, LeaseStutter
<1> QED
  BY <1>9, <1>10

\* The table found is granted, or lost with a dead child.
LEMMA AssignTaskLease ==
    ASSUME IInv, StoppedIsDead, AssignTask
    PROVE  Lease!LeaseNext
<1> USE DEF IInv, TypeOK
<1>a. PICK l \in Node : l = nodePos
  OBVIOUS
<1>b. PICK r \in Pos : r = rcvBuf.msgPos
  BY MsgFields
<1> DEFINE m == [msgPos |-> r, tableLebel |-> l, refresh |-> "N"]
<1>1. /\ status[l] = "N"
      /\ status' = [status EXCEPT ![l] = "Y"]
      /\ sndQ[r] = <<>> /\ Waiting(r)
      /\ UNCHANGED <<child, task, rcvQ, monitor>>
      /\ monitor # "start"
  BY <1>a, <1>b DEF AssignTask, RequesterWaits, TasksWellFormed, Requesting,
                    envVars, StoppedIsDead
<1>2. sndQ' = [sndQ EXCEPT ![r] = <<m>>]
  <2>1. sndQ' = [sndQ EXCEPT ![r] = Append(sndQ[r], m)]
    BY <1>a, <1>b DEF AssignTask
  <2>2. Append(<< >>, m) = <<m>>
    OBVIOUS
  <2> QED
    BY <1>1, <2>1, <2>2
<1>3. \A i \in Pos : Dealing(i)' = Dealing(i)
  BY <1>1 DEF Dealing
<1>4. \A i \in Pos, n \in Node : EndedBy(i, n)' <=> EndedBy(i, n)
  BY <1>1 DEF EndedBy, Reported
<1>5. \A i \in Pos, n \in Node :
          Sent(i, n)' <=> Sent(i, n) \/ (i = r /\ n = l)
  BY <1>1, <1>2 DEF Sent
<1>6. \A n \in Node \ {l} : PhaseOf(n)' = PhaseOf(n)
  <2> SUFFICES ASSUME NEW n \in Node \ {l} PROVE PhaseOf(n)' = PhaseOf(n)
    OBVIOUS
  <2>1. \A i \in Pos : GrantedTo(i, n)' <=> GrantedTo(i, n)
    BY <1>1, <1>5 DEF GrantedTo
  <2> QED
    BY <1>1, <1>3, <1>4, <2>1, PhaseKept
<1>7. PhaseOf(l) = "free"
  BY <1>1 DEF PhaseOf
<1>8. \A i \in Pos : Dealing(i) # l /\ ~GrantedTo(i, l) /\ ~EndedBy(i, l)
  BY <1>1, PhaseHolder
<1>9. PhaseOf(l)' \in {"granted", "lost"}
  <2>1. status'[l] = "Y" /\ monitor' # "start"
    BY <1>1
  <2>2. \A i \in Pos : (Dealing(i) # l)' /\ ~EndedBy(i, l)'
    BY <1>1, <1>3, <1>4, <1>8
  <2> QED
    BY <2>1, <2>2 DEF PhaseOf
<1>10. PICK p \in {"granted", "lost"} : PhaseOf(l)' = p
  BY <1>9
<1>11. [n \in Node |-> PhaseOf(n)]'
           = [[n \in Node |-> PhaseOf(n)] EXCEPT ![l] = p]
  BY <1>1, <1>6, <1>10, OnePhase
<1>12. WorkingNow' = WorkingNow
  BY <1>3, SameWorking
<1>13. Lease!Grant(l)
  BY <1>1, <1>7, <1>11, <1>12 DEF Lease!Grant
<1> QED
  BY <1>1, <1>13 DEF Lease!LeaseNext

\* Steps of the parent that touch no message and no table, and the death of
\* the parent, are none of the lease cycle.
LEMMA ParentAsideLease ==
    ASSUME IInv, ForkChild \/ RecordPid \/ SkipBusyNode \/ ParentDies
    PROVE  UNCHANGED Lease!leaseVars
<1> USE DEF IInv, TypeOK, parentVars, queueVars, envVars
<1>1. UNCHANGED <<status, task, rcvQ, sndQ, monitor>>
  BY DEF ForkChild, RecordPid, SkipBusyNode, ParentDies
<1>2. \A i \in Pos :
          child'[i] = child[i] \/ (child[i] = "none" /\ child'[i] = "start")
  BY DEF ForkChild, RecordPid, SkipBusyNode, ParentDies
<1>3. \A i \in Pos : Dealing(i)' = Dealing(i)
  BY <1>1, <1>2 DEF Dealing
<1>4. ASSUME NEW i \in Pos, NEW l \in Node
      PROVE  /\ GrantedTo(i, l)' <=> GrantedTo(i, l)
             /\ EndedBy(i, l)' <=> EndedBy(i, l)
  BY <1>1, <1>2 DEF GrantedTo, EndedBy, Sent, Reported
<1>5. \A l \in Node : PhaseOf(l)' = PhaseOf(l)
  BY <1>1, <1>3, <1>4, PhaseKept
<1> QED
  BY <1>3, <1>5, LeaseStutter

\* A new child is no stranger to the lease cycle: it holds nothing yet.
LEMMA FindPosLease ==
    ASSUME IInv, BusyAccounted, NEW c \in Pos, FindPos(c)
    PROVE  UNCHANGED Lease!leaseVars
<1> USE DEF IInv, TypeOK, parentVars, queueVars, envVars
<1>1. /\ UNCHANGED <<status, rcvQ, sndQ, monitor>>
      /\ child[c] = "start" /\ child' = [child EXCEPT ![c] = "send"]
      /\ task' = [task EXCEPT ![c] = FirstMsg(c)]
      /\ task[c].tableLebel = NoLabel /\ task'[c].tableLebel = NoLabel
  BY DEF FindPos, BusyAccounted, FirstMsg
<1>2. \A i \in Pos : Dealing(i)' = Dealing(i)
  BY <1>1 DEF Dealing
<1>3. ASSUME NEW i \in Pos, NEW l \in Node
      PROVE  /\ GrantedTo(i, l)' <=> GrantedTo(i, l)
             /\ EndedBy(i, l)' <=> EndedBy(i, l)
  <2>1. l # NoLabel
    BY PosFacts
  <2> QED
    BY <1>1, <2>1 DEF GrantedTo, EndedBy, Sent, Reported
<1>4. \A l \in Node : PhaseOf(l)' = PhaseOf(l)
  BY <1>1, <1>2, <1>3, PhaseKept
<1> QED
  BY <1>2, <1>4, LeaseStutter

\* A report on its way is its sender's: the lease ends when the child is
\* finished, and sending the report changes nothing of it.
LEMMA SendReportLease ==
    ASSUME IInv, NEW c \in Pos, SendReport(c)
    PROVE  UNCHANGED Lease!leaseVars
<1> USE DEF IInv, TypeOK, parentVars, queueVars, envVars
<1>1. /\ UNCHANGED <<status, task, sndQ, monitor>>
      /\ child[c] = "send" /\ child' = [child EXCEPT ![c] = "wait"]
      /\ task[c] \in Msg /\ task[c].msgPos = c
      /\ rcvQ' = Append(rcvQ, task[c])
  BY DEF SendReport, TaskWellFormed
<1>2. \A i \in Pos : Dealing(i)' = Dealing(i)
  BY <1>1 DEF Dealing
<1>3. \A i \in Pos, l \in Node :
          Reported(i, l)' <=>
              Reported(i, l) \/ (i = c /\ task[c].tableLebel = l)
  <2>1. /\ Len(rcvQ) \in Nat
        /\ Len(rcvQ') = Len(rcvQ) + 1
        /\ \A k \in 1 .. Len(rcvQ) : rcvQ'[k] = rcvQ[k]
        /\ rcvQ'[Len(rcvQ) + 1] = task[c]
    BY <1>1
  <2> DEFINE L == Len(rcvQ)
  <2> SUFFICES ASSUME NEW i \in Pos, NEW l \in Node
               PROVE  Reported(i, l)' <=>
                          Reported(i, l) \/ (i = c /\ task[c].tableLebel = l)
    OBVIOUS
  <2>2. ASSUME Reported(i, l)'
        PROVE  Reported(i, l) \/ (i = c /\ task[c].tableLebel = l)
    <3>1. PICK k \in 1 .. Len(rcvQ') :
              rcvQ'[k].msgPos = i /\ rcvQ'[k].tableLebel = l
      BY <2>2 DEF Reported
    <3>2. k \in 1 .. Len(rcvQ) \/ k = Len(rcvQ) + 1
      BY <2>1
    <3> QED
      BY <1>1, <2>1, <3>1, <3>2 DEF Reported
  <2>3. ASSUME Reported(i, l) PROVE Reported(i, l)'
    <3>1. PICK k \in 1 .. Len(rcvQ) :
              rcvQ[k].msgPos = i /\ rcvQ[k].tableLebel = l
      BY <2>3 DEF Reported
    <3>2. k \in 1 .. Len(rcvQ') /\ rcvQ'[k] = rcvQ[k]
      BY <2>1
    <3> QED
      BY <3>1, <3>2 DEF Reported
  <2>4. ASSUME i = c, task[c].tableLebel = l PROVE Reported(i, l)'
    <3>1. Len(rcvQ) + 1 \in 1 .. Len(rcvQ')
      BY <2>1
    <3> QED
      BY <1>1, <2>1, <2>4, <3>1 DEF Reported
  <2> QED
    BY <2>2, <2>3, <2>4
<1>4. ASSUME NEW i \in Pos, NEW l \in Node
      PROVE  /\ GrantedTo(i, l)' <=> GrantedTo(i, l)
             /\ EndedBy(i, l)' <=> EndedBy(i, l)
  BY <1>1, <1>3 DEF GrantedTo, EndedBy, Sent
<1>5. \A l \in Node : PhaseOf(l)' = PhaseOf(l)
  BY <1>1, <1>2, <1>4, PhaseKept
<1> QED
  BY <1>2, <1>5, LeaseStutter

\* The child that takes its task begins to deal with the table granted.
LEMMA ReceiveTaskLease ==
    ASSUME IInv, StoppedIsDead, NEW c \in Pos, ReceiveTask(c)
    PROVE  Lease!LeaseNext
<1> USE DEF IInv, TypeOK, parentVars, queueVars, envVars
<1>1. /\ UNCHANGED <<status, rcvQ, monitor>>
      /\ child[c] = "wait" /\ sndQ[c] # <<>>
      /\ Head(sndQ[c]) = sndQ[c][1]
      /\ sndQ[c][1].tableLebel \in Node /\ sndQ[c][1].refresh = "N"
      /\ Len(sndQ[c]) = 1
      /\ monitor # "start"
  BY DEF ReceiveTask, TasksWellFormed, StoppedIsDead
<1>2. PICK l \in Node : l = sndQ[c][1].tableLebel
  BY <1>1
<1>3. /\ child' = [child EXCEPT ![c] = "deal"]
      /\ task'[c].tableLebel = l
      /\ \A i \in Pos \ {c} : task'[i] = task[i]
      /\ sndQ'[c] = <<>>
      /\ \A i \in Pos \ {c} : sndQ'[i] = sndQ[i]
  <2> DEFINE a == Head(sndQ[c])
             b == [msgPos |-> task[c].msgPos, tableLebel |-> a.tableLebel,
                   refresh |-> a.refresh]
  <2>1. /\ child' = [child EXCEPT ![c] =
                         IF a.refresh = "I" THEN "send" ELSE "deal"]
        /\ task' = [task EXCEPT ![c] = b]
        /\ sndQ' = [sndQ EXCEPT ![c] = Tail(sndQ[c])]
    BY DEF ReceiveTask
  <2>2. a.refresh # "I" /\ a.tableLebel = l
    BY <1>1, <1>2
  <2>3. Tail(sndQ[c]) \in Seq(Msg) /\ Len(Tail(sndQ[c])) = 0
    BY <1>1
  <2>4. Tail(sndQ[c]) = <<>>
    BY <2>3, EmptySeq
  <2>5. task'[c] = b /\ \A i \in Pos \ {c} : task'[i] = task[i]
    BY <2>1
  <2> QED
    BY <2>1, <2>2, <2>4, <2>5
<1>4. GrantedTo(c, l)
  BY <1>1, <1>2 DEF GrantedTo, Sent
<1>5. /\ status[l] = "Y"
      /\ \A j \in Pos \ {c} : Dealing(j) # l /\ ~GrantedTo(j, l)
  BY <1>4, PhaseHolder
<1>6. Dealing(c) = NoLabel /\ Dealing(c)' = l
  BY <1>1, <1>3 DEF Dealing
<1>7. \A i \in Pos \ {c} : Dealing(i)' = Dealing(i)
  BY <1>3 DEF Dealing
<1>8. PhaseOf(l) = "granted"
  <2>1. Dealing(c) # l
    BY <1>6, PosFacts
  <2> QED
    BY <1>1, <1>4, <1>5, <2>1 DEF PhaseOf
<1>9. PhaseOf(l)' = "dealing"
  <2>1. status'[l] = "Y" /\ monitor' # "start" /\ (Dealing(c) = l)'
    BY <1>1, <1>5, <1>6
  <2> QED
    BY <2>1 DEF PhaseOf
<1>10. ASSUME NEW n \in Node \ {l} PROVE PhaseOf(n)' = PhaseOf(n)
  <2>1. n # NoLabel
    BY PosFacts
  <2>2. \A i \in Pos : (Dealing(i) = n)' <=> Dealing(i) = n
    BY <1>6, <1>7, <2>1
  <2>3. \A i \in Pos : GrantedTo(i, n)' <=> GrantedTo(i, n)
    BY <1>1, <1>2, <1>3 DEF GrantedTo, Sent
  <2>4. \A i \in Pos : EndedBy(i, n)' <=> EndedBy(i, n)
    BY <1>1, <1>3 DEF EndedBy, Reported
  <2> QED
    BY <1>1, <2>2, <2>3, <2>4, PhaseKept
<1>11. Lease!Begin(c, l)
  <2>1. [n \in Node |-> PhaseOf(n)]'
            = [[n \in Node |-> PhaseOf(n)] EXCEPT ![l] = "dealing"]
    BY <1>9, <1>10, OnePhase
  <2>2. WorkingNow' = [WorkingNow EXCEPT ![c] = l]
    BY <1>6, <1>7, OneWorking
  <2>3. WorkingNow[c] = NoLabel
    BY <1>6 DEF WorkingNow
  <2> QED
    BY <1>8, <2>1, <2>2, <2>3 DEF Lease!Begin
<1> QED
  BY <1>11 DEF Lease!LeaseNext

\* The end of the deal function ends the work on its table.
LEMMA FinishDealLease ==
    ASSUME IInv, StoppedIsDead, NEW c \in Pos, FinishDeal(c)
    PROVE  Lease!LeaseNext
<1> USE DEF IInv, TypeOK, parentVars, queueVars, envVars
<1>1. /\ UNCHANGED <<status, task, rcvQ, sndQ, monitor>>
      /\ child[c] = "deal" /\ child' = [child EXCEPT ![c] = "send"]
      /\ task[c].tableLebel \in Node
      /\ monitor # "start"
      /\ sndQ[c] = <<>>
  BY DEF FinishDeal, TaskWellFormed, StoppedIsDead, TasksWellFormed, Waiting
<1>2. PICK l \in Node : l = task[c].tableLebel
  BY <1>1
<1>3. Dealing(c) = l /\ Dealing(c)' = NoLabel
  BY <1>1, <1>2 DEF Dealing
<1>4. \A i \in Pos \ {c} : Dealing(i)' = Dealing(i)
  BY <1>1 DEF Dealing
<1>5. /\ status[l] = "Y"
      /\ \A j \in Pos \ {c} : Dealing(j) # l /\ ~GrantedTo(j, l)
  BY <1>3, PhaseHolder
<1>6. \A i \in Pos, n \in Node : GrantedTo(i, n)' <=> GrantedTo(i, n)
  BY <1>1 DEF GrantedTo, Sent
<1>7. PhaseOf(l)' = "done"
  <2>1. status'[l] = "Y" /\ monitor' # "start" /\ EndedBy(c, l)'
    BY <1>1, <1>2, <1>5 DEF EndedBy
  <2>2. \A i \in Pos : ~GrantedTo(i, l)'
    BY <1>1, <1>5, <1>6 DEF GrantedTo, Sent
  <2>3. \A i \in Pos : (Dealing(i) # l)'
    BY <1>3, <1>4, <1>5, PosFacts
  <2> QED
    BY <2>1, <2>2, <2>3 DEF PhaseOf
<1>8. ASSUME NEW n \in Node \ {l} PROVE PhaseOf(n)' = PhaseOf(n)
  <2>1. n # NoLabel
    BY PosFacts
  <2>2. \A i \in Pos : (Dealing(i) = n)' <=> Dealing(i) = n
    BY <1>3, <1>4, <2>1
  <2>3. \A i \in Pos : EndedBy(i, n)' <=> EndedBy(i, n)
    BY <1>1, <1>2 DEF EndedBy, Reported
  <2> QED
    BY <1>1, <1>6, <2>2, <2>3, PhaseKept
<1>9. Lease!End(c, l)
  <2>1. [n \in Node |-> PhaseOf(n)]'
            = [[n \in Node |-> PhaseOf(n)] EXCEPT ![l] = "done"]
    BY <1>7, <1>8, OnePhase
  <2>2. WorkingNow' = [WorkingNow EXCEPT ![c] = NoLabel]
    BY <1>3, <1>4, OneWorking
  <2>3. WorkingNow[c] = l
    BY <1>3 DEF WorkingNow
  <2> QED
    BY <2>1, <2>2, <2>3 DEF Lease!End
<1> QED
  BY <1>9 DEF Lease!LeaseNext

\* A child that dies loses its table: the one granted, dealt with or ended
\* but not reported; what it has reported is not lost.
LEMMA ChildDiesLease ==
    ASSUME IInv, BusyAccounted, StoppedIsDead, NEW c \in Pos, ChildDies(c)
    PROVE  [Lease!LeaseNext]_(Lease!leaseVars)
<1> USE DEF IInv, TypeOK, parentVars, queueVars, envVars
<1>1. /\ UNCHANGED <<status, task, rcvQ, sndQ, monitor>>
      /\ child[c] \in {"start", "send", "wait", "deal"}
      /\ child' = [child EXCEPT ![c] = "dead"]
      /\ monitor # "start"
  BY DEF ChildDies, StoppedIsDead
<1>2. Dealing(c)' = NoLabel
  BY <1>1 DEF Dealing
<1>3. \A i \in Pos \ {c} : Dealing(i)' = Dealing(i)
  BY <1>1 DEF Dealing
<1>4. ASSUME NEW i \in Pos \ {c}, NEW n \in Node
      PROVE  /\ GrantedTo(i, n)' <=> GrantedTo(i, n)
             /\ EndedBy(i, n)' <=> EndedBy(i, n)
  BY <1>1 DEF GrantedTo, EndedBy, Sent, Reported
<1>5. \A n \in Node : ~GrantedTo(c, n)' /\ (EndedBy(c, n)' <=> Reported(c, n))
  BY <1>1 DEF GrantedTo, EndedBy, Reported
<1>6. ASSUME NEW n \in Node,
             Dealing(c) # n, ~GrantedTo(c, n),
             EndedBy(c, n) <=> Reported(c, n)
      PROVE  PhaseOf(n)' = PhaseOf(n)
  <2>1. n # NoLabel
    BY PosFacts
  <2>2. \A i \in Pos : (Dealing(i) = n)' <=> Dealing(i) = n
    BY <1>2, <1>3, <1>6, <2>1
  <2>3. \A i \in Pos : /\ GrantedTo(i, n)' <=> GrantedTo(i, n)
                       /\ EndedBy(i, n)' <=> EndedBy(i, n)
    BY <1>4, <1>5, <1>6
  <2> QED
    BY <1>1, <2>2, <2>3, PhaseKept
<1>7. ASSUME NEW l \in Node,
             \/ Dealing(c) = l
             \/ Dealing(c) = NoLabel /\ (GrantedTo(c, l) \/ EndedBy(c, l)),
             ~Reported(c, l),
             \A n \in Node \ {l} :
                /\ Dealing(c) # n /\ ~GrantedTo(c, n)
                /\ EndedBy(c, n) <=> Reported(c, n)
      PROVE  Lease!LeaseNext
  <2>1. /\ status[l] = "Y"
        /\ \A j \in Pos \ {c} :
              Dealing(j) # l /\ ~GrantedTo(j, l) /\ ~EndedBy(j, l)
    BY <1>7, PhaseHolder
  <2>2. PhaseOf(l)' = "lost"
    <3>1. status'[l] = "Y" /\ monitor' # "start"
      BY <1>1, <2>1
    <3>2. \A i \in Pos : (Dealing(i) # l)'
      BY <1>2, <1>3, <2>1, PosFacts
    <3>3. \A i \in Pos : ~GrantedTo(i, l)' /\ ~EndedBy(i, l)'
      BY <1>4, <1>5, <1>7, <2>1
    <3> QED
      BY <3>1, <3>2, <3>3 DEF PhaseOf
  <2>3. \A n \in Node \ {l} : PhaseOf(n)' = PhaseOf(n)
    BY <1>6, <1>7
  <2>4. \/ Dealing(c) = l
        \/ Dealing(c) = NoLabel /\ PhaseOf(l) \in {"granted", "done"}
    <3> SUFFICES ASSUME Dealing(c) # l
                 PROVE  Dealing(c) = NoLabel
                        /\ PhaseOf(l) \in {"granted", "done"}
      OBVIOUS
    <3>1. \A i \in Pos : Dealing(i) # l
      BY <2>1
    <3> QED
      BY <1>1, <1>7, <2>1, <3>1 DEF PhaseOf
  <2>5. [n \in Node |-> PhaseOf(n)]'
            = [[n \in Node |-> PhaseOf(n)] EXCEPT ![l] = "lost"]
    BY <2>2, <2>3, OnePhase
  <2>6. WorkingNow' = [WorkingNow EXCEPT ![c] = NoLabel]
    BY <1>2, <1>3, OneWorking
  <2>7. WorkingNow[c] = Dealing(c)
    BY DEF WorkingNow
  <2>8. Lease!Lose(c, l)
    BY <2>4, <2>5, <2>6, <2>7 DEF Lease!Lose
  <2> QED
    BY <2>8 DEF Lease!LeaseNext
<1>8. ASSUME \A n \in Node : /\ Dealing(c) # n /\ ~GrantedTo(c, n)
                             /\ EndedBy(c, n) <=> Reported(c, n),
             Dealing(c) = NoLabel
      PROVE  UNCHANGED Lease!leaseVars
  <2>1. \A n \in Node : PhaseOf(n)' = PhaseOf(n)
    BY <1>6, <1>8
  <2>2. \A i \in Pos : Dealing(i)' = Dealing(i)
    BY <1>2, <1>3, <1>8
  <2> QED
    BY <2>1, <2>2, LeaseStutter
<1>9. ~Waiting(c) => \A n \in Node : ~Reported(c, n)
  BY DEF ReportsWellFormed, ReportWellFormed, Reported
<1>10. task[c].tableLebel \in Node \cup {NoLabel}
  BY MsgFields
<1>11. CASE child[c] = "start"
  <2>1. sndQ[c] = <<>> /\ Dealing(c) = NoLabel
    BY <1>11 DEF TasksWellFormed, Waiting, Dealing
  <2>2. \A n \in Node : /\ Dealing(c) # n /\ ~GrantedTo(c, n)
                        /\ EndedBy(c, n) <=> Reported(c, n)
    BY <1>11, <2>1, PosFacts DEF GrantedTo, Sent, EndedBy
  <2> QED
    BY <1>8, <2>1, <2>2
<1>12. CASE child[c] = "send"
  <2>1. sndQ[c] = <<>> /\ Dealing(c) = NoLabel /\ ~Waiting(c)
    BY <1>12 DEF TasksWellFormed, Waiting, Dealing
  <2>2. \A n \in Node :
            /\ Dealing(c) # n /\ ~GrantedTo(c, n)
            /\ ~Reported(c, n) /\ (EndedBy(c, n) <=> task[c].tableLebel = n)
    BY <1>9, <1>12, <2>1, PosFacts DEF GrantedTo, Sent, EndedBy
  <2>3. CASE task[c].tableLebel = NoLabel
    <3>1. \A n \in Node : EndedBy(c, n) <=> Reported(c, n)
      BY <2>2, <2>3, PosFacts
    <3> QED
      BY <1>8, <2>1, <2>2, <3>1
  <2>4. CASE task[c].tableLebel \in Node
    <3>1. PICK l \in Node : l = task[c].tableLebel
      BY <2>4
    <3> QED
      BY <1>7, <2>1, <2>2, <3>1
  <2> QED
    BY <1>10, <2>3, <2>4
<1>13. CASE child[c] = "deal"
  <2>1. sndQ[c] = <<>> /\ ~Waiting(c)
    BY <1>13 DEF TasksWellFormed, Waiting
  <2>2. PICK l \in Node : l = task[c].tableLebel
    BY <1>13 DEF TaskWellFormed
  <2>3. Dealing(c) = l
    BY <1>13, <2>2 DEF Dealing
  <2>4. \A n \in Node : ~GrantedTo(c, n) /\ ~EndedBy(c, n) /\ ~Reported(c, n)
    BY <1>9, <1>13, <2>1 DEF GrantedTo, Sent, EndedBy
  <2> QED
    BY <1>7, <2>3, <2>4
<1>14. CASE child[c] = "wait"
  <2>1. Dealing(c) = NoLabel
    BY <1>14 DEF Dealing
  <2>2. \A n \in Node : Dealing(c) # n /\ (EndedBy(c, n) <=> Reported(c, n))
    BY <1>14, <2>1, PosFacts DEF EndedBy
  <2>3. CASE sndQ[c] = <<>>
    <3>1. \A n \in Node : ~GrantedTo(c, n)
      BY <2>3 DEF GrantedTo, Sent
    <3> QED
      BY <1>8, <2>1, <2>2, <3>1
  <2>4. CASE sndQ[c] # <<>>
    <3>1. Head(sndQ[c]) = sndQ[c][1] /\ sndQ[c][1].tableLebel \in Node
      BY <2>4 DEF TasksWellFormed
    <3>2. PICK l \in Node : l = sndQ[c][1].tableLebel
      BY <3>1
    <3>3. \A n \in Node : GrantedTo(c, n) <=> n = l
      BY <1>14, <2>4, <3>1, <3>2 DEF GrantedTo, Sent
    <3>4. \A n \in Node : ~Reported(c, n)
      BY <2>4 DEF ReportsWellFormed, ReportWellFormed, Reported
    <3> QED
      BY <1>7, <2>1, <2>2, <3>3, <3>4
  <2> QED
    BY <2>3, <2>4
<1> QED
  BY <1>1, <1>11, <1>12, <1>13, <1>14

\* orderStop takes every table back at once, and a program started again
\* begins with free tables.
LEMMA MonitorLease ==
    ASSUME IInv, OrderStop \/ StartProgram PROVE Lease!LeaseNext
<1> USE DEF IInv, TypeOK
<1>1. \A i \in Pos : Dealing(i)' = NoLabel
  BY DEF OrderStop, StartProgram, Dealing, NoChild
<1>2. WorkingNow' = [i \in Pos |-> NoLabel]
  BY <1>1 DEF WorkingNow
<1>3. \A l \in Node : PhaseOf(l)' = "free"
  BY DEF OrderStop, StartProgram, FreeNodes, PhaseOf
<1>4. [l \in Node |-> PhaseOf(l)]' = [l \in Node |-> "free"]
  BY <1>3
<1>5. Lease!Revoke
  BY <1>2, <1>4 DEF Lease!Revoke
<1> QED
  BY <1>5 DEF Lease!LeaseNext

-----------------------------------------------------------------------------
\* The scheduler, with its queues, deaths and restarts, implements the lease
\* cycle: no table is dealt with unless it was granted, none is granted twice
\* before it is reported done, and a table whose child died stays out of the
\* cycle until the monitor has started the program again.
THEOREM SchedulerImplementsLease == Spec => ImplementsLease
<1>1. Init => Lease!LeaseInit
  <2> SUFFICES ASSUME Init PROVE Lease!LeaseInit
    OBVIOUS
  <2>1. \A i \in Pos : Dealing(i) = NoLabel
    BY DEF Init, Dealing, NoChild
  <2>2. \A l \in Node : PhaseOf(l) = "free"
    BY DEF Init, PhaseOf, FreeNodes
  <2>3. WorkingNow = [i \in Pos |-> NoLabel]
    BY <2>1 DEF WorkingNow
  <2>4. [l \in Node |-> PhaseOf(l)] = [l \in Node |-> "free"]
    BY <2>2
  <2> QED
    BY <2>3, <2>4 DEF Lease!LeaseInit
<1>2. IInv /\ BusyAccounted /\ StoppedIsDead /\ [Next]_vars
          => [Lease!LeaseNext]_(Lease!leaseVars)
  <2> SUFFICES ASSUME IInv, BusyAccounted, StoppedIsDead, [Next]_vars
               PROVE  [Lease!LeaseNext]_(Lease!leaseVars)
    OBVIOUS
  <2>1. CASE ReceiveReport
    BY <2>1, ReceiveReportLease
  <2>2. CASE AssignTask
    BY <2>2, AssignTaskLease
  <2>3. CASE ForkChild \/ RecordPid \/ SkipBusyNode \/ ParentDies
    BY <2>3, ParentAsideLease
  <2>4. ASSUME NEW c \in Pos, ChildStep(c) \/ ChildDies(c)
        PROVE  [Lease!LeaseNext]_(Lease!leaseVars)
    BY <2>4, FindPosLease, SendReportLease, ReceiveTaskLease, FinishDealLease,
       ChildDiesLease DEF ChildStep
  <2>5. CASE OrderStop \/ StartProgram
    BY <2>5, MonitorLease
  <2>6. CASE UNCHANGED vars
    <3>1. \A l \in Node : PhaseOf(l)' = PhaseOf(l)
      BY <2>6 DEF vars, PhaseOf, GrantedTo, EndedBy, Sent, Reported, Dealing
    <3>2. \A i \in Pos : Dealing(i)' = Dealing(i)
      BY <2>6 DEF vars, Dealing
    <3> QED
      BY <3>1, <3>2, LeaseStutter
  <2> QED
    BY <2>1, <2>2, <2>3, <2>4, <2>5, <2>6 DEF Next, ParentStep
<1> QED
  BY <1>1, <1>2, InvariantHolds, BusyAccountedHolds, StoppedIsDeadHolds, PTL
     DEF Spec, ImplementsLease, Lease!LeaseSpec
=============================================================================
