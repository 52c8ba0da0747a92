# Verification of the BOSS/CRM programs

This directory holds TLA+ models of the order system under `src/pubOrder`, of the
redo and the serial numbers of `src/client`, of `src/TcpServer`, of the
reconciliation daemon of `src/datacenter` and of the short message library
`src/pubShortMsg`, the TLC configurations that model-check them, and TLAPS proofs
of their main theorems. `PROJECT.json` maps every definition to the lines it models.

## 1. Inventory of the repository

The repository belongs to a mobile operator's BOSS/CRM systems: C and Pro*C
programs over Oracle, Tuxedo services and System V IPC. The sources are GBK.

### The order system, `src/pubOrder`

An order is a row that one database (CRM or BOSS) wants executed in the other.

| part | state | operations | what makes it right |
|---|---|---|---|
| scheduler (`pubOrderXml.cp`: `PubInitMain`, `PubInitTaskList*`, `PubAssignTask`, `PubDealTask*`) | node table `g_PUB_NodeCfg` (label, busy?), task table in shared memory, one queue children -> parent, one queue parent -> each child | fork, report, assign, deal | no table is dealt with by two children; the search for a free table ends; every table gets its turn |
| monitor (`O??Monitor.sh`, `orderStop.cp`) | none (counts processes) | kill all, start again | a damaged program is replaced, and the old one leaves nothing behind |
| producer (`OrderInserSend` and what it calls) | `wOrderSendNN`, `wOrderSendDataDet` | insert an order in the caller's transaction | order row and detail rows appear together |
| transfer (`orderTransferCrm.cp`, `orderTransferBoss.cp`) | rows in the source's `wOrderSendNN`, `wOrderSendHis`, `wOrderSendDataDet`, in the destination's `wOrderReceiptNN`, `wOrderReceiptDataDet` | move a batch of at most 500 rows in two transactions | no order lost; a repetition only after a fault |
| tools (`singleOrder.cp`, `singleOpAccept.cp`) | the same rows | transfer one order, or the orders of one operation, by hand | the same, also beside the daemon |
| deal (`orderDealBoss.cp`, `orderDealCrm.cp`) | `wOrderReceiptNN`, `wOrderReceiptXX`, `wOrderReceiptHis`, `wOrderException` | route, parse, execute (data order in the database, business order through `tpcall`), record | recorded as done only if done; a data order once |
| redeal (`orderReDeal.cp`) | `wOrderException`, `wOrderReceiptXX` | send an exception back | detail rows are still there |
| routing (`JudgeRoute`) | `sRouteData` (read) | which program instance deals with an order | at most one does |
| data order execution (`pubDataOrderDeal.cp`) | cached table descriptions, the tables named by the order | build and run INSERT, DELETE, UPDATE | one statement's worth of rows, all or nothing |
| order XML (`pubOrderXml.cp`, rest) | none | build, split, parse an order's text | what is parsed is what was built |

How they interact: the scheduler calls `PubLogicDeal` of the program it is
linked into (transfer or deal) as a function pointer, once for each table label
it hands out. Transfer and deal never talk to each other: they share database
tables. The monitor sees the others only through `ps`. Eleven processes make a
healthy program: the parent and ten children, for the labels `00` to `08` and
`XX`.

What is hard: ten children and a parent that only share queues; children that
die with a table marked busy; a restart on queues whose keys are fixed; two
databases committed one after the other; a service call that no rollback
undoes; rows that cannot be dealt with and stay; an operator's tool in the
middle of a daemon's batch.

### The other directories

| part | state | operations | hard behaviour | what makes it right |
|---|---|---|---|---|
| `client/redo.c`: `redoServiceLog` | index file; per child `REDOCOUNT` slots in shared memory with a free flag each; an end flag | read a batch, search idle children, distribute, replay, give back | no lock on the shared memory; children that die; SIGTERM in the middle of a batch | each record replayed once, payments of a number in order, nothing left out |
| `client/s_public.c`: `GetMemAccept`, `CreatMemAccept`, `DelMemAccept`, `Quit` | a counter in shared memory, a semaphore without SEM_UNDO | lock, count, unlock, add the time; make and remove both | a SIGTERM handler that unlocks; removal while services run | unique and growing serial numbers |
| `TcpServer` | table of child pids and their number in shared memory, semaphore with SEM_UNDO | accept, fork, record, serve, take off, stop all | signal handlers that take the lock of the code they interrupt; a child that leaves before it is recorded; a killed server or child | the counter is the number of children, but for known errors; the limit holds; a stop ends everything |
| `datacenter`: `dataReconcile` | command row, answer row, global variables | fetch, look up, exchange, mark, answer | two transactions; an alarm; globals that stay from the command before | each command its own answer, and no loss or repetition without a failure |
| `pubShortMsg` | Lua interpreter with one parameter table per process; channel tables | prepare, set parameters, generate, dispatch | parameters shared by all messages of a process; splitting of two-byte text | no message with another one's values, no text lost but where it is cut or spaces are stripped |
| `server` | tables of the caller's transaction | 142,000 lines of business functions over Oracle | none of their own: straight-line SQL | not modelled |
| `cfile`, other `client`s, `querybill`, `npage`, `ftp_decode` | | service code, single Tuxedo calls, bill query, JSP pages, file decoding | sequential | not modelled |
| `BossLib`, `include`, `cfg`, `contab` | | class library, headers, configuration, scheduled reports | sequential | not modelled |

These parts do not call each other. The services of `client` write the index that
`redo` reads, ordered by the serial numbers of `GetMemAccept`; `dataReconcile` and
`pubShortMsg` talk to other systems through tables and one TCP connection.

## 2. Modules

| module | models | role |
|---|---|---|
| `TableLease` | what the scheduler promises: free -> granted -> dealing -> done -> free, or lost until a restart | abstract specification |
| `OrderSched` | scheduler, children, queues, monitor | detailed specification |
| `MCOrderSched` | | instance for TLC |
| `OrderSchedProofs` | | theorems about `OrderSched`, the last part that it implements `TableLease` |
| `OrderRoute` | `JudgeRoute`: which dealing program deals with an order | constant module: the configuration and `sRouteData` are parameters |
| `OrderPipeline` | producer, transfer, tools, deal, redeal for one label | specification, extends `OrderRoute` |
| `MCOrderPipeline` | | instance for TLC, with four ways to share the orders among the programs |
| `OrderPipelineProofs` | | theorems about `OrderPipeline` |
| `RedoAssign` | which child and slot each record of a batch goes to | the rule, as operators |
| `RedoAssignLoop`, `MCRedoAssignLoop` | the nested loops of `redoServiceLog` that compute it, one turn of a loop a step | specification of the algorithm, extends `RedoAssign` |
| `RedoAssignLoopProofs` | | that the loops compute the rule; lemmas about `RedoAssign` |
| `RedoDispatch`, `MCRedoDispatch` | parent and children of `redo` | specification, extends `RedoAssign` |
| `RedoDispatchProofs` | | theorems about `RedoDispatch`; extends `RedoAssignLoopProofs` for its lemmas about `RedoAssign` |
| `MemAccept`, `MCMemAccept` | serial numbers | specification |
| `MemAcceptProofs` | | theorems about `MemAccept` |
| `TcpServer`, `MCTcpServer` | processes of the TCP front end | specification |
| `TcpServerProofs` | | theorems about `TcpServer` |
| `DataReconcile`, `MCDataReconcile` | the daemon | specification |
| `DataReconcileProofs` | | theorems about `DataReconcile` |
| `ShortMsg`, `MCShortMsg` | composing and dispatching of a short message | specification |
| `ShortMsgProofs` | | theorems about `ShortMsg` |

Each MC module only gives the constants values that a .cfg cannot write. An
operator whose comment begins with "Mutant" is a plausible wrong version of the
definition below it; nothing in a specification uses it, and the property it is
listed with in `PROJECT.json` fails when it takes that definition's place.

### OrderSched

| variable | code |
|---|---|
| `parent` | program counter of the parent: forking in `PubInitTaskList*`, in `msgrcv`, or in the search loop of `PubAssignTask` |
| `forked` | how many entries of `g_PUB_TaskShm` have a pid |
| `rcvBuf`, `nodePos`, `status` | the parent's `g_PUB_RcvBuf`, `nodePos`, `g_PUB_NodeCfg[].status` |
| `child`, `task` | program counter and `g_PUB_RcvBuf` of each child |
| `rcvQ`, `sndQ` | the System V queues; messages have one type, so they are FIFO |
| `monitor` | the monitor script between `orderStop` and the start |

One action per step between two IPC operations: `ForkChild`, `RecordPid`,
`FindPos` (the child looks for its own pid, which the parent may not have
written yet), `SendReport`, `ReceiveReport`, `SkipBusyNode` (one turn of the
search loop), `AssignTask`, `ReceiveTask`, `FinishDeal`, `ParentDies`,
`ChildDies`, `OrderStop`, `StartProgram`. A label is its index in the node
table. The two `PubDealTask` variants differ only in the connections they make.
`StartProgram` resets all that main resets, `PubFreeSysRes` included. The queues
of `PubFreeSysRes` are removed when the next instance starts, not when the old
one is killed; in between nobody reads them.

A deal function is one interval here (between `ReceiveTask` and `FinishDeal`);
what it does in it is `OrderPipeline`.

### OrderPipeline

The variables named like tables hold committed rows; an open transaction exists
only in a program counter, so that a crash or a ROLLBACK loses exactly what was
not committed. `receipt` has the two tables orders of the label can wait in:
`"NN"` (the label's own) and `"XX"` (orders sent back by `orderReDeal`); they are
dealt with by two different children of a dealing program at the same time. There
may be several dealing programs on the same tables, each configured for its own
database instance, so a `Worker` is a pair of a program and a table.

| action | code |
|---|---|
| `MakeOrder` | `OrderInserSend`, committed by its caller |
| `TransferFetch` | the cursor over `wOrderSendNN` and its first 500 rows |
| `TransferMove`, `TransferRollback` | inserts, deletes and detail rows of both transactions, or a ROLLBACK of both |
| `CommitDest`, `CommitDestFails`, `CommitSource` | the two commits |
| `TransferDies` | crash, or a failed COMMIT of the source, which the code does not check |
| `DealFetch`, `SkipOrder`, `ReadOrder` | the batch; `JudgeRoute`, detail rows, `OrderParseXml` |
| `DealDataOrder`, `DataOrderFails` | `dealDataOrder` with `OperOrderTable`, one transaction |
| `CallService`, `RecordCall` | `tpcall`, then `OperOrderTable` and COMMIT |
| `RecordTooLate` | the last DELETE of `OperOrderTable` finds nothing, because another program was faster: ROLLBACK |
| `RecordFails`, `DealDies` | `OperOrderTable` fails; crash |
| `ReDeal` | `orderReDeal` |

What the rows hold is abstracted to what the control depends on: the kind of
the order (`DataOrders`), whether it has detail rows (`DetOrders`) and whether
this program refuses it (`StuckOrders`). `applied` counts the effects of an
order, which is what the properties are about. The DDL is not in the
repository; the model takes `order_accept` as a unique key of `wOrderReceiptNN`,
`wOrderReceiptHis` and `wOrderException` (the code's handling of SQLCODE -1 says
so for the last two) and of the detail rows together with their number.

`DataOrders` are the orders executed in the destination database in one
transaction with their record: order type `1`, and in `orderDealCrm` also the
stop orders of `func_GoStop`. Whether a service's call reported an error (by
`tpcall` or by its return code) or lost its reply is `CallService`'s choice.

A program fetches the first 500 rows of a table and only then asks `JudgeRoute`
for each of them. The module `OrderRoute` keeps of `sRouteData` the partition
code of the row an order's id matches (`RowCode`, with `NoRow` and `ManyRows` for
the query's other two outcomes); it is not changed while the programs run.

The tools are the same code with another WHERE clause, so they are further
members of `Mover`; row locks (`Locked`) keep two uncommitted transactions off
the same row.

### RedoAssign, RedoAssignLoop, RedoDispatch

A batch has at most half as many records as there are children, because the
parent waits for that many idle children before it distributes it. `ProcessNo` of
`RedoAssign` says who gets what: the payments of one number go, `RedoCount` at a
time, to the slots of one child; any other record to slot 0 of a child of its
own. `RedoDispatch` hands a batch out by that rule in one step, since nobody else
reads the arrays the loops work on; `RedoAssignLoop` is the loops themselves.

| variable of `RedoAssignLoop` | code |
|---|---|
| `phoneNo`, `processNo` | `idxRecord.phoneNo`, `idxRecord.processNo` (`None` for -1, else child and slot) |
| `free` | the idle children the search has found; the loops do not read it |
| `blankFlag` | the children k with `blankFlag[k*REDOCOUNT]` = 1; the code marks the other slots but never reads them |
| `loop` | reading, first loop over i, loop over j, second loop over i, end |
| `first`, `other` | `i`, `j` |
| `same`, `blankPosition`, `pos` | `l`, `blankPosition`, `pos` |

One action is one turn of a loop: of the first loop over i (`SkipGrouped`,
`StartPairs`, `EndGroups`), of the loop over j with the loop over k inside it
(`PassRecord`, `LeavePairs`, `OpenGroup`, `JoinGroup`, `FillGroup`, `EndPairs`), of
the second loop over i (`SkipGiven`, `GiveSingle`, `EndSingles`). `FindIdle` is the
search for idle children with any outcome it can have. What the code does when no
child is marked (the loop over k would look at child `blankPosition` for ever, or the
parent would search again) has no action: `LoopsMakeGroups` says that a marked child
is always at hand where one is looked for.

`RedoDispatch` has one action per access to the shared memory: the parent writes
a slot's record and then its flag (`FillSlot`), all but slots 0; then slots 0
(`RaiseFirst`), which is what a child waits for (`MayLook`). A child gives its
slots back from the last to the first (`ResetSlot`), so slot 0 becomes free last,
and slot 0 is the one the parent looks at. `index` is any sequence of numbers and
of records without one; `outcome` and `unflushed` follow each record and its error
line. Faults: a failing fork or `tpinit`, SIGTERM at the parent or at a child (the
children inherit the handler), an index that cannot be read again.

### MemAccept

`pc` is the place of a process in `GetMemAccept`, with `shmp->count++` as a read
and a write; `semId` and `seg` number the semaphores and memories that
`CreatMemAccept` has made, so that a process that holds an old one can be told
apart. `SemGet` and `SemSetVal` are the two steps in which `NCreatOneSem` sets a
semaphore whose value it has found to be 0. `Sigterm` is `Quit`, installed by the
first call; `Sigkill` any other end. `strays` and `lost` count what the properties
excuse.

### TcpServer

`main` and `child` are program counters. `LockServer` and `LockChild` are
`locksem`; `undo` is the kernel's SEM_UNDO note for each process, applied by `Exit`
and `ServerDies`. `nProcCount++` and `--` are a read and a write under the lock.
`Killsonpid` is `KillNext` (one pid at a time) and `ScanTable` (a turn of the
second loop, in which `kill(pid, 0)` also succeeds for zombies). Handlers are
installed without SA_RESTART: `Interrupt` says what a signal does to the call the
server is in. `TimeOut` and `LateAlarm` are SIGALRM while a child serves, or is
already leaving. `StartServer` finds the old memory and semaphore by their keys
and sets them anew. A request (`getWorkOfCase`) is one step. `ServerDies` and
`ChildDies` are SIGKILL or a crash (a request with more parameters than
`acParaName[30]` has room for is one); the kernel applies SEM_UNDO, and `sig_chld`
later reaps the child, but nothing else is cleaned up: `nProcCount` stays raised and
the entry of the table stays, for good. The pid may be given to a later child, so
the stop loop can find a stale entry alive; that the system gives it to a foreign
process, which the loop would then kill or wait for, is left out. The variables
`old`, `unstored`, `deaf`, `dropped`, `debt`, `dead` and `broken` are history for the
properties; `dead` counts the children that died uncounted.

### DataReconcile

`main` is where the loop is, between two calls of the outside world. The globals
`retcode` and `iTotalNum` are named by the command whose reply set them. `retbackcmd`
has two transactions: `Mark`, and `Insert` (or, after it, `Retry` for the second
INSERT) with `Commit`. No COMMIT is checked (`dataReconcile.pc:616`, `:647`, `:653`);
one that fails has rolled its statement back, so that `Mark` may leave the row
unmarked and `Commit` may leave no answer while the daemon goes on. `lost` records
what the answer of a marked row was lost to. A failed exchange ends the program (`ExchangeFails`), and `start.sh` starts it again.
`AlarmTooEarly` is the SIGALRM that arrives before `readnet` waits: `catchalm` only
sets a variable that nobody reads then, and nothing interrupts the wait any more.

### ShortMsg

`params` is the Lua table `smparams`. A value is named by two things the code does
not keep: the last call of `PrepareNewShortMsg` before it was set (`serial`) and the
model it was set for. `current` is the model that call named, until its message is
generated, and `mixed` says that something was set for another one since; a row keeps
both as `inOrder`. `SetShortMsgParameter` takes the model number and ignores it, and
`GenerateShortMsg` does not clear the table, as in the code. So two messages composed
at once (prepare, prepare, generate, or prepare, generate, generate) do get each
other's values: `MessageIsOwn` does not deny it. It says that nothing from before the
last preparation gets into any message, in any order of calls, and that a message
whose own calls come one after the other, as those of `publicBill` and `pubDsmpFunc`
do, has only values set for itself.

A text is the sequence of its characters, of which there are four kinds: two bytes
wide, one byte, the space, and the other characters up to the space. That is what
`ChnStrSplit` and `Trim` tell apart. A piece is a range of positions of the text.
`TwoPieces` splits as `ChnStrSplit` does and then trims each piece; `Trim`
(`publicS.cp:66`) strips both ends of all characters up to the space, but only if
there is a space in the piece. A blank at the border of two fields is thus lost
in the midst of a message. `DispatchShortMsg` picks a channel, deletes messages of
the same type if the model says so, splits the text by message type and fold policy
and inserts the row; `DispatchFails` is any error before or at the INSERT.
Transactions are the caller's.

## 3. What the runs check

| run | configuration, distinct states | what it shows |
|---|---|---|
| `sched` | 3 children, 1 fault, fairness; 116,518 | `TableExclusion`: no table is dealt with twice at once (nothing in `PubLogicDeal` locks rows, so this is what keeps orders from being executed twice). `BusyAccounted`: busy tables and children match, also after deaths. `SearchEnds`: the search loop, during which the parent reads no queue, always finds a table. `OneMessagePerChild`: `msgsnd` never blocks. `IInv`: the invariant of the proofs, types included. `ImplementsLease`: each step is a step of `TableLease` or a stutter. `EveryTableServed`: every table keeps getting its turn |
| `pipeline` | 1 program, 3 orders, one of which stays for ever, batches of 2, 2 faults, fairness; 57,959 | `NoOrderLost`, `HistoryIsTrue`, `DataOrderOnce`, `DetailsFollow`, `EveryOrderDealt` |
| `pipeline_programs` | 2 programs, a data order for both and a business order for one, `singleOpAccept` beside the daemon, 1 fault; 364,526 | `BusiOrderRepeats`: two processes transfer the same order, both programs fetch every row, and the service is still called again only after a fault. `DataOrderOnce`, `IInv`: where both programs execute an order, one of them is rolled back |
| `route_operator` | 2 programs, an operator's order | `SecondaryOnlyCustomers` does **not** hold, see below |
| `redo_assign` | batches of up to 5 over 2 numbers and none, every set of 5 idle children of 10, groups of 3; 1,852,564 | `LoopsMakeGroups`: where the loops look for a child there is one, and at their end they have computed the rule; no turn is stuck |
| `redo_dispatch` | 4 children of 2 slots, every index of up to 4 records, 1 fault; 1,434,209 | `PaymentsInOrder`, `NoRecordSkipped`, `ReplayedOnce` |
| `redo_live` | the same, up to 2 records, fairness; 65,653 | `RedoEnds`, `QuitLeavesNoOrphan` |
| `mem_accept` | 2 services, 2 calls, 2 creations, 1 fault, fairness; 241,684 | `PermitsAccounted`, `NumbersGrow`, `WaitEnds` |
| `tcp_server` | 2 pids, table of 2, limit 1, 2 connections, 1 fault, fairness; 133,878 | `SemaphoreAccounted`, `CountAccounted`, `LimitHolds`, `NoOrphans`, `StopEnds` |
| `data_reconcile` | 3 commands, 1 unknown, 3 faults, fairness; 425,515 | `AnswerIsOwn`, `MarkedIsAnswered`, `RepeatsAccounted`, `CommandsMarked` |
| `short_msg` | 4 models, 2 messages, fields of 3 bytes; 1,023,358 | `MessageIsOwn`, `TextKept` |
| `short_msg_same_type` | the same | `SameTypeReplaced` does **not** hold, see below |

Disagreements of code and comment.

- `route_operator`. The comment above `JudgeRoute` (`orderDealBoss.cp:30`) gives the
  main program all operators' orders (id type 4) and the secondary program only
  id types 0 to 3. The code looks the operator up in `sRouteData`, and if there is
  a row it goes by the row's partition, so a secondary program
  (`g_PUB_OtherRouteFlag` = 0) executes the order and the main one, unless it
  serves that partition too, does not. Only operators without a row go where the
  comment says.
- `short_msg_same_type`. With expiry policy 1 `DispatchShortMsg` deletes the
  messages of the same type in the pool (comment at `pubShortMsg.c:2281`). The
  DELETE compares `busi_code` with its third placeholder and `EXECUTE` binds the
  send time there, so it finds nothing.

Facts met on the way that the models contain and no run is spent on: `Quit`
raises the semaphore to 2 when the process does not hold it (`strays`); `redo`
prints that the errors are in the error file while its children may still have
lines in their buffers (`NoRecordSkipped` says when it becomes true); its count
of replayed records is the number read, the empty record of an empty index
included; `dataReconcile` answers an unknown command with the return code of the
command before it (`AnswerIsOwn` speaks of commands that were sent), and its
second INSERT binds `command_code` where the first binds `new_phone`.

Bounds. Three children make every case of the scheduler's protocol happen: the
one being answered, one that deals, one that is dead; one fault is a death and the
restart it leads to (the theorems hold for any number). `ProcessNum` stands for
ten. In the pipeline, three orders with batches of two make a batch that leaves an
order behind; two faults allow a duplicate (one fault) whose second execution
fails (another). `Batch` stands for `PUB_BATCHORDER_NUM` = 500. In
`pipeline_programs` batches have one order, since what matters there is who gets
hold of it. Four children with two slots make batches of two, so that an index of
four takes two batches and children are used again while others still replay;
groups of more payments than a child has slots are what `redo_assign` checks (ten
children and three slots stand for `REDOPROCESSNUM` = 40 and `REDOCOUNT` = 4; the
theorem holds for all), where five records fill a group of three and begin the next. In
`redo_live` one batch and the empty one after it are enough for the end, since each
turn of the loops is the same. Two services and two connections suffice for each
interleaving of two processes in a critical section; a pid given out again is one
of them. With two connections the pid table of two never overflows, so the
children `NoOrphans` excuses as `unstored` do not occur in this run. Three
commands let the globals of one be used for the next two. One
crash, of the server or of a child, is what the one fault of `tcp_server` allows;
two faults, or three connections with one fault, which take TLC longer than is useful beside each
change, find no violation either. The texts of
`short_msg` are those around one field and two fields, with wide characters at the
border, with spaces and control characters at and across it, and texts of nothing
else; 3 stands for 1000 bytes and 1 for 70 characters. Four models are the three
message types and the policy that cuts. `MaxFaults`, `MaxForks`,
`MaxCalls`, `MaxTime`, `MaxMade` and `MaxIndex` bound only the environment, never
the programs.

Deadlock is checked for the scheduler, whose programs never end, and for the loops of
`RedoAssignLoop`, which go on with the next batch. Everywhere else
the work is over at some point (all orders dealt with, index replayed, calls or
connections used up, all commands marked), so there `CHECK_DEADLOCK` is off.

Fairness. `OrderSched`: weak fairness of the parent, of each child and of the
monitor's two steps. They are separate Unix processes that the kernel schedules,
the monitor is run by cron, and a deal function returns as long as its database
calls do. No fairness for deaths. `OrderPipeline`: weak fairness of the
transferring process and of each dealing process (`EveryTableServed` is the
reason it may be assumed: each label is handed out again and again), none for
producers and operators. A tool, once started, goes on. `RedoDispatch`: the
parent and each child run, and a service that is called returns. `MemAccept` and
`TcpServer`: each process runs; strong fairness of taking the semaphore, because
semop serves its waiters in turn; in `TcpServer` signals are delivered, and a
silent client runs into the alarm. `DataReconcile`: the daemon runs, a centre that
is not silent replies, an alarm that can interrupt does. Nothing is assumed of
clients, operators, administrators, `start.sh` or faults.

Two assumptions of the liveness results of `pubOrder` deserve their names: the
monitor keeps running, and a program whose database connection is lost is
noticed. The second one is not the code's doing: the connection is made once,
before the loop of `PubDealTask*`, and a child that has lost it keeps reporting
tables it could not read. The number of faults is bounded, so this case is outside
the model.

`EveryOrderDealt` names the one thing that can keep an order back (`Blocked`): a
batch is one transaction, so an order which is transferred a second time (after
a crash between the commits) while its first copy stays at the destination keeps
its whole batch in the source. It also needs fewer undealable orders than a
batch holds: 500 of them at the head of a table starve the rest. A program takes
the first 500 rows before it looks at the routing, so rows for another program
that is not running, or is slower, count as such rows too; for that reason the
liveness run has one program. `BusiOrderRepeats` speaks of orders that are routed
to one program (`RouteOnce`): two programs that both call a service for the same
order repeat its effect without any fault.

What the other properties excuse is what the code really leaves open. `RedoEnds`:
a dead child's slots are never given back, so the parent waits for ever.
`QuitLeavesNoOrphan`: a parent stopped between the slots of a child leaves one
that waits for its first. `NumbersGrow`: a release of a lock that was not held.
`WaitEnds`: a process killed inside. `StopEnds`: a child that got SIGTERM before it
had its own handler and whose client keeps talking, or a child whose alarm made it
wait for the semaphore it holds. `MarkedIsAnswered`: after the mark, the end of the
daemon before the answer's COMMIT, two INSERTs that both fail, or that COMMIT itself,
whose failure nobody notices. `MessageIsOwn`: messages composed at once. `TextKept`:
spaces and control characters at the ends of a piece, and what is cut or does not fit
two fields. `CountAccounted`: children that died (`dead`) and the errors of the
counter (`debt`), whose size it states; like `SemaphoreAccounted`, it says nothing once
somebody has gone past the semaphore without waiting (`broken`). `CommandsMarked`: an alarm spent before the wait.

## 4. What is proved

For every number of children, slots, orders, dealing programs, commands, processes,
pids and models, every index of the redo, every routing, use of the tools and batch
size, and any number of calls and faults. The assumptions are the types of the
constants and what the code takes for granted: `Known` among the commands,
`ProcessNum` and `Batch` positive, `Orders` a finite set of naturals, partition codes
positive because `JudgeRoute` divides by them, `Process` and `Child` (the pids) finite,
neither the server's pid nor the 0 of a free table entry among the children's, at
least two children with two slots in `redo` (a batch is half of the children), and
that a record of the redo may end as an error in the file.

`OrderSchedProofs`
- `TypeCorrect`, `InvariantHolds`: `TableExclusion` is not inductive. `IInv` says
  in addition that a child's buffer, its report on the way and the parent's
  answer describe one exchange: a report is its sender's buffer, from a child
  that waits and has no answer on the way; no child has two reports; an answer is
  the only message to a waiting child; a table anyone answers for is busy and
  nobody else answers for it (`BusyHasOneHolder`). One step per action, one per
  conjunct it can disturb.
- `TableExclusionHolds`, `OneMessagePerChildHolds` follow from `IInv`.
- `BusyAccountedHolds`, `SearchEndsHolds`: by counting. Each busy table has a
  child that accounts for it; the child about to be answered accounts for none;
  so fewer tables are busy than there are tables, dead children included.
- `SchedulerImplementsLease`: under the mapping of `PhaseOf` (a table is free, being
  dealt with, granted, done or lost, in that order of precedence, as the parent's
  status, the children and the queues say) each action is one step of the lease cycle
  or a stutter. `IInv` says that only one process speaks of a table, so a step changes
  one phase at most (`PhaseKept`, `OnePhase`). In addition the stopped program
  has no process left (`StoppedIsDeadHolds`), so all tables become free at once.

`OrderPipelineProofs`
- `InvariantHolds`: `IInv` adds to the properties that a moved batch is locked
  (`BatchesLocked`), is in both databases between the commits
  (`ReceivedInBoth`), that details wait with their order at the source
  (`DetailsAtSource`), and that what is about to be recorded has happened
  (`EffectDone`, `DataEffectRecorded`). It holds for any number of dealing
  programs and any routing, two programs that share a partition included.
- `NoOrderLostHolds`, `SentIsReceivedHolds`, `HistoryIsTrueHolds`,
  `DataOrderOnceHolds`, `DetailsFollowHolds`.
- `BusiOrderRepeatsHolds`: `RepeatInv` adds to the effects of an order the calls
  that may still come without a fault (`CallsLeft`): its row in the source, unless
  the batch it is in has been received (`Unsent`); its row in each table, unless the
  service has been called for it and that is not recorded yet (`Callable`); its
  exception. `CallsPaid`: the sum exceeds the faults by one at most. A step trades one
  term for another (`CallsFewer`, `CallSpent`): `CommitDest` the source's row for the
  destination's, since `BatchesLocked` keeps other transfers off it; `CallService` the
  row for the effect, since the row is there (`BatchesWait`) and no other process deals
  with it (`OneWorker`, for orders routed to one program); `ReDeal` the exception for
  the row. Whatever raises it is a fault.

`DataReconcileProofs`
- `TypeCorrect`, `InvariantHolds`. `AnswerIsOwn` is not inductive, because the
  answer is copied from globals: `IInv` adds that between reply and answer the
  globals are this command's and that a command that is looked up has not been
  asked for (`GlobalsAreOwn`). `RepeatsAccounted` needs that a row is unmarked until
  its turn (`NotMarkedYet`) and two counts: answers, with the one being written,
  against marks and failed marks (`AnswersAccounted`; an answer is written until its
  COMMIT); requests against marks,
  failed marks, ends before the mark and the one in flight (`ServedAccounted`).
- `AnswerIsOwnHolds`, `MarkedIsAnsweredHolds`, `RepeatsAccountedHolds`, for every set
  of commands and any number of faults. `MarkedIsAnswered` is inductive with what
  `IInv` says of the types: each step that ends the writing of an answer appends it or
  notes the cause of its loss, failed COMMITs included.

`MemAcceptProofs`
- `TypeCorrect`; `InvariantHolds`, `PermitsAccountedHolds`: `PInv` adds that a new
  semaphore has an identifier nobody holds and that who is between lock and unlock
  has installed `Quit` (`SemKnown`); then each step is counted.
- `SectionExclusive`: without a stray permit, one process at a time increments.
- `NumbersGrowHolds`: `NInv` follows a number from the counter to the caller. A memory
  belongs to the semaphore made with it (`SegOfSem`), so processes that still use
  removed ones do not disturb. The section is exclusive for each semaphore, removed ones
  included (`Exclusive`), so what is read there is the counter (`ReadsTrue`); the
  counter is above every number that has left the section (`IssuedBelow`,
  `StampsBelow`), therefore a number on its way out is new (`StampsNew`). The clock is
  read outside the section, which is why times only do not fall (`TimesGrow`).

`ShortMsgProofs`
- `TypeCorrect` and the invariant (`NextIInv`): `IInv` is `TypeOK`, `MessageIsOwn` and two further parts.
  `OwnParams`: what is in the interpreter was set after the last call of
  `PrepareNewShortMsg`, and, unless it is `mixed`, for the model of that call; a call
  for another model is what sets `mixed`, and only a preparation takes it back.
  `RowsFit`: what `TextKept` says of the rows in the pool.
- `MessageIsOwnHolds`, `TextKeptHolds` follow, for all texts and fields of any size.
- A piece of a text is what `ChnStrSplit` takes, the longest beginning that fits
  (`SplitFits`). That the widths of a text add up (`WidthsAddUp`) is induction over its
  characters, done by taking the least place where it fails (`LeastNumber`,
  `GreatestNumber`, `UpTo`): a recursive function over data can be reasoned about where
  the induction speaks of one set of numbers.
- `Trim` takes away only spaces and control characters, and never makes a piece wider
  (`StrippedLeft`, `TrimLeft`, `LeftFits`, with the first and the last visible character
  from `MinMax`); hence two pieces keep all that begins within two fields
  (`TwoPiecesFit`), and so does whatever is inserted (`InsertedFits`).

`TcpServerProofs`
- `TypeCorrect`, with `PidsKept`: a pid is given out only when nobody has it, and
  the history variables speak of processes that run.
- `SemaphoreAccountedHolds`: the semaphore and the processes between lock and
  unlock make one, and SEM_UNDO notes exactly who is inside; needs that the server's
  own note is 0 or 1 (`ServerLocksOnce`). Each signal, handler, death and restart is a
  step of the induction.
- `SeenFreshHolds`: `nProcCount++` and `--` write what they have read, changed by one;
  the exclusion above is why nobody writes in between.
- `CountAccountedHolds`: by counting serving children against the counter, the one
  being recorded (`Pending`), the children that died (`dead`) and the debt of killed
  servers and double departures: a death moves one from the first to the third.
  `LimitHoldsAlways` needs the bound of that sum, not of the counter
  (`LimitAccounted`): an earlier server's children are paid for by its own limit.
- `NoOrphansHolds`: `Recorded` says that every child of this server is leaving, in the
  table or about to be put there. It is not inductive for children forked when the
  table was full, which is what `unstored` excuses.

`RedoAssignLoopProofs`
- `LoopInvHolds`: the loops keep no record of the rule, so `LoopInv` states at each
  place how far they are. `Given`: exactly the records of the groups that begin before
  record i have a child (in the loop over j also those of the group of record i before
  record j, once a second one is found; in the second loop also all records before i),
  and it is the one the rule names. `blankFlag` is the idle children but the first ones,
  as many as groups have been given one (`IdleFrom`). `GroupOpen`: record i begins a
  group, and `same` counts the records of its number between i and j.
- The rule speaks of ranks and cardinalities, the loops of the next record and the
  lowest mark. The lemmas in between: ranks count on from the record that begins a group
  (`RankFrom`), so `same` is the slot of the next one (`GroupGrows`); a record without
  a child begins a group when the loop comes to it (`NoEarlierGroup`); the number of
  groups before record i is the turn of the group that begins there (`Counts`,
  `TurnsAre`); the lowest marked child is the idle child of that turn (`NextIdle`).
  A group of several records has less groups before it than there are idle children,
  because a batch is not larger than their set: that is why a child is at hand.
- `LoopsMakeGroupsHolds` follows; no two records have the same child and slot because
  the rule tells them apart (`Targets`). It holds for every number of children and
  slots, every batch and every set of idle children.

`RedoDispatchProofs`
- `OrderlyHolds`: types, and how parent and children take turns on flags without a
  lock (`Orderly`): a batch is what follows the count (`BatchRead`); a child goes up
  its slots and back over those it has replayed (`InStep`); a child whose slot 0 is
  free has no other record (`AllFree`); a half filled batch is what the parent's place
  in it says (`Filled`). This is where the order matters in which slots are raised
  (0 last) and given back (0 last).
- `RecordsKept`: every record is replayed, unread, unraised or in exactly one slot
  (`Replays`); `ReplayedOnceHolds`, an action property, and `NoRecordSkippedHolds` follow.
- `PaymentsFollow`: a batch comes after payments that have ended, and a child holds the
  payments of a group in their order (`Payments`); `PaymentsInOrderHolds` follows. That
  the records of a number within a batch are numbered without a gap is a counting
  argument of its own, since `Target` is defined by cardinalities.

For `TcpServer`, `RedoDispatch` and `RedoAssignLoop`, TLC first checked the conjuncts of
the invariants, each as an invariant of `MCTcpServer`, `MCRedoDispatch` and
`MCRedoAssignLoop` (this one also with six and eight children); only what is a property
of a run or a step of a proof stays.

Only model-checked:
- the liveness properties, which TLAPS cannot prove under fairness.

## 5. Not modelled

- Orders' text and its XML, logging, configuration files, the contents of SQL
  statements beyond which rows they touch.
- The statements `dealDataOrder` builds: sequential text over cached table
  descriptions, in the transaction `OrderPipeline` models.
- The requests a child of `TcpServer` serves; `LockFile` (two starts within the
  same moment); pids that the system gives to foreign processes.
- A child of `redo` that is killed while it is idle, with error lines still in its
  buffer: `NoRecordSkipped` speaks of children that flush them before they end.
- `orderStop` process by process: it kills all of a program in one step, so a process
  left over beside the new instance does not occur.
- A partition configuration of 0, for which `RouteOnce` is false of every order that has
  a partition.
- A second instance started by hand of an order program (it removes the running
  one's queues) or of `dataReconcile` (`start.sh` asks `ps` first).
- Dates: `ComputePolicyTime`, `DayChange`. The substitution of parameters in Lua.
- `server`, `cfile`, `npage`, `querybill`, `ftp_decode`, `contab`, `BossLib`: sequential
  code without state between calls; a model of it would repeat it.
- Large parts of the tree are earlier copies of files that are modelled
  (`src/TcpServer/src/srctemp`, `srcbck`, dated copies in `client`) or what the Pro*C
  precompiler has made of embedded SQL; `PROJECT.json` maps the current file only.
  Most of the order system's logic is in `.cp` and `.pc` files.

## 6. Plan

Done: scheduler, pipeline, routing, redo, serial numbers, TcpServer,
dataReconcile, short messages. The safety properties of
all of them are proved, that of each run and the refinement of `TableLease` included;
only the liveness properties rest on model checking alone (section 4).

What is left:

- `RedoDispatch` as a refinement of the order of payments alone, and `DataReconcile` of
  a queue of commands: abstract specifications that `TableLease` is an example of.
- The requests of a child of `TcpServer` and the text of the orders, should their
  control ever depend on more than success and failure.
