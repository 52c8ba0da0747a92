---------------------------- MODULE OrderPipeline ----------------------------
(***************************************************************************)
(* The way of an order from the database it is made in to the database it  *)
(* is dealt with in, for one table label: orderTransfer* moves it from     *)
(* wOrderSend<label> (the source database) to wOrderReceipt<label> (the    *)
(* destination), orderDeal* executes it there and moves it to              *)
(* wOrderReceiptHis or wOrderException, and orderReDeal puts an exception  *)
(* into wOrderReceiptXX, which orderDeal* deals with too.                  *)
(*                                                                         *)
(* The variables that stand for tables hold committed rows.  What a        *)
(* program has changed but not committed shows only in its program         *)
(* counter, so a crash or a ROLLBACK loses exactly that.  A label has one  *)
(* transferring process, and one dealing process of each dealing program,  *)
(* at a time: that is what OrderSched shows.  The operator's tools         *)
(* singleOrder and singleOpAccept transfer orders of the label beside them.*)
(***************************************************************************)
EXTENDS Integers, FiniteSets, OrderRoute

CONSTANTS DataOrders, \* executed in the destination database, in one
                      \* transaction: order_type '1', and func_GoStop
                      \* (the others call a service of another system)
          DetOrders,  \* det_flag 'Y' with rows in wOrderSendDataDet
          StuckOrders,\* OrderParseXml refuses them
          Tools,      \* the operator's tools in use
          Batch,      \* PUB_BATCHORDER_NUM
          MaxFaults   \* bound on crashes and database or service failures

ASSUME OrdersAssumption ==
    /\ Orders \subseteq Nat
    /\ IsFiniteSet(Orders)
    /\ DataOrders \subseteq Orders
    /\ DetOrders \subseteq Orders
    /\ StuckOrders \subseteq Orders
ASSUME ToolsAssumption == Tools \subseteq {"singleOrder", "singleOpAccept"}
ASSUME BoundsAssumption == Batch \in Nat \ {0} /\ MaxFaults \in Nat

VARIABLES
    made,     \* the orders OrderInserSend has committed so far
    send,     \* source: wOrderSend<label>
    sendDet,  \* source: orders with rows in wOrderSendDataDet
    sendHis,  \* source: wOrderSendHis
    receipt,  \* destination: wOrderReceipt<label> ("NN"), wOrderReceiptXX
    det,      \* destination: orders with rows in wOrderReceiptDataDet
    his,      \* destination: wOrderReceiptHis
    exc,      \* destination: wOrderException
    hisLost,  \* orders dealt with whose history row could not be written
    applied,  \* how often the effect of each order has happened
    tpc,      \* where each transferring process is
    tbatch,   \* the orders of its batch
    dpc,      \* where each dealing process is with its current order
    dbatch,   \* what is left of each dealing process's batch
    faults

tables == <<made, send, sendDet, sendHis, receipt, det, his, exc, hisLost,
            applied>>
vars == <<tables, tpc, tbatch, dpc, dbatch, faults>>

Table == {"NN", "XX"}
Mover == {"daemon"} \cup Tools   \* orderTransfer* and the tools
Worker == Program \X Table       \* each dealing program's child for a table
ProgramOf(w) == w[1]
TableOf(w) == w[2]

TypeOK ==
    /\ made \subseteq Orders
    /\ send \subseteq Orders
    /\ sendDet \subseteq Orders
    /\ sendHis \subseteq Orders
    /\ receipt \in [Table -> SUBSET Orders]
    /\ det \subseteq Orders
    /\ his \subseteq Orders
    /\ exc \subseteq Orders
    /\ hisLost \subseteq Orders
    /\ applied \in [Orders -> Nat]
    /\ tpc \in [Mover -> {"idle", "fetched", "moved", "received"}]
    /\ tbatch \in [Mover -> SUBSET Orders]
    /\ \A m \in Mover : tpc[m] = "idle" <=> tbatch[m] = {}
    /\ dpc \in [Worker -> {"idle", "next", "read", "called", "failed"}]
    /\ dbatch \in [Worker -> SUBSET Orders]
    /\ \A w \in Worker : dpc[w] = "idle" <=> dbatch[w] = {}
    /\ faults \in 0 .. MaxFaults

Init ==
    /\ made = {} /\ send = {} /\ sendDet = {} /\ sendHis = {}
    /\ receipt = [t \in Table |-> {}]
    /\ det = {} /\ his = {} /\ exc = {} /\ hisLost = {}
    /\ applied = [o \in Orders |-> 0]
    /\ tpc = [m \in Mover |-> "idle"]
    /\ tbatch = [m \in Mover |-> {}]
    /\ dpc = [w \in Worker |-> "idle"]
    /\ dbatch = [w \in Worker |-> {}]
    /\ faults = 0

sourceVars == <<made, send, sendDet, sendHis>>
destVars == <<receipt, det, his, exc, hisLost, applied>>
transferVars == <<tpc, tbatch>>
dealVars == <<dpc, dbatch>>

Fault == faults < MaxFaults /\ faults' = faults + 1

\* ORDER BY order_accept, FETCH of at most PUB_BATCHORDER_NUM rows.
FirstBatch(S) ==
    {o \in S : Cardinality({p \in S : p < o}) < Batch}

-----------------------------------------------------------------------------
(* The source: orders are made.                                            *)

\* OrderInserSend in the producer's transaction; the sequence numbers are
\* handed out in order but may be committed in any order.
MakeOrder(o) ==
    /\ o \notin made
    /\ made' = made \cup {o}
    /\ send' = send \cup {o}
    /\ sendDet' = sendDet \cup ({o} \cap DetOrders)
    /\ UNCHANGED <<sendHis, destVars, transferVars, dealVars, faults>>

-----------------------------------------------------------------------------
(* orderTransfer*: PubLogicDeal for one label; singleOrder: the same for   *)
(* one order; singleOpAccept: the same for the orders of one operation.    *)

EndTransfer(m) ==
    /\ tpc' = [tpc EXCEPT ![m] = "idle"]
    /\ tbatch' = [tbatch EXCEPT ![m] = {}]

TransferFetch(m) ==
    /\ tpc[m] = "idle"
    /\ \E S \in SUBSET send :
          /\ S # {}
          /\ m = "daemon" => S = FirstBatch(send)
          /\ m = "singleOrder" => Cardinality(S) = 1
          /\ m = "singleOpAccept" => Cardinality(S) <= Batch
          /\ tbatch' = [tbatch EXCEPT ![m] = S]
    /\ tpc' = [tpc EXCEPT ![m] = "fetched"]
    /\ UNCHANGED <<tables, dealVars, faults>>

\* order_accept is the key of wOrderReceipt<label>, and the key of
\* wOrderReceiptDataDet begins with it.
KeysFree(m) ==
    /\ tbatch[m] \cap receipt["NN"] = {}
    /\ tbatch[m] \cap sendDet \cap det = {}

\* The rows of the batch are still there to be deleted: a DELETE that finds
\* nothing is an error too.
StillThere(m) == tbatch[m] \subseteq send

\* Another process has inserted or deleted some of the same rows and has not
\* committed: the statement waits for it.
Locked(m) ==
    \E n \in Mover \ {m} :
        tpc[n] \in {"moved", "received"} /\ tbatch[n] \cap tbatch[m] # {}

\* Mutant: a DELETE that finds nothing is not taken for an error.
TransferMoveUnchecked(m) ==
    /\ tpc[m] = "fetched"
    /\ KeysFree(m) /\ ~Locked(m)
    /\ tpc' = [tpc EXCEPT ![m] = "moved"]
    /\ UNCHANGED <<tables, tbatch, dealVars, faults>>

\* Every insert and delete of both open transactions succeeds.
TransferMove(m) ==
    /\ tpc[m] = "fetched"
    /\ KeysFree(m) /\ ~Locked(m) /\ StillThere(m)
    /\ tpc' = [tpc EXCEPT ![m] = "moved"]
    /\ UNCHANGED <<tables, tbatch, dealVars, faults>>

\* A statement fails: both transactions are rolled back and the function
\* returns.  A row of the batch that is in the destination, or no longer in
\* the source, makes it fail without any fault of the databases.
TransferRollback(m) ==
    /\ tpc[m] = "fetched"
    /\ \/ ~KeysFree(m) /\ UNCHANGED faults
       \/ ~StillThere(m) /\ ~Locked(m) /\ UNCHANGED faults
       \/ Fault
    /\ EndTransfer(m)
    /\ UNCHANGED <<tables, dealVars>>

Received(m) ==
    /\ receipt' = [receipt EXCEPT !["NN"] = @ \cup tbatch[m]]
    /\ det' = det \cup (tbatch[m] \cap sendDet)
    /\ UNCHANGED <<his, exc, hisLost, applied>>

\* The destination is committed first.
CommitDest(m) ==
    /\ tpc[m] = "moved"
    /\ Received(m)
    /\ tpc' = [tpc EXCEPT ![m] = "received"]
    /\ UNCHANGED <<sourceVars, tbatch, dealVars, faults>>

\* The COMMIT of the destination reports an error, whatever became of it:
\* the source is rolled back.
CommitDestFails(m) ==
    /\ tpc[m] = "moved"
    /\ Fault
    /\ Received(m) \/ UNCHANGED destVars
    /\ EndTransfer(m)
    /\ UNCHANGED <<sourceVars, dealVars>>

\* Mutant: the source's rows are deleted without looking at the batch.
CommitSourceAll(m) ==
    /\ tpc[m] = "received"
    /\ send' = {}
    /\ sendHis' = sendHis \cup tbatch[m]
    /\ sendDet' = sendDet \ tbatch[m]
    /\ EndTransfer(m)
    /\ UNCHANGED <<made, destVars, dealVars, faults>>

\* singleOpAccept leaves the detail rows in the source.
CommitSource(m) ==
    /\ tpc[m] = "received"
    /\ send' = send \ tbatch[m]
    /\ sendHis' = sendHis \cup tbatch[m]
    /\ sendDet' = IF m = "singleOpAccept" THEN sendDet
                                          ELSE sendDet \ tbatch[m]
    /\ EndTransfer(m)
    /\ UNCHANGED <<made, destVars, dealVars, faults>>

\* Mutant: the process dies after the source's COMMIT instead of before the
\* destination's.
TransferDiesSourceFirst(m) ==
    /\ tpc[m] = "moved"
    /\ Fault
    /\ send' = send \ tbatch[m]
    /\ sendHis' = sendHis \cup tbatch[m]
    /\ sendDet' = sendDet \ tbatch[m]
    /\ EndTransfer(m)
    /\ UNCHANGED <<made, destVars, dealVars>>

\* The process is killed, or the COMMIT of the source fails, which the code
\* does not look at: the source's transaction is lost.
TransferDies(m) ==
    /\ tpc[m] # "idle"
    /\ Fault
    /\ EndTransfer(m)
    /\ UNCHANGED <<tables, dealVars>>

-----------------------------------------------------------------------------
(* orderDeal*: PubLogicDeal of a worker, a program's child for a table.    *)

\* The order the loop of PubLogicDeal is at.
Current(w, o) == o \in dbatch[w] /\ \A p \in dbatch[w] : o <= p

\* On to the next order of the batch.
Advance(w, o) ==
    /\ dbatch' = [dbatch EXCEPT ![w] = @ \ {o}]
    /\ dpc' = [dpc EXCEPT ![w] = IF dbatch[w] = {o} THEN "idle" ELSE "next"]

DealFetch(w) ==
    /\ dpc[w] = "idle"
    /\ FirstBatch(receipt[TableOf(w)]) # {}
    /\ dbatch' = [dbatch EXCEPT ![w] = FirstBatch(receipt[TableOf(w)])]
    /\ dpc' = [dpc EXCEPT ![w] = "next"]
    /\ UNCHANGED <<tables, transferVars, faults>>

\* Mutant: every program deals with every order.
ReadableUnrouted(w, o) ==
    /\ o \in DetOrders => o \in det
    /\ o \notin StuckOrders

\* The text of a DetOrder is in wOrderReceiptDataDet; without rows there it
\* is empty.
Readable(w, o) ==
    /\ Routed(ProgramOf(w), o)
    /\ o \in DetOrders => o \in det
    /\ o \notin StuckOrders

\* JudgeRoute, reading the detail rows and OrderParseXml, then on to the
\* execution.
ReadOrder(w, o) ==
    /\ dpc[w] = "next"
    /\ Current(w, o)
    /\ Readable(w, o)
    /\ dpc' = [dpc EXCEPT ![w] = "read"]
    /\ UNCHANGED <<tables, transferVars, dbatch, faults>>

\* Mutant: an order that cannot be dealt with ends the batch.
SkipOrderReturn(w, o) ==
    /\ dpc[w] = "next"
    /\ Current(w, o)
    /\ \/ ~Readable(w, o) /\ UNCHANGED faults
       \/ Readable(w, o) /\ Fault
    /\ dbatch' = [dbatch EXCEPT ![w] = {}]
    /\ dpc' = [dpc EXCEPT ![w] = "idle"]
    /\ UNCHANGED <<tables, transferVars>>

\* An order that is not for this program, cannot be parsed, or whose detail
\* rows cannot be read stays where it is.
SkipOrder(w, o) ==
    /\ dpc[w] = "next"
    /\ Current(w, o)
    /\ \/ ~Readable(w, o) /\ UNCHANGED faults
       \/ Readable(w, o) /\ Fault
    /\ Advance(w, o)
    /\ UNCHANGED <<tables, transferVars>>

\* Mutant: a DELETE of the receipt row that finds nothing is not an error; the
\* history row, selected from the receipt row, is then not written either.
RecordDoneBlind(w, o, lost) ==
    /\ IF lost = {} THEN UNCHANGED faults ELSE Fault
    /\ IF "his" \in lost
       THEN hisLost' = hisLost \cup {o} /\ UNCHANGED his
       ELSE his' = his \cup ({o} \cap receipt[TableOf(w)]) /\ UNCHANGED hisLost
    /\ det' = IF "det" \in lost THEN det ELSE det \ {o}
    /\ receipt' = [receipt EXCEPT ![TableOf(w)] = @ \ {o}]
    /\ UNCHANGED exc

\* OperOrderTable "0" after the effect: the history row and the detail rows
\* (lost is the set of those two whose statement fails, which is only
\* logged), then the receipt row.
RecordDone(w, o, lost) ==
    /\ o \in receipt[TableOf(w)]
    /\ IF lost = {} THEN UNCHANGED faults ELSE Fault
    /\ IF "his" \in lost
       THEN hisLost' = hisLost \cup {o} /\ UNCHANGED his
       ELSE his' = his \cup {o} /\ UNCHANGED hisLost
    /\ det' = IF "det" \in lost THEN det ELSE det \ {o}
    /\ receipt' = [receipt EXCEPT ![TableOf(w)] = @ \ {o}]
    /\ UNCHANGED exc

\* Mutant: the detail rows go as after a success.
RecordExceptionDropDetails(w, o) ==
    /\ o \in receipt[TableOf(w)]
    /\ receipt' = [receipt EXCEPT ![TableOf(w)] = @ \ {o}]
    /\ exc' = exc \cup {o}
    /\ det' = det \ {o}
    /\ UNCHANGED <<his, hisLost, faults>>

\* OperOrderTable "1": the exception row (an order that already has one
\* keeps it) and the receipt row; the detail rows stay for orderReDeal.
RecordException(w, o) ==
    /\ o \in receipt[TableOf(w)]
    /\ receipt' = [receipt EXCEPT ![TableOf(w)] = @ \ {o}]
    /\ exc' = exc \cup {o}
    /\ UNCHANGED <<det, his, hisLost, faults>>

Loggable == SUBSET {"his", "det"}

\* Mutant: a history row that is already there does not undo the effect.
DealDataOrderNoRollback(w, o) ==
    /\ dpc[w] = "read"
    /\ Current(w, o)
    /\ o \in DataOrders
    /\ \E lost \in Loggable : RecordDone(w, o, lost)
    /\ applied' = [applied EXCEPT ![o] = @ + 1]
    /\ Advance(w, o)
    /\ UNCHANGED <<sourceVars, transferVars>>

\* A data order: dealDataOrder and OperOrderTable are one transaction.  A
\* history row that is already there (SQLCODE -1) rolls the effect back.
DealDataOrder(w, o) ==
    /\ dpc[w] = "read"
    /\ Current(w, o)
    /\ o \in DataOrders
    /\ \E lost \in Loggable :
          /\ RecordDone(w, o, lost)
          /\ applied' = IF o \in his /\ "his" \notin lost
                        THEN applied
                        ELSE [applied EXCEPT ![o] = @ + 1]
    /\ Advance(w, o)
    /\ UNCHANGED <<sourceVars, transferVars>>

\* dealDataOrder fails: ROLLBACK, then the exception.
DataOrderFails(w, o) ==
    /\ dpc[w] = "read"
    /\ Current(w, o)
    /\ o \in DataOrders
    /\ RecordException(w, o)
    /\ Advance(w, o)
    /\ UNCHANGED <<sourceVars, applied, transferVars>>

\* Mutant: the return code of the service is not looked at.
CallServiceUnchecked(w, o) ==
    /\ dpc[w] = "read"
    /\ Current(w, o)
    /\ o \notin DataOrders
    /\ applied' \in {applied, [applied EXCEPT ![o] = @ + 1]}
    /\ dpc' = [dpc EXCEPT ![w] = "called"]
    /\ UNCHANGED <<sourceVars, receipt, det, his, exc, hisLost, transferVars,
                   dbatch, faults>>

\* A business order: tpcall has its effect in the other system at once.  It
\* may also fail without effect, or (a fault) after it, the reply lost.
CallService(w, o) ==
    /\ dpc[w] = "read"
    /\ Current(w, o)
    /\ o \notin DataOrders
    /\ \/ /\ applied' = [applied EXCEPT ![o] = @ + 1]
          /\ dpc' = [dpc EXCEPT ![w] = "called"]
          /\ UNCHANGED faults
       \/ /\ dpc' = [dpc EXCEPT ![w] = "failed"]
          /\ UNCHANGED <<applied, faults>>
       \/ /\ applied' = [applied EXCEPT ![o] = @ + 1]
          /\ dpc' = [dpc EXCEPT ![w] = "failed"]
          /\ Fault
    /\ UNCHANGED <<sourceVars, receipt, det, his, exc, hisLost, transferVars,
                   dbatch>>

RecordCall(w, o) ==
    /\ Current(w, o)
    /\ \/ dpc[w] = "called" /\ \E lost \in Loggable : RecordDone(w, o, lost)
       \/ dpc[w] = "failed" /\ RecordException(w, o)
    /\ Advance(w, o)
    /\ UNCHANGED <<sourceVars, applied, transferVars>>

\* The worker is about to record what became of its order.
Recording(w, o) ==
    /\ dpc[w] \in {"read", "called", "failed"}
    /\ dpc[w] = "read" => o \in DataOrders
    /\ Current(w, o)

\* OperOrderTable finds that another program has recorded the order since
\* the batch was fetched, and returns an error: ROLLBACK.
RecordTooLate(w, o) ==
    /\ Recording(w, o)
    /\ o \notin receipt[TableOf(w)]
    /\ Advance(w, o)
    /\ UNCHANGED <<tables, transferVars, faults>>

\* OperOrderTable returns an error: ROLLBACK, and the order stays.
RecordFails(w, o) ==
    /\ Recording(w, o)
    /\ Fault
    /\ Advance(w, o)
    /\ UNCHANGED <<tables, transferVars>>

\* The process is killed; its open transaction is rolled back.
DealDies(w) ==
    /\ dpc[w] # "idle"
    /\ Fault
    /\ dpc' = [dpc EXCEPT ![w] = "idle"]
    /\ dbatch' = [dbatch EXCEPT ![w] = {}]
    /\ UNCHANGED <<tables, transferVars>>

-----------------------------------------------------------------------------
(* orderReDeal: an operator sends an exception back.                       *)

ReDeal(o) ==
    /\ o \in exc
    /\ o \notin receipt["XX"]   \* otherwise the insert fails: ROLLBACK
    /\ receipt' = [receipt EXCEPT !["XX"] = @ \cup {o}]
    /\ exc' = exc \ {o}
    /\ UNCHANGED <<sourceVars, det, his, hisLost, applied, transferVars,
                   dealVars, faults>>

-----------------------------------------------------------------------------
TransferStep(m) == TransferMove(m) \/ TransferRollback(m) \/ CommitDest(m)
                   \/ CommitSource(m)
DealOrder(w, o) == \/ ReadOrder(w, o) \/ SkipOrder(w, o)
                   \/ DealDataOrder(w, o) \/ DataOrderFails(w, o)
                   \/ CallService(w, o) \/ RecordCall(w, o)
                   \/ RecordTooLate(w, o)
DealStep(w) == DealFetch(w) \/ \E o \in Orders : DealOrder(w, o)

Next ==
    \/ \E o \in Orders : MakeOrder(o) \/ ReDeal(o)
    \/ \E m \in Mover : \/ TransferFetch(m) \/ TransferStep(m)
                        \/ CommitDestFails(m) \/ TransferDies(m)
    \/ \E w \in Worker : \/ DealStep(w)
                         \/ DealDies(w)
                         \/ \E o \in Orders : RecordFails(w, o)

\* OrderSched gives every label its turn again and again; nobody is obliged
\* to make orders, to send exceptions back or to use a tool, but a tool that
\* has been started goes on.
Fairness == /\ WF_vars(TransferFetch("daemon"))
            /\ \A m \in Mover : WF_vars(TransferStep(m))
            /\ \A w \in Worker : WF_vars(DealStep(w))

Spec == Init /\ [][Next]_vars
FairSpec == Spec /\ Fairness

-----------------------------------------------------------------------------
(* Properties.                                                             *)

AtDestination == receipt["NN"] \cup receipt["XX"] \cup exc \cup his \cup hisLost

\* No order is ever lost: wherever crashes, failed commits and rollbacks
\* strike, an order made is still in the source's table or has reached the
\* destination's, and it leaves the destination's waiting tables only with
\* its effect done.
NoOrderLost ==
    \A o \in made :
        \/ o \in send
        \/ o \in AtDestination /\ (o \in hisLost => applied[o] > 0)

\* The source's history never claims more than the destination has: this is
\* what committing the destination first is for.
SentIsReceived == sendHis \subseteq AtDestination

\* A history row stands for an effect that has happened.
HistoryIsTrue == \A o \in his : applied[o] > 0

\* A data order takes effect at most once although the two commits of a
\* transfer may leave it in both databases and bring it a second time: its
\* history row catches the second coming, unless that row could not be
\* written.
DataOrderOnce ==
    \A o \in DataOrders \ hisLost : applied[o] <= 1

\* The configurations and sRouteData give an order to one program at most.
RouteOnce(o) == \A p, q \in Program : Routed(p, o) /\ Routed(q, o) => p = q

\* A business order's effect in the other system cannot be rolled back, but
\* every repetition is paid for with a fault of its own: the daemon and the
\* tools transferring the same order at the same time never deliver it twice,
\* and of the programs that fetch it only the one it is routed to calls.
BusiOrderRepeats ==
    \A o \in Orders \ DataOrders : RouteOnce(o) => applied[o] <= 1 + faults

\* "The secondary handler only deals with 0: phone number, 1: customer,
\* 2: user, 3: account" (the comment above JudgeRoute): a program without
\* g_PUB_OtherRouteFlag executes no order of another id type.
SecondaryOnlyCustomers ==
    \A w \in Worker, o \in Orders :
        /\ OtherRouteFlag[ProgramOf(w)] = 0
        /\ dpc[w] \in {"read", "called", "failed"}
        /\ Current(w, o)
        => IdType[o] \in 0 .. 3

\* An order that waits at the destination and has not been dealt with has
\* its detail rows there, whichever table it waits in.
DetailsFollow ==
    \A o \in DetOrders :
        o \in receipt["NN"] \cup receipt["XX"] \cup exc
            => o \in det \cup his \cup hisLost

\* No program takes the order out of its table.
Stays(o) == o \in StuckOrders \/ ~\E p \in Program : Routed(p, o)

\* A batch that can never be moved: one of its orders is at the destination
\* already and stays there, waiting as a row that cannot be dealt with, or
\* with the detail rows of an exception or of a failed DELETE.
Blocked ==
    \E o \in send :
        \/ o \in receipt["NN"] /\ Stays(o)
        \/ o \in sendDet \cap det \cap (exc \cup his \cup hisLost)

\* An order that can be dealt with is dealt with, past the orders before it
\* that stay in their table for ever and past a crash of either program; the
\* only thing that can keep it back is a batch blocked by an order that came
\* to the destination a second time.
EveryOrderDealt ==
    \A o \in {p \in Orders : ~Stays(p)} :
        o \in made ~> (o \in his \cup exc \cup hisLost \/ Blocked)

-----------------------------------------------------------------------------
(* The inductive invariant.                                                *)

Holding(m) == tpc[m] \in {"moved", "received"}

\* A process that has moved its batch keeps the source's rows from the
\* others until it ends.
BatchesLocked ==
    \A m \in Mover :
        Holding(m) =>
            /\ tbatch[m] \subseteq send
            /\ \A n \in Mover \ {m} : Holding(n) => tbatch[m] \cap tbatch[n] = {}

\* Between its two commits a batch is in both databases.
ReceivedInBoth ==
    \A m \in Mover : tpc[m] = "received" => tbatch[m] \subseteq AtDestination

\* An order that waits in the source has its detail rows there.
DetailsAtSource == send \cap DetOrders \subseteq sendDet

\* What is recorded as done, or about to be, has had its effect.
EffectDone ==
    /\ \A o \in his \cup hisLost : applied[o] > 0
    /\ \A w \in Worker, o \in Orders :
          dpc[w] = "called" /\ Current(w, o) => applied[o] > 0

\* A data order has its effect exactly if it is recorded.
DataEffectRecorded ==
    \A o \in DataOrders :
        /\ o \notin hisLost => applied[o] <= 1
        /\ o \notin his \cup hisLost => applied[o] = 0

-----------------------------------------------------------------------------
(* The inductive invariant, how often a service is called.                 *)

\* The row in the source that a transfer may still bring to the destination:
\* not once the batch is received, unless the source's transaction is lost.
Unsent(o) ==
    \/ o \notin made
    \/ o \in send /\ \A m \in Mover : tpc[m] = "received" => o \notin tbatch[m]

Called(w, o) == dpc[w] = "called" /\ Current(w, o)

\* The row of a table for which the service may still be called: not once it
\* has been, unless the order is not recorded.
Callable(t, o) ==
    o \in receipt[t] /\ \A w \in Worker : TableOf(w) = t => ~Called(w, o)

OneIf(b) == IF b THEN 1 ELSE 0

\* How often the service may yet be called without a fault.
CallsLeft(o) == OneIf(Unsent(o)) + OneIf(Callable("NN", o))
                    + OneIf(Callable("XX", o)) + OneIf(o \in exc)

\* Every call made or to come but the first is paid for with a fault.
CallsPaid ==
    \A o \in Orders \ DataOrders :
        RouteOnce(o) => applied[o] + CallsLeft(o) <= 1 + faults

\* An order of a dealing process's batch is in its table until that process
\* records it, if the order is routed to its program alone.
BatchesWait ==
    \A w \in Worker, o \in Orders :
        RouteOnce(o) /\ Routed(ProgramOf(w), o) /\ o \in dbatch[w]
            => o \in receipt[TableOf(w)]

\* What a dealing process has read is for its program.
ReadIsRouted ==
    \A w \in Worker, o \in Orders :
        dpc[w] \in {"read", "called", "failed"} /\ Current(w, o)
            => Routed(ProgramOf(w), o)

RepeatInv == send \subseteq made /\ CallsPaid /\ BatchesWait /\ ReadIsRouted

IInv == /\ TypeOK
        /\ BatchesLocked
        /\ ReceivedInBoth
        /\ DetailsAtSource
        /\ EffectDone
        /\ DataEffectRecorded
        /\ SentIsReceived
        /\ NoOrderLost
        /\ DetailsFollow
        /\ RepeatInv
=============================================================================
