------------------------- MODULE OrderPipelineProofs -------------------------
(***************************************************************************)
(* Proofs about the way of the orders, for every set of orders, every      *)
(* batch size, every use of the tools and any number of faults.            *)
(***************************************************************************)
EXTENDS OrderPipeline, TLAPS

LEMMA FaultsBound == MaxFaults \in Nat /\ Orders \subseteq Nat
BY BoundsAssumption, OrdersAssumption

\* A worker's table is one of the two.
LEMMA WorkerTable == \A w \in Worker : TableOf(w) \in Table
BY DEF Worker, TableOf

\* What the ways of recording an order and of going on to the next one do to
\* the types.
LEMMA RecordDoneType ==
    ASSUME TypeOK, NEW w \in Worker, NEW o \in Orders, NEW lost \in Loggable,
           RecordDone(w, o, lost)
    PROVE  /\ receipt' \in [Table -> SUBSET Orders]
           /\ det' \subseteq Orders /\ his' \subseteq Orders
           /\ exc' \subseteq Orders /\ hisLost' \subseteq Orders
           /\ faults' \in 0 .. MaxFaults
<1> USE FaultsBound DEF TypeOK, RecordDone, Fault
<1>1. receipt' \in [Table -> SUBSET Orders]
  OBVIOUS
<1>2. det' \subseteq Orders /\ exc' \subseteq Orders
  OBVIOUS
<1>3. his' \subseteq Orders /\ hisLost' \subseteq Orders
  OBVIOUS
<1>4. faults' \in 0 .. MaxFaults
  OBVIOUS
<1> QED
  BY <1>1, <1>2, <1>3, <1>4

LEMMA AdvanceType ==
    ASSUME TypeOK, NEW w \in Worker, NEW o \in Orders, Current(w, o),
           Advance(w, o)
    PROVE  /\ dpc' \in [Worker -> {"idle", "next", "read", "called", "failed"}]
           /\ dbatch' \in [Worker -> SUBSET Orders]
           /\ \A u \in Worker : dpc'[u] = "idle" <=> dbatch'[u] = {}
BY DEF TypeOK, Current, Advance

\* Every variable keeps its type, and a process has a batch exactly while it
\* is at work on it.
THEOREM TypeCorrect == Spec => []TypeOK
<1> USE FaultsBound
<1>1. Init => TypeOK
  BY DEF Init, TypeOK
<1>2. TypeOK /\ [Next]_vars => TypeOK'
  <2> SUFFICES ASSUME TypeOK, [Next]_vars PROVE TypeOK'
    OBVIOUS
  <2> USE DEF TypeOK, tables, sourceVars, destVars, transferVars, dealVars, Fault
  <2>1. ASSUME NEW o \in Orders, MakeOrder(o) PROVE TypeOK'
    BY <2>1 DEF MakeOrder
  <2>2. ASSUME NEW o \in Orders, ReDeal(o) PROVE TypeOK'
    BY <2>2 DEF ReDeal
  <2>3. ASSUME NEW m \in Mover, TransferFetch(m) PROVE TypeOK'
    BY <2>3 DEF TransferFetch
  <2>4. ASSUME NEW m \in Mover, TransferMove(m) PROVE TypeOK'
    BY <2>4 DEF TransferMove
  <2>5. ASSUME NEW m \in Mover, TransferRollback(m) PROVE TypeOK'
    BY <2>5 DEF TransferRollback, EndTransfer
  <2>6. ASSUME NEW m \in Mover, CommitDest(m) PROVE TypeOK'
    BY <2>6 DEF CommitDest, Received
  <2>7. ASSUME NEW m \in Mover, CommitSource(m) PROVE TypeOK'
    BY <2>7 DEF CommitSource, EndTransfer
  <2>8. ASSUME NEW m \in Mover, CommitDestFails(m) PROVE TypeOK'
    <3>1. EndTransfer(m) /\ UNCHANGED <<sourceVars, dealVars>>
          /\ faults' \in 0 .. MaxFaults
      BY <2>8 DEF CommitDestFails
    <3>2. /\ receipt' \in [Table -> SUBSET Orders] /\ det' \subseteq Orders
          /\ his' \subseteq Orders /\ exc' \subseteq Orders
          /\ hisLost' \subseteq Orders /\ applied' \in [Orders -> Nat]
      BY <2>8 DEF CommitDestFails, Received
    <3> QED
      BY <3>1, <3>2 DEF EndTransfer
  <2>9. ASSUME NEW m \in Mover, TransferDies(m) PROVE TypeOK'
    BY <2>9 DEF TransferDies, EndTransfer
  <2>10. ASSUME NEW w \in Worker, DealFetch(w) PROVE TypeOK'
    <3>1. FirstBatch(receipt[TableOf(w)]) \subseteq Orders
      BY WorkerTable DEF FirstBatch
    <3> QED
      BY <2>10, <3>1 DEF DealFetch
  <2>11. ASSUME NEW w \in Worker, DealDies(w) PROVE TypeOK'
    BY <2>11 DEF DealDies
  <2>12. ASSUME NEW w \in Worker, NEW o \in Orders, ReadOrder(w, o) PROVE TypeOK'
    BY <2>12 DEF ReadOrder, Current
  <2>13. ASSUME NEW w \in Worker, NEW o \in Orders, SkipOrder(w, o) PROVE TypeOK'
    BY <2>13 DEF SkipOrder, Advance, Current
  <2>14. ASSUME NEW w \in Worker, NEW o \in Orders, DealDataOrder(w, o)
         PROVE TypeOK'
    <3>1. PICK lost \in Loggable : RecordDone(w, o, lost)
      BY <2>14 DEF DealDataOrder
    <3>2. applied' \in [Orders -> Nat]
      BY <2>14 DEF DealDataOrder
    <3>3. Current(w, o) /\ Advance(w, o) /\ UNCHANGED <<sourceVars, transferVars>>
      BY <2>14 DEF DealDataOrder
    <3> QED
      BY <3>1, <3>2, <3>3, RecordDoneType, AdvanceType
  <2>15. ASSUME NEW w \in Worker, NEW o \in Orders, DataOrderFails(w, o)
         PROVE TypeOK'
    BY <2>15 DEF DataOrderFails, RecordException, Advance, Current
  <2>16. ASSUME NEW w \in Worker, NEW o \in Orders, CallService(w, o)
         PROVE TypeOK'
    BY <2>16 DEF CallService, Current
  <2>17. ASSUME NEW w \in Worker, NEW o \in Orders, RecordCall(w, o) PROVE TypeOK'
    <3>1. Current(w, o) /\ Advance(w, o)
          /\ UNCHANGED <<sourceVars, applied, transferVars>>
      BY <2>17 DEF RecordCall
    <3>2. CASE dpc[w] = "called" /\ \E lost \in Loggable : RecordDone(w, o, lost)
      BY <3>1, <3>2, RecordDoneType, AdvanceType
    <3>3. CASE dpc[w] = "failed" /\ RecordException(w, o)
      BY <3>1, <3>3, AdvanceType DEF RecordException
    <3> QED
      BY <2>17, <3>2, <3>3 DEF RecordCall
  <2>18. ASSUME NEW w \in Worker, NEW o \in Orders, RecordTooLate(w, o)
         PROVE TypeOK'
    BY <2>18 DEF RecordTooLate, Recording, Advance, Current
  <2>19. ASSUME NEW w \in Worker, NEW o \in Orders, RecordFails(w, o)
         PROVE TypeOK'
    BY <2>19 DEF RecordFails, Recording, Advance, Current
  <2>20. ASSUME NEW w \in Worker, NEW o \in Orders, DealOrder(w, o)
         PROVE TypeOK'
    BY <2>12, <2>13, <2>14, <2>15, <2>16, <2>17, <2>18, <2>20 DEF DealOrder
  <2>21. CASE UNCHANGED vars
    BY <2>21 DEF vars
  <2>22. ASSUME Next PROVE TypeOK'
    <3> HIDE DEF TypeOK
    <3> QED
      BY <2>1, <2>2, <2>3, <2>4, <2>5, <2>6, <2>7, <2>8, <2>9, <2>10, <2>11,
         <2>19, <2>20, <2>22 DEF Next, TransferStep, DealStep
  <2> QED
    BY <2>21, <2>22
<1> QED
  BY <1>1, <1>2, PTL DEF Spec

-----------------------------------------------------------------------------
\* The steps of the dealing programs and of orderReDeal leave the source and
\* the transferring processes alone.
DestStep ==
    \/ \E o \in Orders : ReDeal(o)
    \/ \E w \in Worker : DealStep(w) \/ DealDies(w)
                        \/ \E o \in Orders : RecordFails(w, o)

LEMMA DestStepSource ==
    ASSUME DestStep PROVE UNCHANGED <<sourceVars, transferVars>>
BY DEF DestStep, DealStep, DealOrder, ReDeal, DealFetch, ReadOrder, SkipOrder,
       DealDataOrder, DataOrderFails, CallService, RecordCall, RecordTooLate,
       RecordFails, DealDies, tables, sourceVars, transferVars

\* An order that has reached the destination never leaves it.
LEMMA DestinationKeeps ==
    ASSUME TypeOK, DestStep PROVE AtDestination \subseteq AtDestination'
<1> USE DEF TypeOK, AtDestination, Table
<1>1. ASSUME NEW o \in Orders, ReDeal(o) PROVE AtDestination \subseteq AtDestination'
  BY <1>1 DEF ReDeal
<1>2. ASSUME NEW w \in Worker, NEW o \in Orders, NEW lost, RecordDone(w, o, lost)
      PROVE  AtDestination \subseteq AtDestination'
  BY <1>2 DEF RecordDone
<1>3. ASSUME NEW w \in Worker, NEW o \in Orders, RecordException(w, o)
      PROVE  AtDestination \subseteq AtDestination'
  BY <1>3 DEF RecordException
<1>4. ASSUME NEW w \in Worker, NEW o \in Orders,
             ReadOrder(w, o) \/ SkipOrder(w, o) \/ CallService(w, o)
             \/ RecordTooLate(w, o) \/ RecordFails(w, o) \/ DealFetch(w) \/ DealDies(w)
      PROVE  UNCHANGED <<receipt, exc, his, hisLost>>
  BY <1>4 DEF ReadOrder, SkipOrder, CallService, RecordTooLate, RecordFails,
              DealFetch, DealDies, tables
<1>5. ASSUME NEW w \in Worker, DealFetch(w) \/ DealDies(w)
      PROVE  UNCHANGED <<receipt, exc, his, hisLost>>
  BY <1>5 DEF DealFetch, DealDies, tables
<1>6. ASSUME NEW w \in Worker, NEW o \in Orders, DealDataOrder(w, o)
      PROVE  AtDestination \subseteq AtDestination'
  BY <1>2, <1>6 DEF DealDataOrder
<1>7. ASSUME NEW w \in Worker, NEW o \in Orders, DataOrderFails(w, o)
      PROVE  AtDestination \subseteq AtDestination'
  BY <1>3, <1>7 DEF DataOrderFails
<1>8. ASSUME NEW w \in Worker, NEW o \in Orders, RecordCall(w, o)
      PROVE  AtDestination \subseteq AtDestination'
  BY <1>2, <1>3, <1>8 DEF RecordCall
<1> QED
  BY <1>1, <1>4, <1>5, <1>6, <1>7, <1>8 DEF DestStep, DealStep, DealOrder

\* The half of the invariant that is about the transfer.
TransferInv ==
    /\ BatchesLocked
    /\ ReceivedInBoth
    /\ DetailsAtSource
    /\ SentIsReceived
    /\ made \subseteq send \cup AtDestination

LEMMA TransferInvStep ==
    ASSUME TypeOK, TypeOK', TransferInv, [Next]_vars PROVE TransferInv'
<1> USE DEF TypeOK, TransferInv, BatchesLocked, Holding, ReceivedInBoth,
            DetailsAtSource, SentIsReceived
<1>1. CASE DestStep
  <2>1. UNCHANGED <<made, send, sendDet, sendHis, tpc, tbatch>>
    BY <1>1, DestStepSource DEF sourceVars, transferVars
  <2>2. AtDestination \subseteq AtDestination'
    BY <1>1, DestinationKeeps
  <2> HIDE DEF TypeOK
  <2> QED
    BY <2>1, <2>2
<1>2. CASE UNCHANGED vars
  BY <1>2 DEF vars, tables, AtDestination
<1>3. ASSUME NEW o \in Orders, MakeOrder(o) PROVE TransferInv'
  BY <1>3 DEF MakeOrder, AtDestination, destVars, transferVars
<1>4. ASSUME NEW m \in Mover, TransferFetch(m) PROVE TransferInv'
  BY <1>4 DEF TransferFetch, AtDestination, tables
<1>5. ASSUME NEW m \in Mover, TransferMove(m) PROVE TransferInv'
  BY <1>5 DEF TransferMove, StillThere, Locked, AtDestination, tables
<1>6. ASSUME NEW m \in Mover, TransferRollback(m) \/ TransferDies(m)
      PROVE  TransferInv'
  BY <1>6 DEF TransferRollback, TransferDies, EndTransfer, AtDestination, tables
<1>7. ASSUME NEW m \in Mover, Received(m)
      PROVE  AtDestination \subseteq AtDestination'
             /\ tbatch[m] \subseteq AtDestination'
  BY <1>7 DEF Received, AtDestination, Table
<1>8. ASSUME NEW m \in Mover, CommitDest(m) PROVE TransferInv'
  <2>1. AtDestination \subseteq AtDestination' /\ tbatch[m] \subseteq AtDestination'
    BY <1>7, <1>8 DEF CommitDest
  <2>2. /\ UNCHANGED <<made, send, sendDet, sendHis, tbatch>>
        /\ tpc[m] = "moved"
        /\ tpc' = [tpc EXCEPT ![m] = "received"]
    BY <1>8 DEF CommitDest, sourceVars
  <2> QED
    BY <2>1, <2>2
<1>9. ASSUME NEW m \in Mover, CommitDestFails(m) PROVE TransferInv'
  <2>1. AtDestination \subseteq AtDestination'
    BY <1>7, <1>9 DEF CommitDestFails, destVars, AtDestination
  <2>2. UNCHANGED <<made, send, sendDet, sendHis>> /\ EndTransfer(m)
    BY <1>9 DEF CommitDestFails, sourceVars
  <2> QED
    BY <2>1, <2>2 DEF EndTransfer
<1>10. ASSUME NEW m \in Mover, CommitSource(m) PROVE TransferInv'
  <2>1. /\ tpc[m] = "received" /\ EndTransfer(m)
        /\ send' = send \ tbatch[m] /\ sendHis' = sendHis \cup tbatch[m]
        /\ sendDet \ tbatch[m] \subseteq sendDet'
        /\ made' = made
    BY <1>10 DEF CommitSource
  <2>2. AtDestination' = AtDestination
    BY <1>10 DEF CommitSource, destVars, AtDestination
  <2>3. tbatch[m] \subseteq AtDestination
    BY <2>1
  <2>4. BatchesLocked'
    BY <2>1 DEF EndTransfer
  <2>5. ReceivedInBoth'
    BY <2>1, <2>2 DEF EndTransfer
  <2> QED
    BY <2>1, <2>2, <2>3, <2>4, <2>5
<1> QED
  BY <1>1, <1>2, <1>3, <1>4, <1>5, <1>6, <1>8, <1>9, <1>10
     DEF Next, TransferStep, DestStep

-----------------------------------------------------------------------------
\* The half of the invariant that is about dealing with the orders.
DealInv == EffectDone /\ DataEffectRecorded /\ DetailsFollow

\* A step that does nothing but move batches and rows about.
LEMMA DealInvKept ==
    ASSUME TypeOK, DealInv,
           UNCHANGED <<applied, his, hisLost, dbatch>>,
           \A w \in Worker : dpc'[w] = "called" => dpc[w] = "called",
           det \subseteq det',
           \A o \in DetOrders :
              o \in receipt'["NN"] \cup receipt'["XX"] \cup exc'
                 => o \in receipt["NN"] \cup receipt["XX"] \cup exc \cup det'
    PROVE  DealInv'
<1>1. EffectDone'
  BY DEF DealInv, EffectDone, Current
<1>2. DataEffectRecorded'
  BY DEF DealInv, DataEffectRecorded
<1>3. DetailsFollow'
  BY DEF DealInv, DetailsFollow
<1> QED
  BY <1>1, <1>2, <1>3 DEF DealInv

\* What the transferring processes do to it: an order comes with its details.
LEMMA ReceivedDealInv ==
    ASSUME TypeOK, TransferInv, DealInv, NEW m \in Mover, Holding(m),
           Received(m), UNCHANGED dealVars
    PROVE  DealInv'
<1>1. tbatch[m] \cap DetOrders \subseteq sendDet
  BY DEF TransferInv, BatchesLocked, DetailsAtSource
<1>2. /\ receipt'["NN"] = receipt["NN"] \cup tbatch[m]
      /\ receipt'["XX"] = receipt["XX"]
      /\ det' = det \cup (tbatch[m] \cap sendDet)
      /\ UNCHANGED <<his, exc, hisLost, applied, dpc, dbatch>>
  BY DEF Received, TypeOK, Table, dealVars
<1> QED
  BY <1>1, <1>2, DealInvKept

\* Only the order a dealing process is at is current.
LEMMA CurrentUnique ==
    ASSUME NEW w \in Worker, NEW o \in Orders, NEW p \in Orders,
           Current(w, o), Current(w, p)
    PROVE  o = p
BY FaultsBound DEF Current

\* After Advance the process has called no service for its next order.
LEMMA AdvanceNotCalled ==
    ASSUME TypeOK, NEW w \in Worker, NEW o \in Orders, Advance(w, o)
    PROVE  /\ dpc'[w] # "called"
           /\ \A u \in Worker \ {w} : dpc'[u] = dpc[u] /\ dbatch'[u] = dbatch[u]
BY DEF TypeOK, Advance

LEMMA CalledKept ==
    ASSUME TypeOK, EffectDone, NEW w \in Worker, NEW o \in Orders, Advance(w, o),
           \A p \in Orders : applied[p] > 0 => applied'[p] > 0
    PROVE  \A u \in Worker, p \in Orders :
              dpc'[u] = "called" /\ Current(u, p)' => applied'[p] > 0
<1> SUFFICES ASSUME NEW u \in Worker, NEW p \in Orders,
                    dpc'[u] = "called", Current(u, p)'
             PROVE  applied'[p] > 0
  OBVIOUS
<1>1. dpc[u] = "called" /\ dbatch'[u] = dbatch[u]
  BY AdvanceNotCalled
<1>2. Current(u, p)
  BY <1>1 DEF Current
<1> QED
  BY <1>1, <1>2 DEF EffectDone

\* Recording an order as done, its effect having happened.
LEMMA RecordDoneDealInv ==
    ASSUME TypeOK, TypeOK', DealInv, NEW w \in Worker, NEW o \in Orders,
           NEW lost \in Loggable, RecordDone(w, o, lost), Advance(w, o),
           applied'[o] > 0,
           \A p \in Orders \ {o} : applied'[p] = applied[p],
           applied'[o] >= applied[o],
           o \in DataOrders /\ o \notin hisLost' => applied'[o] <= 1
    PROVE  DealInv'
<1> USE FaultsBound DEF TypeOK, DealInv
<1>1. /\ his' \cup hisLost' = his \cup hisLost \cup {o}
      /\ hisLost \subseteq hisLost'
      /\ det \ {o} \subseteq det'
      /\ \A u \in Table : receipt'[u] \subseteq receipt[u]
      /\ exc' = exc
  BY DEF RecordDone
<1>2. EffectDone'
  <2>1. \A p \in Orders : applied[p] > 0 => applied'[p] > 0
    OBVIOUS
  <2>2. \A p \in his' \cup hisLost' : applied'[p] > 0
    BY <1>1, <2>1 DEF EffectDone
  <2> QED
    BY <2>1, <2>2, CalledKept DEF EffectDone
<1>3. DataEffectRecorded'
  BY <1>1, OrdersAssumption DEF DataEffectRecorded
<1>4. DetailsFollow'
  BY <1>1 DEF DetailsFollow, Table
<1> QED
  BY <1>2, <1>3, <1>4

\* Recording an exception leaves the details where they are.
LEMMA RecordExceptionDealInv ==
    ASSUME TypeOK, TypeOK', DealInv, NEW w \in Worker, NEW o \in Orders,
           Current(w, o), RecordException(w, o), Advance(w, o),
           UNCHANGED applied
    PROVE  DealInv'
<1> USE FaultsBound DEF TypeOK, DealInv
<1>1. o \in receipt[TableOf(w)]
  BY DEF RecordException
<1>2. /\ UNCHANGED <<det, his, hisLost>>
      /\ \A u \in Table : receipt'[u] \subseteq receipt[u]
      /\ exc' = exc \cup {o}
  BY DEF RecordException
<1>3. EffectDone'
  BY <1>2, CalledKept DEF EffectDone
<1>4. DataEffectRecorded'
  BY <1>2 DEF DataEffectRecorded
<1>5. o \in receipt["NN"] \cup receipt["XX"]
  BY <1>1, WorkerTable DEF Table
<1>6. DetailsFollow'
  BY <1>2, <1>5 DEF DetailsFollow, Table
<1> QED
  BY <1>3, <1>4, <1>6

LEMMA DealInvStep ==
    ASSUME TypeOK, TypeOK', TransferInv, DealInv, [Next]_vars PROVE DealInv'
<1> USE FaultsBound DEF TypeOK
<1>1. ASSUME NEW o \in Orders, MakeOrder(o) PROVE DealInv'
  BY <1>1, DealInvKept DEF MakeOrder, destVars, dealVars
<1>2. ASSUME NEW m \in Mover,
             \/ TransferFetch(m) \/ TransferMove(m) \/ TransferRollback(m)
             \/ TransferDies(m) \/ CommitSource(m)
      PROVE  DealInv'
  <2>1. UNCHANGED <<destVars, dealVars>>
    BY <1>2 DEF TransferFetch, TransferMove, TransferRollback, TransferDies,
                CommitSource, tables, destVars
  <2> QED
    BY <2>1, DealInvKept DEF destVars, dealVars
<1>3. ASSUME NEW m \in Mover, CommitDest(m) \/ CommitDestFails(m)
      PROVE  DealInv'
  <2>1. CASE Received(m)
    BY <1>3, <2>1, ReceivedDealInv DEF CommitDest, CommitDestFails, Holding
  <2>2. CASE UNCHANGED destVars /\ UNCHANGED dealVars
    BY <2>2, DealInvKept DEF destVars, dealVars
  <2> QED
    BY <1>3, <2>1, <2>2 DEF CommitDest, CommitDestFails
<1>4. ASSUME NEW o \in Orders, ReDeal(o) PROVE DealInv'
  BY <1>4, DealInvKept DEF ReDeal, dealVars, Table
<1>5. ASSUME NEW w \in Worker, DealFetch(w) PROVE DealInv'
  <2>1. /\ UNCHANGED <<applied, his, hisLost, receipt, det, exc>>
        /\ dpc' = [dpc EXCEPT ![w] = "next"]
        /\ dbatch' = [dbatch EXCEPT ![w] = FirstBatch(receipt[TableOf(w)])]
    BY <1>5 DEF DealFetch, tables
  <2>2. EffectDone'
    BY <2>1 DEF DealInv, EffectDone, Current
  <2> QED
    BY <2>1, <2>2 DEF DealInv, DataEffectRecorded, DetailsFollow
<1>6. ASSUME NEW w \in Worker, NEW o \in Orders,
             ReadOrder(w, o)
      PROVE  DealInv'
  BY <1>6, DealInvKept DEF ReadOrder, tables
<1>7. ASSUME NEW w \in Worker, NEW o \in Orders,
             SkipOrder(w, o) \/ RecordTooLate(w, o) \/ RecordFails(w, o)
      PROVE  DealInv'
  <2>1. Advance(w, o) /\ UNCHANGED <<applied, his, hisLost, receipt, det, exc>>
    BY <1>7 DEF SkipOrder, RecordTooLate, RecordFails, tables
  <2>2. EffectDone'
    BY <2>1, CalledKept DEF DealInv, EffectDone
  <2> QED
    BY <2>1, <2>2 DEF DealInv, DataEffectRecorded, DetailsFollow
<1>8. ASSUME NEW w \in Worker, DealDies(w) PROVE DealInv'
  <2>1. /\ UNCHANGED <<applied, his, hisLost, receipt, det, exc>>
        /\ dpc' = [dpc EXCEPT ![w] = "idle"]
        /\ dbatch' = [dbatch EXCEPT ![w] = {}]
    BY <1>8 DEF DealDies, tables
  <2>2. EffectDone'
    BY <2>1 DEF DealInv, EffectDone, Current
  <2> QED
    BY <2>1, <2>2
       DEF DealInv, DataEffectRecorded, DetailsFollow
<1>9. ASSUME NEW w \in Worker, NEW o \in Orders, DealDataOrder(w, o)
      PROVE  DealInv'
  <2>1. PICK lost \in Loggable :
           /\ RecordDone(w, o, lost)
           /\ applied' = IF o \in his /\ "his" \notin lost
                         THEN applied
                         ELSE [applied EXCEPT ![o] = @ + 1]
    BY <1>9 DEF DealDataOrder
  <2>2. Advance(w, o) /\ o \in DataOrders
    BY <1>9 DEF DealDataOrder
  <2>3. applied'[o] > 0 /\ applied'[o] >= applied[o]
        /\ \A p \in Orders \ {o} : applied'[p] = applied[p]
    BY <2>1 DEF DealInv, EffectDone
  <2>4. ASSUME o \notin hisLost' PROVE applied'[o] <= 1
    <3>1. "his" \notin lost /\ o \notin hisLost
      BY <2>1, <2>4 DEF RecordDone
    <3>2. applied[o] <= 1 /\ (o \notin his => applied[o] = 0)
      BY <2>2, <3>1 DEF DealInv, DataEffectRecorded
    <3> QED
      BY <2>1, <3>1, <3>2
  <2> QED
    BY <2>1, <2>2, <2>3, <2>4, RecordDoneDealInv
<1>10. ASSUME NEW w \in Worker, NEW o \in Orders, DataOrderFails(w, o)
       PROVE  DealInv'
  BY <1>10, RecordExceptionDealInv DEF DataOrderFails
<1>11. ASSUME NEW w \in Worker, NEW o \in Orders, CallService(w, o)
       PROVE  DealInv'
  <2>1. /\ Current(w, o) /\ o \notin DataOrders
        /\ UNCHANGED <<his, hisLost, receipt, det, exc, dbatch>>
        /\ \A u \in Worker \ {w} : dpc'[u] = dpc[u]
        /\ dpc'[w] = "called" => applied'[o] = applied[o] + 1
        /\ \/ applied' = applied
           \/ applied' = [applied EXCEPT ![o] = @ + 1]
    BY <1>11 DEF CallService
  <2>2. EffectDone'
    <3>1. \A p \in Orders : applied[p] > 0 => applied'[p] > 0
      BY <2>1
    <3>2. ASSUME NEW u \in Worker, NEW p \in Orders,
                 dpc'[u] = "called", Current(u, p)'
          PROVE  applied'[p] > 0
      <4>1. Current(u, p)
        BY <2>1, <3>2 DEF Current
      <4>2. CASE u = w
        <5>1. p = o
          BY <2>1, <4>1, <4>2, CurrentUnique
        <5> QED
          BY <2>1, <3>2, <4>2, <5>1
      <4>3. CASE u # w
        BY <2>1, <3>1, <3>2, <4>1, <4>3 DEF DealInv, EffectDone
      <4> QED
        BY <4>2, <4>3
    <3>3. \A p \in his' \cup hisLost' : applied'[p] > 0
      BY <2>1, <3>1 DEF DealInv, EffectDone
    <3> QED
      BY <3>2, <3>3 DEF EffectDone
  <2>3. DataEffectRecorded'
    BY <2>1, OrdersAssumption DEF DealInv, DataEffectRecorded
  <2> QED
    BY <2>1, <2>2, <2>3 DEF DealInv, DetailsFollow
<1>12. ASSUME NEW w \in Worker, NEW o \in Orders, RecordCall(w, o)
       PROVE  DealInv'
  <2>1. Current(w, o) /\ Advance(w, o) /\ UNCHANGED applied
    BY <1>12 DEF RecordCall
  <2>2. CASE dpc[w] = "failed" /\ RecordException(w, o)
    BY <2>1, <2>2, RecordExceptionDealInv
  <2>3. ASSUME dpc[w] = "called", NEW lost \in Loggable, RecordDone(w, o, lost)
        PROVE  DealInv'
    <3>1. applied'[o] > 0 /\ applied'[o] >= applied[o]
      BY <2>1, <2>3 DEF DealInv, EffectDone
    <3>2. o \in DataOrders /\ o \notin hisLost' => applied'[o] <= 1
      BY <2>1, <2>3 DEF DealInv, DataEffectRecorded, RecordDone
    <3> QED
      BY <2>1, <2>3, <3>1, <3>2, RecordDoneDealInv
  <2> QED
    BY <1>12, <2>2, <2>3 DEF RecordCall
<1>13. CASE UNCHANGED vars
  BY <1>13, DealInvKept DEF vars, tables
<1> QED
  BY <1>1, <1>2, <1>3, <1>4, <1>5, <1>6, <1>7, <1>8, <1>9, <1>10, <1>11, <1>12,
     <1>13 DEF Next, TransferStep, DealStep, DealOrder

-----------------------------------------------------------------------------
(* How often a service is called.                                          *)

\* A step of a dealing process touches no other dealing process.
WorkerStep(w) ==
    DealStep(w) \/ DealDies(w) \/ \E o \in Orders : RecordFails(w, o)

LEMMA WorkerLocal ==
    ASSUME TypeOK, NEW w \in Worker, WorkerStep(w)
    PROVE  /\ UNCHANGED <<sourceVars, transferVars>>
           /\ \A u \in Worker \ {w} : dpc'[u] = dpc[u] /\ dbatch'[u] = dbatch[u]
<1>1. UNCHANGED <<sourceVars, transferVars>>
  BY DestStepSource DEF WorkerStep, DestStep
<1>2. CASE DealFetch(w) \/ DealDies(w)
  BY <1>1, <1>2 DEF DealFetch, DealDies, TypeOK
<1>3. ASSUME NEW o \in Orders, ReadOrder(w, o) \/ CallService(w, o)
      PROVE  \A u \in Worker \ {w} : dpc'[u] = dpc[u] /\ dbatch'[u] = dbatch[u]
  BY <1>3 DEF ReadOrder, CallService, TypeOK
<1>4. ASSUME NEW o \in Orders,
             \/ SkipOrder(w, o) \/ DealDataOrder(w, o) \/ DataOrderFails(w, o)
             \/ RecordCall(w, o) \/ RecordTooLate(w, o) \/ RecordFails(w, o)
      PROVE  Advance(w, o)
  BY <1>4 DEF SkipOrder, DealDataOrder, DataOrderFails, RecordCall,
              RecordTooLate, RecordFails
<1> QED
  BY <1>1, <1>2, <1>3, <1>4, AdvanceNotCalled
     DEF WorkerStep, DealStep, DealOrder

\* A worker is its program and its table, so an order routed to one program
\* has one worker for each table.
LEMMA OneWorker ==
    ASSUME NEW u \in Worker, NEW w \in Worker, NEW o \in Orders, RouteOnce(o),
           Routed(ProgramOf(u), o), Routed(ProgramOf(w), o),
           TableOf(u) = TableOf(w)
    PROVE  u = w
<1>1. /\ u = <<u[1], u[2]>> /\ w = <<w[1], w[2]>>
      /\ u[1] \in Program /\ w[1] \in Program
  BY DEF Worker
<1>2. u[1] = w[1]
  BY <1>1 DEF RouteOnce, ProgramOf
<1> QED
  BY <1>1, <1>2 DEF TableOf

\* What a dealing process has read stays for its program.
LEMMA ReadIsRoutedStep ==
    ASSUME TypeOK, ReadIsRouted, [Next]_vars PROVE ReadIsRouted'
<1>1. CASE UNCHANGED dealVars
  BY <1>1 DEF ReadIsRouted, Current, dealVars
<1>2. ASSUME NEW w \in Worker, WorkerStep(w),
             \A p \in Orders :
                 dpc'[w] \in {"read", "called", "failed"} /\ Current(w, p)'
                     => Routed(ProgramOf(w), p)
      PROVE  ReadIsRouted'
  <2> SUFFICES ASSUME NEW u \in Worker, NEW p \in Orders,
                      dpc'[u] \in {"read", "called", "failed"}, Current(u, p)'
               PROVE  Routed(ProgramOf(u), p)
    BY DEF ReadIsRouted
  <2>1. CASE u # w
    BY <1>2, <2>1, WorkerLocal DEF ReadIsRouted, Current
  <2> QED
    BY <1>2, <2>1
<1>3. ASSUME NEW w \in Worker, DealFetch(w) \/ DealDies(w)
      PROVE  ReadIsRouted'
  <2>1. dpc'[w] \notin {"read", "called", "failed"}
    BY <1>3 DEF DealFetch, DealDies, TypeOK
  <2> QED
    BY <1>2, <1>3, <2>1 DEF WorkerStep, DealStep
<1>4. ASSUME NEW w \in Worker, NEW o \in Orders, ReadOrder(w, o)
      PROVE  ReadIsRouted'
  <2>1. dbatch' = dbatch /\ Current(w, o) /\ Routed(ProgramOf(w), o)
    BY <1>4 DEF ReadOrder, Readable
  <2>2. \A p \in Orders : Current(w, p)' => p = o
    BY <2>1, CurrentUnique DEF Current
  <2> QED
    BY <1>2, <1>4, <2>1, <2>2 DEF WorkerStep, DealStep, DealOrder
<1>5. ASSUME NEW w \in Worker, NEW o \in Orders, CallService(w, o)
      PROVE  ReadIsRouted'
  <2>1. dbatch' = dbatch /\ dpc[w] = "read"
    BY <1>5 DEF CallService
  <2>2. \A p \in Orders : Current(w, p)' => Routed(ProgramOf(w), p)
    BY <2>1 DEF ReadIsRouted, Current
  <2> QED
    BY <1>2, <1>5, <2>2 DEF WorkerStep, DealStep, DealOrder
<1>6. ASSUME NEW w \in Worker, NEW o \in Orders, WorkerStep(w), Advance(w, o)
      PROVE  ReadIsRouted'
  <2>1. dpc'[w] \notin {"read", "called", "failed"}
    BY <1>6 DEF Advance, TypeOK
  <2> QED
    BY <1>2, <1>6, <2>1
<1>7. ASSUME NEW w \in Worker, NEW o \in Orders,
             \/ SkipOrder(w, o) \/ DealDataOrder(w, o) \/ DataOrderFails(w, o)
             \/ RecordCall(w, o) \/ RecordTooLate(w, o) \/ RecordFails(w, o)
      PROVE  ReadIsRouted'
  <2>1. Advance(w, o)
    BY <1>7 DEF SkipOrder, DealDataOrder, DataOrderFails, RecordCall,
                RecordTooLate, RecordFails
  <2> QED
    BY <1>6, <1>7, <2>1 DEF WorkerStep, DealStep, DealOrder
<1>8. ASSUME NEW o \in Orders, MakeOrder(o) \/ ReDeal(o)
      PROVE  UNCHANGED dealVars
  BY <1>8 DEF MakeOrder, ReDeal, dealVars
<1>9. ASSUME NEW m \in Mover,
             \/ TransferFetch(m) \/ TransferStep(m) \/ CommitDestFails(m)
             \/ TransferDies(m)
      PROVE  UNCHANGED dealVars
  BY <1>9 DEF TransferFetch, TransferStep, TransferMove, TransferRollback,
         CommitDest, CommitSource, CommitDestFails, TransferDies, dealVars
<1> QED
  BY <1>1, <1>3, <1>4, <1>5, <1>7, <1>8, <1>9
     DEF Next, DealStep, DealOrder, vars, dealVars

\* A dealing process takes no row out of a table but that of the order it has
\* read, and then goes on to the next.
LEMMA WorkerTakes ==
    ASSUME NEW w \in Worker, WorkerStep(w)
    PROVE  \/ UNCHANGED receipt
           \/ \E o \in Orders :
                  /\ dpc[w] \in {"read", "called", "failed"}
                  /\ Current(w, o) /\ Advance(w, o)
                  /\ receipt' = [receipt EXCEPT ![TableOf(w)] = @ \ {o}]
<1>1. ASSUME NEW o \in Orders,
             DealDataOrder(w, o) \/ DataOrderFails(w, o) \/ RecordCall(w, o)
      PROVE  /\ dpc[w] \in {"read", "called", "failed"}
             /\ Current(w, o) /\ Advance(w, o)
             /\ receipt' = [receipt EXCEPT ![TableOf(w)] = @ \ {o}]
  BY <1>1 DEF DealDataOrder, DataOrderFails, RecordCall, RecordDone,
              RecordException
<1>2. ASSUME NEW o \in Orders,
             \/ ReadOrder(w, o) \/ SkipOrder(w, o) \/ CallService(w, o)
             \/ RecordTooLate(w, o) \/ RecordFails(w, o)
      PROVE  UNCHANGED receipt
  BY <1>2 DEF ReadOrder, SkipOrder, CallService, RecordTooLate, RecordFails,
              tables
<1>3. ASSUME DealFetch(w) \/ DealDies(w) PROVE UNCHANGED receipt
  BY <1>3 DEF DealFetch, DealDies, tables
<1> QED
  BY <1>1, <1>2, <1>3 DEF WorkerStep, DealStep, DealOrder

\* The batch of a dealing process only shrinks, or is fetched.
LEMMA WorkerBatch ==
    ASSUME TypeOK, NEW w \in Worker, WorkerStep(w)
    PROVE  dbatch'[w] \subseteq dbatch[w] \cup receipt[TableOf(w)]
<1>1. ASSUME NEW o \in Orders, Advance(w, o) PROVE dbatch'[w] \subseteq dbatch[w]
  BY <1>1 DEF Advance, TypeOK
<1>2. ASSUME NEW o \in Orders, DealOrder(w, o) \/ RecordFails(w, o)
      PROVE  UNCHANGED dbatch \/ Advance(w, o)
  BY <1>2 DEF DealOrder, ReadOrder, SkipOrder, DealDataOrder, DataOrderFails,
         CallService, RecordCall, RecordTooLate, RecordFails
<1>3. CASE DealFetch(w) \/ DealDies(w)
  BY <1>3 DEF DealFetch, DealDies, FirstBatch, TypeOK
<1> QED
  BY <1>1, <1>2, <1>3 DEF WorkerStep, DealStep

\* What is in a dealing process's batch stays in its table.
LEMMA BatchesWaitStep ==
    ASSUME TypeOK, ReadIsRouted, BatchesWait, [Next]_vars PROVE BatchesWait'
<1>1. ASSUME UNCHANGED dbatch, \A t \in Table : receipt[t] \subseteq receipt'[t]
      PROVE  BatchesWait'
  BY <1>1, WorkerTable DEF BatchesWait
<1>2. ASSUME NEW w \in Worker, WorkerStep(w) PROVE BatchesWait'
  <2> SUFFICES ASSUME NEW u \in Worker, NEW p \in Orders, RouteOnce(p),
                      Routed(ProgramOf(u), p), p \in dbatch'[u]
               PROVE  p \in receipt'[TableOf(u)]
    BY DEF BatchesWait
  <2>1. p \in receipt[TableOf(u)]
    <3>1. CASE u = w
      BY <1>2, <3>1, WorkerBatch DEF BatchesWait
    <3>2. CASE u # w
      BY <1>2, <3>2, WorkerLocal DEF BatchesWait
    <3> QED
      BY <3>1, <3>2
  <2>2. ASSUME NEW o \in Orders, dpc[w] \in {"read", "called", "failed"},
               Current(w, o), Advance(w, o),
               receipt' = [receipt EXCEPT ![TableOf(w)] = @ \ {o}]
        PROVE  p \in receipt'[TableOf(u)]
    <3>1. CASE p = o /\ TableOf(u) = TableOf(w)
      <4>1. Routed(ProgramOf(w), o)
        BY <2>2 DEF ReadIsRouted
      <4>2. u = w
        BY <3>1, <4>1, OneWorker
      <4>3. o \notin dbatch'[w]
        BY <2>2 DEF Advance, TypeOK
      <4> QED
        BY <3>1, <4>2, <4>3
    <3>2. CASE p # o \/ TableOf(u) # TableOf(w)
      BY <2>1, <2>2, <3>2, WorkerTable DEF TypeOK
    <3> QED
      BY <3>1, <3>2
  <2> QED
    BY <1>2, <2>1, <2>2, WorkerTakes
<1>3. ASSUME NEW o \in Orders, MakeOrder(o) \/ ReDeal(o) PROVE BatchesWait'
  <2>1. UNCHANGED dbatch /\ \A t \in Table : receipt[t] \subseteq receipt'[t]
    BY <1>3 DEF MakeOrder, ReDeal, dealVars, destVars, TypeOK, Table
  <2> QED
    BY <1>1, <2>1
<1>4. ASSUME NEW m \in Mover,
             \/ TransferFetch(m) \/ TransferStep(m) \/ CommitDestFails(m)
             \/ TransferDies(m)
      PROVE  BatchesWait'
  <2>1. UNCHANGED dbatch
    BY <1>4 DEF TransferFetch, TransferStep, TransferMove, TransferRollback,
         CommitDest, CommitSource, CommitDestFails, TransferDies, dealVars
  <2>2. Received(m) \/ UNCHANGED receipt
    BY <1>4 DEF TransferFetch, TransferStep, TransferMove, TransferRollback,
         CommitDest, CommitSource, CommitDestFails, TransferDies, tables,
         destVars
  <2>3. \A t \in Table : receipt[t] \subseteq receipt'[t]
    BY <2>2 DEF Received, TypeOK, Table
  <2> QED
    BY <1>1, <2>1, <2>3
<1>5. CASE UNCHANGED vars
  BY <1>1, <1>5 DEF vars, tables
<1> QED
  BY <1>2, <1>3, <1>4, <1>5 DEF Next, WorkerStep

\* A step that leaves fewer calls, or no more than it pays for, is paid.
LEMMA PaidStep ==
    ASSUME TypeOK, TypeOK', CallsPaid, NEW p \in Orders \ DataOrders,
           RouteOnce(p),
           applied'[p] + CallsLeft(p)' + faults
               <= applied[p] + CallsLeft(p) + faults'
    PROVE  applied'[p] + CallsLeft(p)' <= 1 + faults'
<1>1. /\ faults \in Nat /\ faults' \in Nat
      /\ applied[p] \in Nat /\ applied'[p] \in Nat
  BY FaultsBound DEF TypeOK
<1>2. CallsLeft(p) \in Nat /\ CallsLeft(p)' \in Nat
  BY DEF CallsLeft, OneIf
<1>3. applied[p] + CallsLeft(p) <= 1 + faults
  BY DEF CallsPaid
<1> QED
  BY <1>1, <1>2, <1>3

\* A step that neither calls the service for an order nor brings a row of it
\* is paid, and one that does one of these by a fault.
LEMMA PaidKept ==
    ASSUME TypeOK, TypeOK', CallsPaid, NEW p \in Orders \ DataOrders,
           RouteOnce(p), applied'[p] = applied[p], faults' >= faults,
           Unsent(p)' => Unsent(p), p \in exc' => p \in exc,
           \/ \A t \in Table : Callable(t, p)' => Callable(t, p)
           \/ /\ faults' = faults + 1
              /\ \E r \in Table :
                     \A t \in Table \ {r} : Callable(t, p)' => Callable(t, p)
    PROVE  applied'[p] + CallsLeft(p)' <= 1 + faults'
<1>1. /\ faults \in Nat /\ faults' \in Nat
      /\ applied[p] \in Nat /\ applied'[p] \in Nat
  BY FaultsBound DEF TypeOK
<1>2. "NN" \in Table /\ "XX" \in Table
  BY DEF Table
<1>3. CallsLeft(p)' + faults <= CallsLeft(p) + faults'
  <2> DEFINE u == OneIf(Unsent(p))
             n == OneIf(Callable("NN", p))
             x == OneIf(Callable("XX", p))
             e == OneIf(p \in exc)
  <2>1. /\ u \in 0 .. 1 /\ n \in 0 .. 1 /\ x \in 0 .. 1 /\ e \in 0 .. 1
        /\ u' \in 0 .. 1 /\ n' \in 0 .. 1 /\ x' \in 0 .. 1 /\ e' \in 0 .. 1
    BY DEF OneIf
  <2>2. u' <= u /\ e' <= e
    BY DEF OneIf
  <2>3. /\ (Callable("NN", p)' => Callable("NN", p)) => n' <= n
        /\ (Callable("XX", p)' => Callable("XX", p)) => x' <= x
    BY DEF OneIf
  <2>4. CallsLeft(p) = u + n + x + e /\ CallsLeft(p)' = u' + n' + x' + e'
    BY DEF CallsLeft
  <2> HIDE DEF u, n, x, e
  <2>5. CASE \A t \in Table : Callable(t, p)' => Callable(t, p)
    <3>1. n' <= n /\ x' <= x
      BY <1>2, <2>3, <2>5
    <3> QED
      BY <1>1, <2>1, <2>2, <2>4, <3>1
  <2>6. ASSUME faults' = faults + 1, NEW r \in Table,
               \A t \in Table \ {r} : Callable(t, p)' => Callable(t, p)
        PROVE  CallsLeft(p)' + faults <= CallsLeft(p) + faults'
    <3>1. n' <= n \/ x' <= x
      BY <1>2, <2>3, <2>6 DEF Table
    <3> QED
      BY <1>1, <2>1, <2>2, <2>4, <2>6, <3>1
  <2> QED
    BY <2>5, <2>6
<1>4. CallsLeft(p) \in Nat /\ CallsLeft(p)' \in Nat
  BY DEF CallsLeft, OneIf
<1> QED
  BY <1>1, <1>3, <1>4, PaidStep

\* The four ways the service may yet be called for an order, one by one.
CallsAre(p, u, n, x, e) ==
    /\ u = OneIf(Unsent(p)) /\ n = OneIf(Callable("NN", p))
    /\ x = OneIf(Callable("XX", p)) /\ e = OneIf(p \in exc)

\* Each of them is open or not, before a step and after it.
LEMMA CallsTerms ==
    ASSUME NEW p
    PROVE  \E u \in 0 .. 1, n \in 0 .. 1, x \in 0 .. 1, e \in 0 .. 1,
              v \in 0 .. 1, o \in 0 .. 1, y \in 0 .. 1, f \in 0 .. 1 :
               CallsAre(p, u, n, x, e) /\ CallsAre(p, v, o, y, f)'
<1>1. \E u \in 0 .. 1, n \in 0 .. 1, x \in 0 .. 1, e \in 0 .. 1 :
          CallsAre(p, u, n, x, e)
  BY DEF CallsAre, OneIf
<1>2. \E v \in 0 .. 1, o \in 0 .. 1, y \in 0 .. 1, f \in 0 .. 1 :
          CallsAre(p, v, o, y, f)'
  BY DEF CallsAre, OneIf
<1> QED
  BY <1>1, <1>2

\* A step that takes away a row to call the service for takes away a call.
LEMMA CallSpent ==
    ASSUME NEW s \in Table, NEW p \in Orders, Unsent(p)' => Unsent(p),
           Callable(s, p), ~Callable(s, p)',
           \A t \in Table \ {s} : Callable(t, p)' => Callable(t, p)
    PROVE  CallsLeft(p)' + 1 + OneIf(p \in exc)
               <= CallsLeft(p) + OneIf(p \in exc)'
<1>1. PICK u \in 0 .. 1, n \in 0 .. 1, x \in 0 .. 1, e \in 0 .. 1,
           v \in 0 .. 1, o \in 0 .. 1, y \in 0 .. 1, f \in 0 .. 1 :
          CallsAre(p, u, n, x, e) /\ CallsAre(p, v, o, y, f)'
  BY CallsTerms
<1>2. CallsLeft(p) = u + n + x + e /\ CallsLeft(p)' = v + o + y + f
  BY <1>1 DEF CallsLeft, CallsAre
<1>3. v <= u
  BY <1>1 DEF CallsAre, OneIf
<1>4. OneIf(p \in exc) = e /\ OneIf(p \in exc)' = f
  BY <1>1 DEF CallsAre
<1>5. CASE s = "NN"
  <2>1. n = 1 /\ o = 0 /\ y <= x
    BY <1>1, <1>5 DEF CallsAre, OneIf, Table
  <2> QED
    BY <1>2, <1>3, <1>4, <2>1
<1>6. CASE s = "XX"
  <2>1. x = 1 /\ y = 0 /\ o <= n
    BY <1>1, <1>6 DEF CallsAre, OneIf, Table
  <2> QED
    BY <1>2, <1>3, <1>4, <2>1
<1> QED
  BY <1>5, <1>6 DEF Table

\* A step that brings no row and takes back no call leaves no more calls, nor
\* does one that moves the order from the source, or from the exceptions, to
\* the table it is dealt with in.
LEMMA CallsFewer ==
    ASSUME NEW p \in Orders,
           \/ /\ Unsent(p)' => Unsent(p)
              /\ p \in exc' => p \in exc
              /\ \A t \in Table : Callable(t, p)' => Callable(t, p)
           \/ /\ Unsent(p) /\ ~Unsent(p)'
              /\ p \in exc' => p \in exc
              /\ Callable("XX", p)' => Callable("XX", p)
           \/ /\ Unsent(p)' => Unsent(p)
              /\ p \in exc /\ p \notin exc'
              /\ Callable("NN", p)' => Callable("NN", p)
    PROVE  CallsLeft(p)' <= CallsLeft(p)
<1>1. PICK u \in 0 .. 1, n \in 0 .. 1, x \in 0 .. 1, e \in 0 .. 1,
           v \in 0 .. 1, o \in 0 .. 1, y \in 0 .. 1, f \in 0 .. 1 :
          CallsAre(p, u, n, x, e) /\ CallsAre(p, v, o, y, f)'
  BY CallsTerms
<1>2. CallsLeft(p) = u + n + x + e /\ CallsLeft(p)' = v + o + y + f
  BY <1>1 DEF CallsLeft, CallsAre
<1>3. \/ v <= u /\ o <= n /\ y <= x /\ f <= e
      \/ v = 0 /\ u = 1 /\ y <= x /\ f <= e
      \/ v <= u /\ o <= n /\ e = 1 /\ f = 0
  BY <1>1 DEF CallsAre, OneIf, Table
<1> QED
  BY <1>2, <1>3

\* A transaction of the source that is lost gives one call back.
LEMMA CallReturned ==
    ASSUME NEW p \in Orders, p \in exc' => p \in exc,
           \A t \in Table : Callable(t, p)' => Callable(t, p)
    PROVE  CallsLeft(p)' <= CallsLeft(p) + 1
<1>1. PICK u \in 0 .. 1, n \in 0 .. 1, x \in 0 .. 1, e \in 0 .. 1,
           v \in 0 .. 1, o \in 0 .. 1, y \in 0 .. 1, f \in 0 .. 1 :
          CallsAre(p, u, n, x, e) /\ CallsAre(p, v, o, y, f)'
  BY CallsTerms
<1>2. CallsLeft(p) = u + n + x + e /\ CallsLeft(p)' = v + o + y + f
  BY <1>1 DEF CallsLeft, CallsAre
<1>3. o <= n /\ y <= x /\ f <= e
  BY <1>1 DEF CallsAre, OneIf, Table
<1> QED
  BY <1>2, <1>3

\* What the dealing processes and the operator do to the calls of an order.
LEMMA CallsPaidWorker ==
    ASSUME TypeOK, TypeOK', CallsPaid, BatchesWait, ReadIsRouted,
           NEW w \in Worker, WorkerStep(w), NEW p \in Orders \ DataOrders,
           RouteOnce(p)
    PROVE  applied'[p] + CallsLeft(p)' <= 1 + faults'
<1>1. PICK s : s = TableOf(w)
  OBVIOUS
<1>2. /\ s \in Table /\ \A t \in Table : receipt[t] \subseteq Orders
      /\ faults \in Nat /\ faults' \in Nat /\ applied[p] \in Nat
      /\ applied \in [Orders -> Nat]
      /\ receipt = [t \in Table |-> receipt[t]]
  BY <1>1, WorkerTable, FaultsBound DEF TypeOK
<1>3. Unsent(p)' <=> Unsent(p)
  BY WorkerLocal DEF Unsent, sourceVars, transferVars
<1>4. \A u \in Worker \ {w} : Called(u, p)' <=> Called(u, p)
  BY WorkerLocal DEF Called, Current
<1>5. ASSUME applied'[p] = applied[p], p \in exc' => p \in exc,
             \A t \in Table : receipt'[t] \subseteq receipt[t],
             \/ faults' >= faults /\ (Called(w, p) => Called(w, p)')
             \/ faults' = faults + 1
      PROVE  applied'[p] + CallsLeft(p)' <= 1 + faults'
  <2>1. \A t \in Table \ {s} : Callable(t, p)' => Callable(t, p)
    BY <1>1, <1>4, <1>5 DEF Callable
  <2>2. CASE faults' >= faults /\ (Called(w, p) => Called(w, p)')
    <3>1. \A t \in Table : Callable(t, p)' => Callable(t, p)
      BY <1>4, <1>5, <2>2 DEF Callable
    <3> QED
      BY <1>3, <1>5, <2>2, <3>1, PaidKept
  <2>3. CASE faults' = faults + 1
    BY <1>2, <1>3, <1>5, <2>1, <2>3, PaidKept
  <2> QED
    BY <1>5, <2>2, <2>3
<1>6. CASE DealFetch(w) \/ DealDies(w)
  <2>1. /\ UNCHANGED <<applied, exc, receipt>>
        /\ \/ faults' = faults /\ dpc[w] # "called"
           \/ faults' = faults + 1
    BY <1>6 DEF DealFetch, DealDies, tables, Fault
  <2> QED
    BY <1>2, <1>5, <2>1 DEF Called
<1>7. ASSUME NEW o \in Orders, ReadOrder(w, o) \/ SkipOrder(w, o)
      PROVE  applied'[p] + CallsLeft(p)' <= 1 + faults'
  <2>1. /\ UNCHANGED <<applied, exc, receipt>> /\ dpc[w] # "called"
        /\ faults' = faults \/ faults' = faults + 1
    BY <1>7 DEF ReadOrder, SkipOrder, tables, Fault
  <2> QED
    BY <1>2, <1>5, <2>1 DEF Called
<1>8. ASSUME NEW o \in Orders, RecordTooLate(w, o)
      PROVE  applied'[p] + CallsLeft(p)' <= 1 + faults'
  <2>1. /\ UNCHANGED <<applied, exc, receipt, faults>> /\ Current(w, o)
        /\ dpc[w] \in {"read", "called", "failed"} /\ o \notin receipt[s]
        /\ o \in dbatch[w]
    BY <1>1, <1>8 DEF RecordTooLate, Recording, tables, Current
  <2>2. p # o
    <3>1. Routed(ProgramOf(w), o)
      BY <2>1 DEF ReadIsRouted
    <3> QED
      BY <1>1, <2>1, <3>1 DEF BatchesWait
  <2>3. ~Called(w, p)
    BY <2>1, <2>2, CurrentUnique DEF Called
  <2> QED
    BY <1>2, <1>5, <2>1, <2>3
<1>9. ASSUME NEW o \in Orders, RecordFails(w, o)
      PROVE  applied'[p] + CallsLeft(p)' <= 1 + faults'
  <2>1. UNCHANGED <<applied, exc, receipt>> /\ faults' = faults + 1
    BY <1>9 DEF RecordFails, tables, Fault
  <2> QED
    BY <1>5, <2>1
<1>10. ASSUME NEW o \in Orders, o # p, Current(w, o),
              DealDataOrder(w, o) \/ DataOrderFails(w, o) \/ RecordCall(w, o)
       PROVE  applied'[p] + CallsLeft(p)' <= 1 + faults'
  <2>1. ~Called(w, p)
    BY <1>10, CurrentUnique DEF Called
  <2>2. /\ receipt' = [receipt EXCEPT ![s] = @ \ {o}]
        /\ applied'[p] = applied[p] /\ (p \in exc' => p \in exc)
        /\ faults' = faults \/ faults' = faults + 1
    BY <1>1, <1>2, <1>10 DEF DealDataOrder, DataOrderFails, RecordCall,
       RecordDone, RecordException, Fault
  <2>3. \A t \in Table : receipt'[t] \subseteq receipt[t]
    BY <1>2, <2>2
  <2> QED
    BY <1>2, <1>5, <2>1, <2>2, <2>3
<1>11. ASSUME NEW o \in Orders, o = p, RecordCall(w, o)
       PROVE  applied'[p] + CallsLeft(p)' <= 1 + faults'
  <2>1. /\ applied' = applied /\ Current(w, p)
        /\ receipt' = [receipt EXCEPT ![s] = @ \ {p}]
        /\ faults' = faults \/ faults' = faults + 1
        /\ \/ dpc[w] = "called" /\ exc' = exc
           \/ /\ dpc[w] = "failed" /\ p \in receipt[s]
    BY <1>1, <1>11 DEF RecordCall, RecordDone, RecordException, Fault
  <2>2. p \notin receipt'[s] /\ \A t \in Table \ {s} : receipt'[t] = receipt[t]
    BY <1>2, <2>1
  <2>3. ~Callable(s, p)'
    BY <2>2 DEF Callable
  <2>4. \A t \in Table \ {s} : Callable(t, p)' => Callable(t, p)
    BY <1>1, <1>4, <2>2 DEF Callable
  <2>5. CASE exc' = exc
    BY <1>2, <1>3, <2>1, <2>3, <2>4, <2>5, PaidKept
  <2>6. CASE dpc[w] = "failed" /\ p \in receipt[s]
    <3>1. Callable(s, p)
      <4>1. Routed(ProgramOf(w), p)
        BY <2>1, <2>6 DEF ReadIsRouted
      <4>2. ASSUME NEW u \in Worker, TableOf(u) = s, Called(u, p) PROVE FALSE
        <5>1. Routed(ProgramOf(u), p)
          BY <4>2 DEF Called, ReadIsRouted
        <5>2. u = w
          BY <1>1, <4>1, <4>2, <5>1, OneWorker
        <5> QED
          BY <2>6, <4>2, <5>2 DEF Called
      <4> QED
        BY <2>6, <4>2 DEF Callable
    <3>2. CallsLeft(p)' + 1 + OneIf(p \in exc)
              <= CallsLeft(p) + OneIf(p \in exc)'
      BY <1>1, <1>2, <1>3, <2>3, <2>4, <3>1, CallSpent
    <3>3. /\ OneIf(p \in exc) \in 0 .. 1 /\ OneIf(p \in exc)' \in 0 .. 1
          /\ CallsLeft(p) \in Nat /\ CallsLeft(p)' \in Nat
      BY DEF CallsLeft, OneIf
    <3>4. applied'[p] = applied[p] /\ (faults' = faults \/ faults' = faults + 1)
      BY <2>1
    <3>5. CallsLeft(p)' <= CallsLeft(p)
      BY <3>2, <3>3
    <3>6. applied'[p] + CallsLeft(p)' + faults
              <= applied[p] + CallsLeft(p) + faults'
      BY <1>2, <3>3, <3>4, <3>5
    <3> QED
      BY <3>6, PaidStep
  <2> QED
    BY <2>1, <2>5, <2>6
<1>12. ASSUME NEW o \in Orders, o = p, CallService(w, o)
       PROVE  applied'[p] + CallsLeft(p)' <= 1 + faults'
  <2>1. /\ receipt' = receipt /\ exc' = exc /\ dbatch' = dbatch
        /\ Current(w, p) /\ dpc[w] = "read"
        /\ \/ /\ applied' = [applied EXCEPT ![p] = @ + 1]
              /\ dpc' = [dpc EXCEPT ![w] = "called"] /\ faults' = faults
           \/ /\ applied' = applied
              /\ dpc' = [dpc EXCEPT ![w] = "failed"] /\ faults' = faults
           \/ /\ applied' = [applied EXCEPT ![p] = @ + 1]
              /\ dpc' = [dpc EXCEPT ![w] = "failed"] /\ faults' = faults + 1
    BY <1>12 DEF CallService, Fault
  <2>2. ~Called(w, p) /\ Current(w, p)'
    BY <2>1 DEF Called, Current
  <2>3. \A t \in Table \ {s} : Callable(t, p)' => Callable(t, p)
    BY <1>1, <1>4, <2>1 DEF Callable
  <2>4. CASE applied' = [applied EXCEPT ![p] = @ + 1] /\ faults' = faults
             /\ dpc' = [dpc EXCEPT ![w] = "called"]
    <3>1. Routed(ProgramOf(w), p)
      BY <2>1 DEF ReadIsRouted
    <3>2. p \in receipt[s]
      BY <1>1, <2>1, <3>1 DEF BatchesWait, Current
    <3>3. ASSUME NEW u \in Worker, TableOf(u) = s, Called(u, p) PROVE FALSE
      <4>1. Routed(ProgramOf(u), p)
        BY <3>3 DEF Called, ReadIsRouted
      <4>2. u = w
        BY <1>1, <3>1, <3>3, <4>1, OneWorker
      <4> QED
        BY <2>2, <3>3, <4>2
    <3>4. Callable(s, p)
      BY <3>2, <3>3 DEF Callable
    <3>5. Called(w, p)'
      BY <2>2, <2>4 DEF Called, TypeOK
    <3>6. ~Callable(s, p)'
      BY <1>1, <3>5 DEF Callable
    <3>7. CallsLeft(p)' + 1 + OneIf(p \in exc)
              <= CallsLeft(p) + OneIf(p \in exc)'
      BY <1>1, <1>2, <1>3, <2>3, <3>4, <3>6, CallSpent
    <3>8. /\ OneIf(p \in exc) \in 0 .. 1
          /\ OneIf(p \in exc)' = OneIf(p \in exc)
          /\ CallsLeft(p) \in Nat /\ CallsLeft(p)' \in Nat
      BY <2>1 DEF CallsLeft, OneIf
    <3>9. applied'[p] = applied[p] + 1 /\ faults' = faults
      BY <1>2, <2>4
    <3>10. CallsLeft(p)' + 1 <= CallsLeft(p)
      BY <3>7, <3>8
    <3>11. applied'[p] + CallsLeft(p)' + faults
              <= applied[p] + CallsLeft(p) + faults'
      BY <1>2, <3>8, <3>9, <3>10
    <3> QED
      BY <3>11, PaidStep
  <2>6. ASSUME dpc' = [dpc EXCEPT ![w] = "failed"]
        PROVE  CallsLeft(p)' <= CallsLeft(p)
    <3>1. \A u \in Worker : Called(u, p) => Called(u, p)'
      BY <1>4, <2>2
    <3>2. \A t \in Table : Callable(t, p)' => Callable(t, p)
      BY <2>1, <3>1 DEF Callable
    <3> QED
      BY <1>3, <2>1, <3>2, CallsFewer
  <2>7. CASE applied' = applied /\ faults' = faults
             /\ dpc' = [dpc EXCEPT ![w] = "failed"]
    <3>1. CallsLeft(p) \in Nat /\ CallsLeft(p)' \in Nat
      BY DEF CallsLeft, OneIf
    <3>2. applied'[p] = applied[p] /\ faults' = faults
      BY <2>7
    <3>3. applied'[p] + CallsLeft(p)' + faults
              <= applied[p] + CallsLeft(p) + faults'
      BY <1>2, <2>6, <2>7, <3>1, <3>2
    <3> QED
      BY <3>3, PaidStep
  <2>8. CASE applied' = [applied EXCEPT ![p] = @ + 1] /\ faults' = faults + 1
             /\ dpc' = [dpc EXCEPT ![w] = "failed"]
    <3>1. CallsLeft(p) \in Nat /\ CallsLeft(p)' \in Nat
      BY DEF CallsLeft, OneIf
    <3>2. applied'[p] = applied[p] + 1 /\ faults' = faults + 1
      BY <1>2, <2>8
    <3>3. applied'[p] + CallsLeft(p)' + faults
              <= applied[p] + CallsLeft(p) + faults'
      BY <1>2, <2>6, <2>8, <3>1, <3>2
    <3> QED
      BY <3>3, PaidStep
  <2> QED
    BY <2>1, <2>4, <2>7, <2>8
<1>13. ASSUME NEW o \in Orders, o # p, CallService(w, o)
       PROVE  applied'[p] + CallsLeft(p)' <= 1 + faults'
  <2>1. ~Called(w, p)
    BY <1>13 DEF CallService, Called
  <2>2. /\ receipt' = receipt /\ exc' = exc
        /\ faults' = faults \/ faults' = faults + 1
    BY <1>13 DEF CallService, Fault
  <2>3. applied'[p] = applied[p]
    BY <1>2, <1>13 DEF CallService
  <2> QED
    BY <1>2, <1>5, <2>1, <2>2, <2>3
<1>14. ASSUME NEW o \in Orders, DealOrder(w, o)
       PROVE  applied'[p] + CallsLeft(p)' <= 1 + faults'
  <2>1. CASE DealDataOrder(w, o) \/ DataOrderFails(w, o)
    <3>1. o # p /\ Current(w, o)
      BY <2>1 DEF DealDataOrder, DataOrderFails
    <3> QED
      BY <1>10, <1>14, <2>1, <3>1
  <2>2. CASE RecordCall(w, o)
    <3>1. Current(w, o)
      BY <2>2 DEF RecordCall
    <3> QED
      BY <1>10, <1>11, <1>14, <2>2, <3>1
  <2> QED
    BY <1>7, <1>8, <1>12, <1>13, <1>14, <2>1, <2>2 DEF DealOrder
<1> QED
  BY <1>6, <1>9, <1>14 DEF WorkerStep, DealStep

\* What making orders, transferring them and sending exceptions back do to the
\* calls of an order: the two commits of a transfer trade the row in the source
\* for the one at the destination, and only a lost transaction gives it back.
LEMMA CallsPaidSource ==
    ASSUME TypeOK, TypeOK', BatchesLocked, send \subseteq made, CallsPaid,
           NEW p \in Orders \ DataOrders, RouteOnce(p),
           UNCHANGED <<applied, dealVars>>,
           \/ \E o \in Orders : MakeOrder(o) \/ ReDeal(o)
           \/ \E m \in Mover : \/ TransferFetch(m) \/ TransferStep(m)
                               \/ CommitDestFails(m) \/ TransferDies(m)
    PROVE  applied'[p] + CallsLeft(p)' <= 1 + faults'
<1>1. /\ faults \in Nat /\ faults' \in Nat /\ applied'[p] = applied[p]
      /\ applied[p] \in Nat /\ p \in Orders
      /\ CallsLeft(p) \in Nat /\ CallsLeft(p)' \in Nat
  BY FaultsBound DEF TypeOK, CallsLeft, OneIf
<1>2. \A w \in Worker : Called(w, p)' <=> Called(w, p)
  BY DEF Called, Current, dealVars
<1>3. \A t \in Table : (p \in receipt'[t] => p \in receipt[t])
          => (Callable(t, p)' => Callable(t, p))
  BY <1>2 DEF Callable
<1>4. ASSUME CallsLeft(p)' <= CallsLeft(p), faults' = faults
      PROVE  applied'[p] + CallsLeft(p)' <= 1 + faults'
  <2>1. applied'[p] + CallsLeft(p)' + faults
            <= applied[p] + CallsLeft(p) + faults'
    BY <1>1, <1>4
  <2> QED
    BY <2>1, PaidStep
<1>5. ASSUME CallsLeft(p)' <= CallsLeft(p) + 1, faults' = faults + 1
      PROVE  applied'[p] + CallsLeft(p)' <= 1 + faults'
  <2>1. applied'[p] + CallsLeft(p)' + faults
            <= applied[p] + CallsLeft(p) + faults'
    BY <1>1, <1>5
  <2> QED
    BY <2>1, PaidStep
<1>6. ASSUME NEW o \in Orders, MakeOrder(o)
      PROVE  applied'[p] + CallsLeft(p)' <= 1 + faults'
  <2>1. /\ o \notin made /\ made' = made \cup {o} /\ send' = send \cup {o}
        /\ UNCHANGED <<receipt, exc, tpc, tbatch, faults>>
    BY <1>6 DEF MakeOrder, destVars, transferVars
  <2>2. Unsent(p)' => Unsent(p)
    BY <2>1 DEF Unsent
  <2> QED
    BY <1>1, <1>3, <1>4, <2>1, <2>2, CallsFewer
<1>7. ASSUME NEW o \in Orders, ReDeal(o)
      PROVE  applied'[p] + CallsLeft(p)' <= 1 + faults'
  <2>1. /\ UNCHANGED <<made, send, tpc, tbatch, faults>>
        /\ o \in exc /\ exc' = exc \ {o}
        /\ receipt' = [receipt EXCEPT !["XX"] = @ \cup {o}]
    BY <1>7 DEF ReDeal, sourceVars, transferVars
  <2>2. Unsent(p)' => Unsent(p)
    BY <2>1 DEF Unsent
  <2>3. \A t \in Table : t = "NN" \/ o # p
                            => (p \in receipt'[t] => p \in receipt[t])
    BY <2>1 DEF TypeOK, Table
  <2>4. \A t \in Table : t = "NN" \/ o # p => (Callable(t, p)' => Callable(t, p))
    BY <1>3, <2>3
  <2>5. CASE o = p
    BY <1>1, <1>4, <2>1, <2>2, <2>4, <2>5, CallsFewer DEF Table
  <2>6. CASE o # p
    BY <1>1, <1>4, <2>1, <2>2, <2>4, <2>6, CallsFewer
  <2> QED
    BY <2>5, <2>6
<1>8. ASSUME NEW m \in Mover,
             TransferFetch(m) \/ TransferMove(m) \/ TransferRollback(m)
      PROVE  applied'[p] + CallsLeft(p)' <= 1 + faults'
  <2>1. /\ UNCHANGED <<made, send, receipt, exc>>
        /\ faults' = faults \/ faults' = faults + 1
    BY <1>8 DEF TransferFetch, TransferMove, TransferRollback, tables, Fault
  <2>2. \A n \in Mover : tpc[n] = "received"
                             => tpc'[n] = "received" /\ tbatch'[n] = tbatch[n]
    BY <1>8 DEF TransferFetch, TransferMove, TransferRollback, EndTransfer,
                TypeOK
  <2>3. Unsent(p)' => Unsent(p)
    BY <2>1, <2>2 DEF Unsent
  <2>4. CallsLeft(p)' <= CallsLeft(p)
    BY <1>1, <1>3, <2>1, <2>3, CallsFewer
  <2>5. CallsLeft(p)' <= CallsLeft(p) + 1
    BY <1>1, <2>4
  <2> QED
    BY <1>4, <1>5, <2>1, <2>4, <2>5
<1>9. ASSUME NEW m \in Mover, CommitDest(m)
      PROVE  applied'[p] + CallsLeft(p)' <= 1 + faults'
  <2>1. /\ UNCHANGED <<made, send, exc, tbatch, faults>> /\ tpc[m] = "moved"
        /\ tpc' = [tpc EXCEPT ![m] = "received"]
        /\ receipt' = [receipt EXCEPT !["NN"] = @ \cup tbatch[m]]
    BY <1>9 DEF CommitDest, Received, sourceVars
  <2>2. CASE p \in tbatch[m]
    <3>1. Holding(m) /\ p \in send /\ p \in made
      BY <2>1, <2>2 DEF BatchesLocked, Holding
    <3>2. \A n \in Mover : tpc[n] = "received" => p \notin tbatch[n]
      BY <2>1, <2>2, <3>1 DEF BatchesLocked, Holding
    <3>3. Unsent(p) /\ ~Unsent(p)'
      BY <2>1, <2>2, <3>1, <3>2 DEF Unsent, TypeOK
    <3>4. Callable("XX", p)' => Callable("XX", p)
      BY <1>3, <2>1 DEF TypeOK, Table
    <3> QED
      BY <1>1, <1>4, <2>1, <3>3, <3>4, CallsFewer
  <2>3. CASE p \notin tbatch[m]
    <3>1. \A t \in Table : p \in receipt'[t] => p \in receipt[t]
      BY <2>1, <2>3 DEF TypeOK, Table
    <3>2. Unsent(p)' => Unsent(p)
      BY <2>1 DEF Unsent, TypeOK
    <3> QED
      BY <1>1, <1>3, <1>4, <2>1, <3>1, <3>2, CallsFewer
  <2> QED
    BY <2>2, <2>3
<1>10. ASSUME NEW m \in Mover, CommitDestFails(m)
       PROVE  applied'[p] + CallsLeft(p)' <= 1 + faults'
  <2>1. /\ UNCHANGED <<made, send, exc>> /\ tpc[m] = "moved"
        /\ faults' = faults + 1 /\ EndTransfer(m)
        /\ receipt'["XX"] = receipt["XX"]
    BY <1>10 DEF CommitDestFails, Received, sourceVars, destVars, Fault, Table,
                 TypeOK
  <2>2. \A n \in Mover : tpc[n] = "received"
                             => tpc'[n] = "received" /\ tbatch'[n] = tbatch[n]
    BY <2>1 DEF EndTransfer, TypeOK
  <2>3. Unsent(p)' => Unsent(p)
    BY <2>1, <2>2 DEF Unsent
  <2>4. \A t \in Table \ {"NN"} : Callable(t, p)' => Callable(t, p)
    BY <1>3, <2>1 DEF Table
  <2> QED
    BY <1>1, <2>1, <2>3, <2>4, PaidKept DEF Table
<1>11. ASSUME NEW m \in Mover, CommitSource(m)
       PROVE  applied'[p] + CallsLeft(p)' <= 1 + faults'
  <2>1. /\ UNCHANGED <<made, receipt, exc, faults>> /\ tpc[m] = "received"
        /\ send' = send \ tbatch[m] /\ EndTransfer(m)
    BY <1>11 DEF CommitSource, destVars
  <2>2. Unsent(p)' => Unsent(p)
    BY <2>1 DEF Unsent, EndTransfer, TypeOK
  <2> QED
    BY <1>1, <1>3, <1>4, <2>1, <2>2, CallsFewer
<1>12. ASSUME NEW m \in Mover, TransferDies(m)
       PROVE  applied'[p] + CallsLeft(p)' <= 1 + faults'
  <2>1. UNCHANGED <<receipt, exc>> /\ faults' = faults + 1
    BY <1>12 DEF TransferDies, tables, Fault
  <2>2. CallsLeft(p)' <= CallsLeft(p) + 1
    BY <1>1, <1>3, <2>1, CallReturned
  <2> QED
    BY <1>5, <2>1, <2>2
<1> QED
  BY <1>6, <1>7, <1>8, <1>9, <1>10, <1>11, <1>12 DEF TransferStep

\* The invariant of the calls is inductive.
LEMMA RepeatInvStep ==
    ASSUME TypeOK, TypeOK', BatchesLocked, RepeatInv, [Next]_vars
    PROVE  RepeatInv'
<1>1. (send \subseteq made)'
  <2>1. ASSUME NEW m \in Mover,
               \/ TransferFetch(m) \/ TransferStep(m) \/ CommitDestFails(m)
               \/ TransferDies(m)
        PROVE  made' = made /\ send' \subseteq send
    BY <2>1 DEF TransferFetch, TransferStep, TransferMove, TransferRollback,
       CommitDest, CommitSource, CommitDestFails, TransferDies, tables,
       sourceVars
  <2>2. ASSUME NEW w \in Worker, WorkerStep(w) PROVE UNCHANGED <<made, send>>
    BY <2>2, WorkerLocal DEF sourceVars
  <2>3. ASSUME NEW o \in Orders, MakeOrder(o) \/ ReDeal(o)
        PROVE  \/ made' = made /\ send' = send
               \/ made' = made \cup {o} /\ send' = send \cup {o}
    BY <2>3 DEF MakeOrder, ReDeal, sourceVars
  <2>4. CASE UNCHANGED vars
    BY <2>4 DEF RepeatInv, vars, tables
  <2> QED
    BY <2>1, <2>2, <2>3, <2>4 DEF RepeatInv, Next, WorkerStep
<1>2. ReadIsRouted' /\ BatchesWait'
  BY ReadIsRoutedStep, BatchesWaitStep DEF RepeatInv
<1>3. CallsPaid'
  <2> SUFFICES ASSUME NEW p \in Orders \ DataOrders, RouteOnce(p)
               PROVE  applied'[p] + CallsLeft(p)' <= 1 + faults'
    BY DEF CallsPaid
  <2>1. CASE \E w \in Worker : WorkerStep(w)
    BY <2>1, CallsPaidWorker DEF RepeatInv
  <2>2. CASE \/ \E o \in Orders : MakeOrder(o) \/ ReDeal(o)
             \/ \E m \in Mover : \/ TransferFetch(m) \/ TransferStep(m)
                                 \/ CommitDestFails(m) \/ TransferDies(m)
    <3>1. UNCHANGED <<applied, dealVars>>
      BY <2>2 DEF MakeOrder, ReDeal, TransferFetch, TransferStep, TransferMove,
         TransferRollback, CommitDest, CommitSource, CommitDestFails,
         TransferDies, Received, tables, destVars
    <3> QED
      BY <2>2, <3>1, CallsPaidSource DEF RepeatInv
  <2>3. CASE UNCHANGED vars
    <3>1. /\ UNCHANGED <<applied, faults>>
          /\ CallsLeft(p)' = CallsLeft(p)
      BY <2>3 DEF vars, tables, CallsLeft, Unsent, Callable, Called, Current
    <3> QED
      BY <3>1 DEF RepeatInv, CallsPaid
  <2> QED
    BY <2>1, <2>2, <2>3 DEF Next, WorkerStep
<1> QED
  BY <1>1, <1>2, <1>3 DEF RepeatInv

-----------------------------------------------------------------------------
\* The inductive invariant holds in every reachable state.
THEOREM InvariantHolds == Spec => []IInv
<1>1. Init => TransferInv /\ DealInv /\ RepeatInv
  <2> SUFFICES ASSUME Init PROVE TransferInv /\ DealInv /\ RepeatInv
    OBVIOUS
  <2>1. TransferInv
    BY DEF Init, TransferInv, BatchesLocked, Holding, ReceivedInBoth,
           DetailsAtSource, SentIsReceived
  <2>2. DetailsFollow
    BY DEF Init, DetailsFollow, Table
  <2>3. EffectDone /\ DataEffectRecorded
    BY OrdersAssumption DEF Init, EffectDone, DataEffectRecorded
  <2>4. send \subseteq made /\ BatchesWait /\ ReadIsRouted
    BY DEF Init, BatchesWait, ReadIsRouted
  <2>5. CallsPaid
    <3> SUFFICES ASSUME NEW p \in Orders \ DataOrders
                 PROVE  applied[p] + CallsLeft(p) <= 1 + faults
      BY DEF CallsPaid
    <3>1. /\ applied[p] = 0 /\ faults = 0 /\ p \notin exc
          /\ ~Callable("NN", p) /\ ~Callable("XX", p)
      BY DEF Init, Callable, Table
    <3>2. OneIf(Unsent(p)) \in 0 .. 1 /\ CallsLeft(p) = OneIf(Unsent(p))
      BY <3>1 DEF CallsLeft, OneIf
    <3> QED
      BY <3>1, <3>2
  <2> QED
    BY <2>1, <2>2, <2>3, <2>4, <2>5 DEF DealInv, RepeatInv
<1>2. TypeOK /\ TypeOK' /\ TransferInv /\ DealInv /\ RepeatInv /\ [Next]_vars
         => TransferInv' /\ DealInv' /\ RepeatInv'
  <2>1. TransferInv => BatchesLocked
    BY DEF TransferInv
  <2> QED
    BY <2>1, TransferInvStep, DealInvStep, RepeatInvStep
<1>3. TypeOK /\ TransferInv /\ DealInv /\ RepeatInv => IInv
  BY DEF IInv, TransferInv, DealInv, NoOrderLost, EffectDone, TypeOK
<1> QED
  BY <1>1, <1>2, <1>3, TypeCorrect, PTL DEF Spec

\* No order is lost, whatever crashes and failures happen.
THEOREM NoOrderLostHolds == Spec => []NoOrderLost
<1>1. IInv => NoOrderLost
  BY DEF IInv
<1> QED
  BY <1>1, InvariantHolds, PTL

\* The source's history never claims more than the destination has.
THEOREM SentIsReceivedHolds == Spec => []SentIsReceived
<1>1. IInv => SentIsReceived
  BY DEF IInv
<1> QED
  BY <1>1, InvariantHolds, PTL

\* A history row at the destination stands for an effect that has happened.
THEOREM HistoryIsTrueHolds == Spec => []HistoryIsTrue
<1>1. IInv => HistoryIsTrue
  BY DEF IInv, EffectDone, HistoryIsTrue
<1> QED
  BY <1>1, InvariantHolds, PTL

\* A data order has its effect at most once.
THEOREM DataOrderOnceHolds == Spec => []DataOrderOnce
<1>1. IInv => DataOrderOnce
  BY DEF IInv, DataEffectRecorded, DataOrderOnce
<1> QED
  BY <1>1, InvariantHolds, PTL

\* An order that waits at the destination has its detail rows there.
THEOREM DetailsFollowHolds == Spec => []DetailsFollow
<1>1. IInv => DetailsFollow
  BY DEF IInv
<1> QED
  BY <1>1, InvariantHolds, PTL

\* A business order's effect is repeated at most as often as there were
\* faults, whoever transfers it and however many programs fetch it.
THEOREM BusiOrderRepeatsHolds == Spec => []BusiOrderRepeats
<1>1. IInv => BusiOrderRepeats
  <2> SUFFICES ASSUME IInv, NEW o \in Orders \ DataOrders, RouteOnce(o)
               PROVE  applied[o] <= 1 + faults
    BY DEF BusiOrderRepeats
  <2>1. applied[o] + CallsLeft(o) <= 1 + faults
    BY DEF IInv, RepeatInv, CallsPaid
  <2>2. CallsLeft(o) \in Nat
    BY DEF CallsLeft, OneIf
  <2>3. applied[o] \in Nat /\ faults \in Nat
    BY FaultsBound DEF IInv, TypeOK
  <2> QED
    BY <2>1, <2>2, <2>3
<1> QED
  BY <1>1, InvariantHolds, PTL
=============================================================================
