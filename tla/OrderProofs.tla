------------------------------ MODULE OrderProofs ------------------------------
(***************************************************************************)
(* Theorems about OrderController, for any bounds: its typing, whose       *)
(* difficulty is that the indices the controller computes exist; the bound *)
(* on the number of tickets of an order that keeps all of them; which      *)
(* tickets are taken away; and that the controller overlooks no change.    *)
(***************************************************************************)
EXTENDS OrderController, FiniteSetTheorems, TLAPS

------------------------------------------------------------------------------
(* Counting *)

Expired(list) == InPhase(list, "Expired")

LEMMA IndexFinite == Index \subseteq Nat /\ IsFiniteSet(Index)
<1>1. MaxReplicas + MaxChanges - 1 \in Int
  BY OrderBoundAssumption
<1> QED
  BY <1>1, FS_Interval DEF Index

LEMMA IndexSubset ==
  ASSUME NEW S, S \subseteq Index
  PROVE  IsFiniteSet(S) /\ Cardinality(S) \in Nat
  BY IndexFinite, FS_Subset, FS_CardinalityType

\* Every ticket counts as active or as expired, and never as both.
LEMMA Counts ==
  ASSUME NEW list
  PROVE  /\ Cardinality(OwnedTickets(list)) \in Nat
         /\ Cardinality(ActiveTickets(list)) \in Nat
         /\ Cardinality(Expired(list)) \in Nat
         /\ Cardinality(OwnedTickets(list))
               = Cardinality(ActiveTickets(list)) + Cardinality(Expired(list))
<1> DEFINE O == OwnedTickets(list)  A == ActiveTickets(list)  E == Expired(list)
<1>1. O \subseteq Index /\ A \subseteq Index /\ E \subseteq Index
  BY DEF OwnedTickets, ActiveTickets, Expired, InPhase
<1>2. A \cup E = O /\ A \cap E = {}
  BY DEF OwnedTickets, ActiveTickets, Expired, InPhase
<1>3. /\ IsFiniteSet(A) /\ IsFiniteSet(E)
      /\ Cardinality(A) \in Nat /\ Cardinality(E) \in Nat /\ Cardinality(O) \in Nat
  BY <1>1, IndexSubset
<1>4. Cardinality(A \cup E) = Cardinality(A) + Cardinality(E) - Cardinality(A \cap E)
  BY <1>3, FS_Union
<1>5. Cardinality(A \cap E) = 0
  BY <1>2, FS_EmptySet
<1> HIDE DEF O, A, E
<1>6. Cardinality(O) = Cardinality(A) + Cardinality(E)
  BY <1>2, <1>3, <1>4, <1>5
<1> QED
  BY <1>3, <1>6 DEF O, A, E

LEMMA StatusTyped == ASSUME NEW list PROVE StatusOf(list) \in Status
<1>1. Cardinality(InPhase(list, "Pending")) \in Nat
  BY IndexSubset DEF InPhase, OwnedTickets
<1>2. Cardinality(InPhase(list, "Expired")) \in Nat
  BY Counts DEF Expired
<1> QED
  BY <1>1, <1>2, Counts DEF StatusOf, Status

\* The names of new tickets lie below the replicas and the expired tickets.
LEMMA NewIndicesBelow ==
  ASSUME orderCache.replicas \in Nat, NEW i \in NewIndices
  PROVE  i \in Nat /\ i < orderCache.replicas + Cardinality(Expired(ticketCache))
<1> DEFINE n == Cardinality(OwnedTickets(ticketCache))
           a == Cardinality(ActiveTickets(ticketCache))
           e == Cardinality(Expired(ticketCache))
<1>1. n \in Nat /\ a \in Nat /\ e \in Nat /\ n = a + e
  BY Counts
<1>2. i \in n .. n + (orderCache.replicas - a) - 1
  BY DEF NewIndices, Missing
<1> HIDE DEF n, a, e
<1>3. i \in Nat /\ i < orderCache.replicas + e
  BY <1>1, <1>2
<1> QED
  BY <1>3 DEF e

------------------------------------------------------------------------------
(* Typing *)

\* Every expiry is one of the changes that the surroundings make.
ExpiriesCounted ==
    /\ Cardinality(Expired(tickets)) <= changes
    /\ Cardinality(Expired(ticketCache)) <= changes

IInv == TypeOK /\ ExpiriesCounted

LEMMA BlankTyped ==
  /\ BlankOrder \in OrderObject /\ NoTicket \in TicketObject /\ NoStatus \in Status
  BY OrderBoundAssumption
     DEF BlankOrder, OrderObject, NoStatus, Status, NoTicket, TicketObject, Phases

LEMMA InitIInv == Init => IInv
<1> SUFFICES ASSUME Init PROVE IInv
  OBVIOUS
<1>1. TypeOK
  <2>1. tickets \in [Index -> TicketObject] /\ ticketCache \in [Index -> TicketObject]
    BY BlankTyped DEF Init
  <2>2. changes \in 0..MaxChanges /\ faults \in 0..MaxFaults
    BY OrderBoundAssumption DEF Init
  <2>3. worker \in {Resting} \cup Reconciliation /\ queued \in BOOLEAN
    BY DEF Init
  <2> QED
    BY <2>1, <2>2, <2>3, BlankTyped DEF Init, TypeOK
<1>2. Expired(tickets) = {} /\ ticketCache = tickets
  BY DEF Init, Expired, InPhase, OwnedTickets, Exists, NoTicket
<1>3. Cardinality(Expired(tickets)) = 0
  BY <1>2, FS_EmptySet
<1> QED
  BY <1>1, <1>2, <1>3 DEF IInv, ExpiriesCounted, Init

\* A write to the API server keeps the type of the stored order.
LEMMA StoreTyped ==
  ASSUME TypeOK, NEW obj \in OrderObject, StoreOrder(obj)
  PROVE  order' \in OrderObject
<1>1. order.rv + 1 \in Nat
  <2>1. order \in OrderObject
    BY DEF TypeOK
  <2>2. order.rv \in Nat
    BY <2>1 DEF OrderObject
  <2> QED
    BY <2>2
<1>2. [obj EXCEPT !.rv = order.rv + 1] \in OrderObject
  BY <1>1 DEF OrderObject
<1> QED
  BY <1>2 DEF StoreOrder, TypeOK

LEMMA EditsTyped ==
  ASSUME NEW obj \in OrderObject
  PROVE  /\ RemovedOrder(obj) \in OrderObject
         /\ [obj EXCEPT !.finalizer = TRUE] \in OrderObject
         /\ [obj EXCEPT !.deleting = TRUE] \in OrderObject
<1>1. RemovedOrder(obj) \in OrderObject
  BY BlankTyped DEF RemovedOrder, OrderObject
<1> QED
  BY <1>1 DEF OrderObject

\* No step but a change makes more tickets expired; a deletion makes fewer.
LEMMA FewerExpired ==
  ASSUME ExpiriesCounted, TypeOK, changes' = changes, Expired(tickets') \subseteq Expired(tickets),
         UNCHANGED ticketCache
  PROVE  ExpiriesCounted'
<1>1. Expired(tickets) \subseteq Index
  BY DEF Expired, InPhase, OwnedTickets
<1>2. Cardinality(Expired(tickets')) <= Cardinality(Expired(tickets))
  BY <1>1, IndexSubset, FS_Subset
<1>3. Cardinality(Expired(tickets)) \in Nat /\ Cardinality(Expired(tickets')) \in Nat
  BY Counts
<1>4. changes \in Nat
  BY OrderBoundAssumption DEF TypeOK
<1>5. Cardinality(Expired(tickets')) <= changes
  BY <1>2, <1>3, <1>4 DEF ExpiriesCounted
<1> QED
  BY <1>5 DEF ExpiriesCounted

LEMMA DeletedTyped ==
  ASSUME TypeOK, NEW i \in Index, TicketDeleted(i)
  PROVE  tickets' \in [Index -> TicketObject] /\ Expired(tickets') \subseteq Expired(tickets)
<1>1. tickets \in [Index -> TicketObject]
  BY DEF TypeOK
<1>2. PICK gone \in BOOLEAN :
         tickets' = [tickets EXCEPT ![i] =
            IF gone THEN NoTicket ELSE [@ EXCEPT !.deleting = TRUE]]
  BY DEF TicketDeleted
<1>3. [tickets[i] EXCEPT !.deleting = TRUE] \in TicketObject
  BY <1>1 DEF TicketObject
<1>4. tickets' \in [Index -> TicketObject]
  BY <1>1, <1>2, <1>3, BlankTyped
<1>5. ASSUME NEW j \in Expired(tickets') PROVE j \in Expired(tickets)
  <2>1. j \in Index /\ tickets'[j].owner # 0 /\ tickets'[j].phase = "Expired"
    BY <1>5 DEF Expired, InPhase, OwnedTickets, Exists
  <2>2. tickets'[j].phase = tickets[j].phase /\ tickets'[j].owner = tickets[j].owner
    BY <1>1, <1>2, <2>1 DEF NoTicket, TicketObject
  <2> QED
    BY <2>1, <2>2 DEF Expired, InPhase, OwnedTickets, Exists
<1> QED
  BY <1>4, <1>5

\* A worker that is not idle is in the middle of a reconciliation.
LEMMA WorkerTyped ==
  ASSUME TypeOK, worker.call # "idle"
  PROVE  worker \in Reconciliation /\ worker.obj \in OrderObject /\ worker.status \in Status
<1>1. worker \in Reconciliation
  BY DEF TypeOK, Resting
<1> QED
  BY <1>1 DEF Reconciliation

LEMMA BeginTyped ==
  ASSUME TypeOK, NEW call \in {"addFinalizer", "create", "delete", "removeFinalizer"},
         NEW todo \in SUBSET Index, Begin(call, orderCache, todo)
  PROVE  worker' \in Reconciliation /\ queued' \in BOOLEAN /\ UNCHANGED <<clusterVars, cacheVars>>
<1>1. orderCache \in OrderObject
  BY DEF TypeOK
<1>2. [Resting EXCEPT !.call = call, !.obj = orderCache, !.todo = todo] \in Reconciliation
  BY <1>1, BlankTyped DEF Resting, Reconciliation
<1> QED
  BY <1>2 DEF Begin

LEMMA BeginReportTyped ==
  ASSUME TypeOK, NEW reason \in {"Ready", "Failed", "Paused"}, BeginReport(reason)
  PROVE  worker' \in Reconciliation /\ queued' \in BOOLEAN /\ UNCHANGED <<clusterVars, cacheVars>>
<1>1. orderCache \in OrderObject
  BY DEF TypeOK
<1>2. [Resting EXCEPT !.call = "updateStatus", !.obj = orderCache,
                      !.reason = reason, !.status = StatusOf(ticketCache)] \in Reconciliation
  BY <1>1, StatusTyped DEF Resting, Reconciliation
<1> QED
  BY <1>2 DEF BeginReport

LEMMA ReportTyped ==
  ASSUME TypeOK, worker.call # "idle", NEW reason \in {"Ready", "Failed", "Paused"},
         Report(reason)
  PROVE  worker' \in Reconciliation
<1>1. worker \in Reconciliation
  BY WorkerTyped
<1> QED
  BY <1>1, StatusTyped DEF Report, Reconciliation

\* The tickets still to do become fewer.
LEMMA TodoTyped ==
  ASSUME TypeOK, worker.call # "idle", NEW i, worker' = [worker EXCEPT !.todo = @ \ {i}]
  PROVE  worker' \in Reconciliation
<1>1. worker \in Reconciliation
  BY WorkerTyped
<1>2. worker.todo \ {i} \in SUBSET Index
  BY <1>1 DEF Reconciliation
<1> QED
  BY <1>1, <1>2 DEF Reconciliation

LEMMA ReturnTyped ==
  ASSUME TypeOK, NEW again \in BOOLEAN, Return(again)
  PROVE  worker' \in {Resting} \cup Reconciliation /\ queued' \in BOOLEAN
  BY DEF TypeOK, Return

LEMMA FaultTyped == ASSUME TypeOK, Fault PROVE faults' \in 0..MaxFaults
<1>1. faults \in 0..MaxFaults
  BY DEF TypeOK
<1> QED
  BY <1>1, OrderBoundAssumption DEF Fault

LEMMA ChangeTyped ==
  ASSUME TypeOK, NEW kind, Change(kind)
  PROVE  changes' \in 0..MaxChanges /\ changes \in Nat /\ changes' = changes + 1
<1>1. changes \in 0..MaxChanges
  BY DEF TypeOK
<1> QED
  BY <1>1, OrderBoundAssumption DEF Change

\* Where the tickets stay as they are, or none of them expires, a change of the
\* surroundings keeps the count.
LEMMA CountedByChange ==
  ASSUME IInv, NEW kind, Change(kind), Expired(tickets') \subseteq Expired(tickets),
         UNCHANGED ticketCache
  PROVE  ExpiriesCounted'
<1>1. Expired(tickets) \subseteq Index
  BY DEF Expired, InPhase, OwnedTickets
<1>2. Cardinality(Expired(tickets')) <= Cardinality(Expired(tickets))
  BY <1>1, IndexSubset, FS_Subset
<1>3. /\ Cardinality(Expired(tickets)) \in Nat /\ Cardinality(Expired(tickets')) \in Nat
      /\ Cardinality(Expired(ticketCache)) \in Nat
  BY Counts
<1>4. changes \in Nat /\ changes' = changes + 1
  BY ChangeTyped DEF IInv
<1>5. /\ Cardinality(Expired(tickets)) <= changes
      /\ Cardinality(Expired(ticketCache)) <= changes
  BY DEF IInv, ExpiriesCounted
<1>6. /\ Cardinality(Expired(tickets')) <= changes'
      /\ Cardinality(Expired(ticketCache)) <= changes'
  BY <1>2, <1>3, <1>4, <1>5
<1> QED
  BY <1>6 DEF ExpiriesCounted

LEMMA CollectIInv == ASSUME IInv, NEW i \in Index, CollectTicket(i) PROVE IInv'
<1>1. TicketDeleted(i) /\ UNCHANGED <<order, changes, faults, cacheVars, queued, worker>>
  BY DEF CollectTicket
<1>2. tickets' \in [Index -> TicketObject] /\ Expired(tickets') \subseteq Expired(tickets)
  BY <1>1, DeletedTyped DEF IInv
<1>3. ExpiriesCounted'
  BY <1>1, <1>2, FewerExpired DEF IInv, cacheVars
<1>4. TypeOK'
  BY <1>1, <1>2 DEF IInv, TypeOK, cacheVars
<1> QED
  BY <1>3, <1>4 DEF IInv

LEMMA DeleteTicketIInv == ASSUME IInv, NEW i \in Index, DeleteTicket(i) PROVE IInv'
<1>1. /\ TicketDeleted(i) /\ Change("deleteTicket")
      /\ UNCHANGED <<order, faults, cacheVars, queued, worker>>
  BY DEF DeleteTicket
<1>2. tickets' \in [Index -> TicketObject] /\ Expired(tickets') \subseteq Expired(tickets)
  BY <1>1, DeletedTyped DEF IInv
<1>3. ExpiriesCounted'
  BY <1>1, <1>2, CountedByChange DEF cacheVars
<1>4. changes' \in 0..MaxChanges
  BY <1>1, ChangeTyped DEF IInv
<1>5. TypeOK'
  BY <1>1, <1>2, <1>4 DEF IInv, TypeOK, cacheVars
<1> QED
  BY <1>3, <1>5 DEF IInv

LEMMA FinishIInv == ASSUME IInv, NEW i \in Index, FinishTicket(i) PROVE IInv'
<1>1. /\ tickets' = [tickets EXCEPT ![i] = NoTicket]
      /\ UNCHANGED <<order, changes, faults, cacheVars, queued, worker>>
  BY DEF FinishTicket
<1>2. tickets \in [Index -> TicketObject]
  BY DEF IInv, TypeOK
<1>3. tickets' \in [Index -> TicketObject]
  BY <1>1, <1>2, BlankTyped
<1>4. Expired(tickets') \subseteq Expired(tickets)
  BY <1>1, <1>2 DEF Expired, InPhase, OwnedTickets, Exists, NoTicket
<1>5. ExpiriesCounted'
  BY <1>1, <1>4, FewerExpired DEF IInv, cacheVars
<1>6. TypeOK'
  BY <1>1, <1>3 DEF IInv, TypeOK, cacheVars
<1> QED
  BY <1>5, <1>6 DEF IInv

\* Only here may the number of expired tickets grow, by one.
LEMMA MoveIInv == ASSUME IInv, NEW i \in Index, MoveTicket(i) PROVE IInv'
<1>1. PICK phase \in Phases : tickets' = [tickets EXCEPT ![i].phase = phase]
  BY DEF MoveTicket
<1>2. Change("phase") /\ UNCHANGED <<order, faults, cacheVars, queued, worker>>
  BY DEF MoveTicket
<1>3. tickets \in [Index -> TicketObject]
  BY DEF IInv, TypeOK
<1>4. tickets' \in [Index -> TicketObject]
  BY <1>1, <1>3 DEF TicketObject
<1>5. changes' \in 0..MaxChanges /\ changes \in Nat /\ changes' = changes + 1
  BY <1>2, ChangeTyped DEF IInv
<1>6. Expired(tickets') \subseteq Expired(tickets) \cup {i}
  BY <1>1, <1>3 DEF Expired, InPhase, OwnedTickets, Exists, TicketObject
<1>7. Expired(tickets) \subseteq Index
  BY DEF Expired, InPhase, OwnedTickets
<1>8. IsFiniteSet(Expired(tickets)) /\ Cardinality(Expired(tickets)) \in Nat
  BY <1>7, IndexSubset
<1>9. /\ IsFiniteSet(Expired(tickets) \cup {i})
      /\ Cardinality(Expired(tickets) \cup {i}) <= Cardinality(Expired(tickets)) + 1
  <2> DEFINE E == Expired(tickets)
  <2>1. /\ IsFiniteSet(E \cup {i})
        /\ Cardinality(E \cup {i}) = IF i \in E THEN Cardinality(E) ELSE Cardinality(E) + 1
    BY <1>8, FS_AddElement
  <2>2. Cardinality(E) \in Nat
    BY <1>8
  <2> HIDE DEF E
  <2>3. IsFiniteSet(E \cup {i}) /\ Cardinality(E \cup {i}) <= Cardinality(E) + 1
    BY <2>1, <2>2
  <2> QED
    BY <2>3 DEF E
<1>10. Cardinality(Expired(tickets')) <= Cardinality(Expired(tickets) \cup {i})
  BY <1>6, <1>9, FS_Subset
<1>11. /\ Cardinality(Expired(tickets')) \in Nat /\ Cardinality(Expired(ticketCache)) \in Nat
       /\ Cardinality(Expired(tickets) \cup {i}) \in Nat
  BY <1>9, Counts, FS_CardinalityType
<1>12. Cardinality(Expired(tickets)) <= changes /\ Cardinality(Expired(ticketCache)) <= changes
  BY DEF IInv, ExpiriesCounted
<1>13. Cardinality(Expired(tickets')) <= changes' /\ Cardinality(Expired(ticketCache)) <= changes'
  BY <1>5, <1>8, <1>9, <1>10, <1>11, <1>12
<1>14. ExpiriesCounted'
  BY <1>2, <1>13 DEF ExpiriesCounted, cacheVars
<1>15. TypeOK'
  BY <1>2, <1>4, <1>5 DEF IInv, TypeOK, cacheVars
<1> QED
  BY <1>14, <1>15 DEF IInv

LEMMA UserIInv ==
  ASSUME IInv, CreateOrder \/ ChangeSpec \/ DeleteOrder
  PROVE  IInv'
<1>1. order \in OrderObject /\ order.uid \in Nat
  BY DEF IInv, TypeOK, OrderObject
<1>2. CASE CreateOrder
  <2>1. PICK r \in 0..MaxReplicas, policy \in RefreshPolicies :
           StoreOrder([BlankOrder EXCEPT !.exists = TRUE, !.uid = order.uid + 1,
                                         !.replicas = r, !.refresh = policy])
    BY <1>2 DEF CreateOrder
  <2>2. [BlankOrder EXCEPT !.exists = TRUE, !.uid = order.uid + 1,
                           !.replicas = r, !.refresh = policy] \in OrderObject
    <3>1. order.uid + 1 \in Nat
      BY <1>1
    <3> QED
      BY <3>1, BlankTyped DEF OrderObject
  <2>3. order' \in OrderObject
    BY <2>1, <2>2, StoreTyped DEF IInv
  <2>4. UNCHANGED <<tickets, changes, faults, cacheVars, queued, worker>>
    BY <1>2 DEF CreateOrder
  <2>5. TypeOK'
    BY <2>3, <2>4 DEF IInv, TypeOK, cacheVars
  <2>6. ExpiriesCounted'
    BY <2>4, FewerExpired DEF IInv, cacheVars
  <2> QED
    BY <2>5, <2>6 DEF IInv
<1>3. CASE ChangeSpec
  <2>1. PICK r \in 0..MaxReplicas, p \in BOOLEAN :
           StoreOrder([order EXCEPT !.replicas = r, !.paused = p])
    BY <1>3 DEF ChangeSpec
  <2>2. [order EXCEPT !.replicas = r, !.paused = p] \in OrderObject
    BY <1>1 DEF OrderObject
  <2>3. order' \in OrderObject
    BY <2>1, <2>2, StoreTyped DEF IInv
  <2>4. Change("spec") /\ UNCHANGED <<tickets, faults, cacheVars, queued, worker>>
    BY <1>3 DEF ChangeSpec
  <2>5. TypeOK'
    BY <2>3, <2>4, ChangeTyped DEF IInv, TypeOK, cacheVars
  <2>6. ExpiriesCounted'
    BY <2>4, CountedByChange DEF cacheVars
  <2> QED
    BY <2>5, <2>6 DEF IInv
<1>4. CASE DeleteOrder
  <2>1. PICK obj \in OrderObject : StoreOrder(obj)
    <3>1. [order EXCEPT !.deleting = TRUE] \in OrderObject /\ RemovedOrder(order) \in OrderObject
      BY <1>1, EditsTyped
    <3> QED
      BY <1>4, <3>1 DEF DeleteOrder
  <2>2. order' \in OrderObject
    BY <2>1, StoreTyped DEF IInv
  <2>3. Change("deleteOrder") /\ UNCHANGED <<tickets, faults, cacheVars, queued, worker>>
    BY <1>4 DEF DeleteOrder
  <2>4. TypeOK'
    BY <2>2, <2>3, ChangeTyped DEF IInv, TypeOK, cacheVars
  <2>5. ExpiriesCounted'
    BY <2>3, CountedByChange DEF cacheVars
  <2> QED
    BY <2>4, <2>5 DEF IInv
<1> QED
  BY <1>2, <1>3, <1>4

LEMMA DeliveryIInv ==
  ASSUME IInv, DeliverOrder \/ DeliverTickets \/ Restart
  PROVE  IInv'
<1>1. CASE DeliverOrder
  BY <1>1 DEF DeliverOrder, IInv, TypeOK, ExpiriesCounted, clusterVars
<1>2. CASE DeliverTickets
  BY <1>2 DEF DeliverTickets, IInv, TypeOK, ExpiriesCounted, clusterVars
<1>3. CASE Restart
  <2>1. /\ orderCache' = order /\ ticketCache' = tickets /\ worker' = Resting
        /\ queued' = order.exists /\ UNCHANGED <<order, tickets, changes>>
    BY <1>3 DEF Restart
  <2>2. queued' \in BOOLEAN
    BY <2>1 DEF IInv, TypeOK, OrderObject
  <2>3. faults' \in 0..MaxFaults
    BY <1>3, FaultTyped DEF Restart, IInv
  <2>4. TypeOK'
    BY <2>1, <2>2, <2>3 DEF IInv, TypeOK
  <2>5. ExpiriesCounted'
    BY <2>1 DEF IInv, ExpiriesCounted
  <2> QED
    BY <2>4, <2>5 DEF IInv
<1> QED
  BY <1>1, <1>2, <1>3

\* The first step of a reconciliation changes the worker and the queue only.
LEMMA BegunIInv ==
  ASSUME IInv, worker' \in Reconciliation, queued' \in BOOLEAN, UNCHANGED <<clusterVars, cacheVars>>
  PROVE  IInv'
  BY DEF IInv, TypeOK, ExpiriesCounted, clusterVars, cacheVars

\* The names that the controller computes for new tickets are within the bounds.
LEMMA NewIndicesTyped == ASSUME IInv PROVE NewIndices \subseteq Index
<1> SUFFICES ASSUME NEW i \in NewIndices PROVE i \in Index
  OBVIOUS
<1>1. orderCache.replicas \in 0..MaxReplicas
  BY DEF IInv, TypeOK, OrderObject
<1>2. i \in Nat /\ i < orderCache.replicas + Cardinality(Expired(ticketCache))
  BY <1>1, NewIndicesBelow, OrderBoundAssumption
<1>3. Cardinality(Expired(ticketCache)) \in Nat /\ Cardinality(Expired(ticketCache)) <= changes
  BY Counts DEF IInv, ExpiriesCounted
<1>4. changes \in 0..MaxChanges
  BY DEF IInv, TypeOK
<1>5. i \in 0 .. MaxReplicas + MaxChanges - 1
  BY <1>1, <1>2, <1>3, <1>4, OrderBoundAssumption
<1> QED
  BY <1>5 DEF Index

LEMMA StartIInv == ASSUME IInv, ReconcileStart PROVE IInv'
<1>1. CASE ReconcileGone
  BY <1>1 DEF ReconcileGone, IInv, TypeOK, ExpiriesCounted, clusterVars, cacheVars
<1>2. CASE ReconcileDeleting
  <2>1. OwnedTickets(ticketCache) \in SUBSET Index
    BY DEF OwnedTickets
  <2> QED
    BY <1>2, <2>1, BeginTyped, BegunIInv DEF ReconcileDeleting, IInv
<1>3. CASE ReconcileUnfinalized
  BY <1>3, BeginTyped, BegunIInv DEF ReconcileUnfinalized, IInv
<1>4. CASE ReconcilePaused
  BY <1>4, BeginReportTyped, BegunIInv DEF ReconcilePaused, IInv
<1>5. CASE ReconcileMissing
  BY <1>5, NewIndicesTyped, BeginTyped, BegunIInv DEF ReconcileMissing, IInv
<1>6. CASE ReconcileExcess
  <2>1. Candidates \subseteq Index
    BY DEF Candidates, ActiveTickets, InPhase, OwnedTickets
  <2>2. PICK victims \in Victims : Begin("delete", orderCache, victims)
    BY <1>6 DEF ReconcileExcess
  <2>3. victims \in SUBSET Index
    BY <2>1, <2>2 DEF Victims
  <2> QED
    BY <2>2, <2>3, BeginTyped, BegunIInv DEF IInv
<1>7. CASE ReconcileSteady
  BY <1>7, BeginReportTyped, BegunIInv DEF ReconcileSteady, IInv
<1> QED
  BY <1>1, <1>2, <1>3, <1>4, <1>5, <1>6, <1>7 DEF ReconcileStart

\* A call that leaves the tickets alone.
LEMMA OrderCallIInv ==
  ASSUME IInv, order' \in OrderObject, worker' \in {Resting} \cup Reconciliation,
         queued' \in BOOLEAN, faults' \in 0..MaxFaults,
         UNCHANGED <<tickets, changes, cacheVars>>
  PROVE  IInv'
  BY DEF IInv, TypeOK, ExpiriesCounted, cacheVars

\* A call that creates or deletes a ticket.
LEMMA TicketCallIInv ==
  ASSUME IInv, tickets' \in [Index -> TicketObject],
         Expired(tickets') \subseteq Expired(tickets), worker' \in Reconciliation,
         UNCHANGED <<order, changes, faults, cacheVars, queued>>
  PROVE  IInv'
<1>1. ExpiriesCounted'
  BY FewerExpired DEF IInv, cacheVars
<1>2. TypeOK'
  BY DEF IInv, TypeOK, cacheVars
<1> QED
  BY <1>1, <1>2 DEF IInv

LEMMA NewTicketTyped ==
  ASSUME NEW i \in Index, worker.obj.uid \in Nat
  PROVE  /\ NewTicket(i) \in TicketObject
         /\ NewTicket(i).owner = worker.obj.uid /\ NewTicket(i).phase = ""
         /\ NewTicket(i).deleting = FALSE /\ NewTicket(i).twin = Exists(ticketCache[i])
<1>1. Exists(ticketCache[i]) \in BOOLEAN
  BY DEF Exists
<1>2. NewTicket(i) \in TicketObject
  BY <1>1, BlankTyped DEF NewTicket, TicketObject
<1>3. NewTicket(i).twin = Exists(ticketCache[i])
  BY <1>1 DEF NewTicket, NoTicket
<1> QED
  BY <1>2, <1>3 DEF NewTicket, NoTicket

LEMMA CreateIInv ==
  ASSUME IInv, NEW i \in Index, CreateTicket(i) \/ CreateCollides(i)
  PROVE  IInv'
<1>1. worker.call = "create" /\ worker \in Reconciliation /\ worker.obj \in OrderObject
  BY WorkerTyped DEF CreateTicket, CreateCollides, IInv
<1>2. tickets \in [Index -> TicketObject]
  BY DEF IInv, TypeOK
<1>3. CASE CreateTicket(i)
  <2>1. tickets' = [tickets EXCEPT ![i] = NewTicket(i)]
    BY <1>3 DEF CreateTicket
  <2>2. worker.obj.uid \in Nat
    BY <1>1 DEF OrderObject
  <2>3. NewTicket(i) \in TicketObject /\ NewTicket(i).phase = ""
    BY <2>2, NewTicketTyped
  <2>4. tickets' \in [Index -> TicketObject]
    BY <1>2, <2>1, <2>3
  <2>5. Expired(tickets') \subseteq Expired(tickets)
    BY <1>2, <2>1, <2>3 DEF Expired, InPhase, OwnedTickets, Exists
  <2>6. worker' \in Reconciliation
    BY <1>1, <1>3, ReportTyped, TodoTyped DEF CreateTicket, Done, IInv
  <2> QED
    BY <1>3, <2>4, <2>5, <2>6, TicketCallIInv DEF CreateTicket
<1>4. CASE CreateCollides(i)
  <2>1. worker' \in Reconciliation
    BY <1>1, <1>4, ReportTyped DEF CreateCollides, IInv
  <2>2. UNCHANGED <<clusterVars, cacheVars, queued>>
    BY <1>4 DEF CreateCollides
  <2> QED
    BY <1>2, <2>1, <2>2, TicketCallIInv DEF clusterVars
<1> QED
  BY <1>3, <1>4

LEMMA DeleteIInv ==
  ASSUME IInv, NEW i \in Index, DeleteExcess(i) \/ DeleteOwned(i)
  PROVE  IInv'
<1>1. worker.call = "delete" /\ worker \in Reconciliation
  BY WorkerTyped DEF DeleteExcess, DeleteOwned, IInv
<1>2. tickets' \in [Index -> TicketObject] /\ Expired(tickets') \subseteq Expired(tickets)
  <2>1. CASE TicketDeleted(i)
    BY <2>1, DeletedTyped DEF IInv
  <2>2. CASE UNCHANGED tickets
    BY <2>2 DEF IInv, TypeOK
  <2> QED
    BY <2>1, <2>2 DEF DeleteExcess, DeleteOwned
<1>3. worker' \in Reconciliation
  <2>1. CASE DeleteExcess(i)
    BY <1>1, <2>1, ReportTyped, TodoTyped DEF DeleteExcess, Done, IInv
  <2>2. CASE DeleteOwned(i)
    <3>1. [worker EXCEPT !.call = "removeFinalizer", !.todo = {}] \in Reconciliation
      BY <1>1 DEF Reconciliation
    <3> QED
      BY <1>1, <2>2, <3>1, TodoTyped DEF DeleteOwned, Done, IInv
  <2> QED
    BY <2>1, <2>2
<1>4. UNCHANGED <<order, changes, faults, cacheVars, queued>>
  BY DEF DeleteExcess, DeleteOwned
<1> QED
  BY <1>2, <1>3, <1>4, TicketCallIInv

LEMMA OrderWriteIInv ==
  ASSUME IInv, AddFinalizer \/ RemoveFinalizer \/ UpdateStatus
  PROVE  IInv'
<1>1. worker \in Reconciliation /\ worker.obj \in OrderObject /\ worker.status \in Status
  BY WorkerTyped DEF AddFinalizer, RemoveFinalizer, UpdateStatus, IInv
<1>2. order \in OrderObject /\ faults \in 0..MaxFaults
  BY DEF IInv, TypeOK
<1>3. UNCHANGED <<tickets, changes, faults, cacheVars>>
  BY DEF AddFinalizer, RemoveFinalizer, UpdateStatus
<1>4. PICK again \in BOOLEAN : Return(again)
  BY DEF AddFinalizer, RemoveFinalizer, UpdateStatus
<1>5. worker' \in {Resting} \cup Reconciliation /\ queued' \in BOOLEAN
  BY <1>4, ReturnTyped DEF IInv
<1>6. Reported(worker.obj) \in OrderObject
  <2>1. worker.obj.conditions \cup {IF worker.reason = "Failed" THEN "Failure" ELSE "Ready"}
           \in SUBSET {"Ready", "Failure"}
    BY <1>1 DEF OrderObject
  <2> QED
    BY <1>1, <2>1 DEF Reported, OrderObject
<1>7. /\ [worker.obj EXCEPT !.finalizer = TRUE] \in OrderObject
      /\ RemovedOrder(worker.obj) \in OrderObject
  BY <1>1, EditsTyped
<1>8. order' = order \/ \E obj \in OrderObject : StoreOrder(obj)
  BY <1>6, <1>7 DEF AddFinalizer, RemoveFinalizer, UpdateStatus
<1>9. order' \in OrderObject
  BY <1>2, <1>8, StoreTyped DEF IInv
<1> QED
  BY <1>2, <1>3, <1>5, <1>9, OrderCallIInv

LEMMA FailIInv == ASSUME IInv, CallFails PROVE IInv'
<1>1. faults' \in 0..MaxFaults
  BY FaultTyped DEF CallFails, IInv
<1>2. worker' \in {Resting} \cup Reconciliation /\ queued' \in BOOLEAN
  <2>1. CASE Report("Failed") /\ UNCHANGED queued
    BY <2>1, ReportTyped DEF CallFails, Idle, IInv, TypeOK
  <2>2. CASE Return(TRUE)
    BY <2>2, ReturnTyped DEF IInv
  <2> QED
    BY <2>1, <2>2 DEF CallFails
<1>3. order' \in OrderObject /\ UNCHANGED <<tickets, changes, cacheVars>>
  BY DEF CallFails, IInv, TypeOK
<1> QED
  BY <1>1, <1>2, <1>3, OrderCallIInv

LEMMA StepIInv == ASSUME IInv, [Next]_vars PROVE IInv'
<1>1. CASE Next
  BY <1>1, UserIInv, MoveIInv, DeleteTicketIInv, FinishIInv, CollectIInv, DeliveryIInv,
     StartIInv, CreateIInv, DeleteIInv, OrderWriteIInv, FailIInv DEF Next, WorkerStep
<1>2. CASE UNCHANGED vars
  BY <1>2 DEF vars, clusterVars, cacheVars, IInv, TypeOK, ExpiriesCounted
<1> QED
  BY <1>1, <1>2

THEOREM Inductive == Spec => []IInv
<1> QED
  BY InitIInv, StepIInv, PTL DEF Spec

\* The order controller and its surroundings keep their types; in particular the
\* indices it computes from the length of a stale list stay within the bounds.
THEOREM Typing == Spec => []TypeOK
<1>1. IInv => TypeOK
  BY DEF IInv
<1> QED
  BY <1>1, Inductive, PTL

------------------------------------------------------------------------------
(* An order that keeps its tickets never has too many *)

\* Tickets are taken away neither by the order controller nor by users.
KeepsTickets ==
    RefreshPolicies = {"Never"} /\ "deleteOrder" \notin Disturbances
    /\ "deleteTicket" \notin Disturbances

\* A copy of the order is one of the only order there is.
AsCreated(obj) == obj.exists => order.exists /\ obj.uid = order.uid /\ ~obj.deleting

\* Nothing goes: neither the order nor any of its tickets.
Intact ==
    /\ AsCreated(order) /\ AsCreated(orderCache)
    /\ worker.call # "idle" =>
          /\ worker.obj.exists /\ AsCreated(worker.obj)
          /\ worker.call \notin {"delete", "removeFinalizer"}
    /\ \A i \in Index :
          /\ ~tickets[i].deleting
          /\ Exists(tickets[i]) => order.exists /\ tickets[i].owner = order.uid

Limit == MaxReplicas + Cardinality(Expired(tickets))

Below(S) == \A i \in S : i < Limit

\* The names that are taken, and those that are about to be, lie below the replicas
\* and the expired tickets, of which the list shows no more than there are.
Bounded ==
    /\ Expired(ticketCache) \subseteq Expired(tickets)
    /\ Below(OwnedTickets(tickets))
    /\ worker.call = "create" => Below(worker.todo)

KInv == IInv /\ Intact /\ Bounded

\* What a write to the API server leaves of the object.
LEMMA StoreKeeps ==
  ASSUME TypeOK, NEW obj \in OrderObject, StoreOrder(obj)
  PROVE  order'.exists = obj.exists /\ order'.uid = obj.uid /\ order'.deleting = obj.deleting
<1>1. CASE [obj EXCEPT !.rv = order.rv] = order
  BY <1>1 DEF StoreOrder, OrderObject
<1>2. CASE [obj EXCEPT !.rv = order.rv] # order
  BY <1>2 DEF StoreOrder, OrderObject
<1> QED
  BY <1>1, <1>2

LEMMA IntactWrite ==
  ASSUME IInv, Intact, NEW obj \in OrderObject, order.exists,
         obj.exists, obj.uid = order.uid, ~obj.deleting,
         StoreOrder(obj) \/ UNCHANGED order, worker' \in {worker, Resting},
         UNCHANGED <<tickets, orderCache>>
  PROVE  Intact'
<1>1. order'.exists /\ order'.uid = order.uid /\ ~order'.deleting
  <2>1. CASE StoreOrder(obj)
    BY <2>1, StoreKeeps DEF IInv
  <2>2. CASE UNCHANGED order
    BY <2>2 DEF Intact, AsCreated
  <2> QED
    BY <2>1, <2>2
<1> QED
  BY <1>1 DEF Intact, AsCreated, Resting

\* The controller goes on with a copy of the order that is one of the order.
LEMMA IntactWork ==
  ASSUME Intact, NEW obj, obj.exists, AsCreated(obj),
         worker'.call \in {"idle", "addFinalizer", "create", "updateStatus"},
         worker'.call # "idle" => worker'.obj = obj,
         UNCHANGED <<order, orderCache, tickets>>
  PROVE  Intact'
  BY DEF Intact, AsCreated

LEMMA IntactByUser ==
  ASSUME KeepsTickets, IInv, Intact, CreateOrder \/ ChangeSpec \/ DeleteOrder
  PROVE  Intact'
<1>1. CASE CreateOrder
  <2>1. ~order.exists /\ UNCHANGED <<orderCache, tickets, worker>>
    BY <1>1 DEF CreateOrder, cacheVars
  <2>2. ~orderCache.exists /\ worker.call = "idle" /\ \A i \in Index : ~Exists(tickets[i])
    BY <2>1 DEF Intact, AsCreated
  <2>3. ~order'.deleting
    <3>1. PICK r \in 0..MaxReplicas, policy \in RefreshPolicies :
             StoreOrder([BlankOrder EXCEPT !.exists = TRUE, !.uid = order.uid + 1,
                                           !.replicas = r, !.refresh = policy])
      BY <1>1 DEF CreateOrder
    <3> DEFINE obj == [BlankOrder EXCEPT !.exists = TRUE, !.uid = order.uid + 1,
                                         !.replicas = r, !.refresh = policy]
    <3>2. obj \in OrderObject
      <4>1. order.uid \in Nat
        BY DEF IInv, TypeOK, OrderObject
      <4>2. order.uid + 1 \in Nat
        BY <4>1
      <4> QED
        BY <4>2, BlankTyped DEF OrderObject
    <3>3. ~obj.deleting
      BY BlankTyped DEF BlankOrder
    <3> HIDE DEF obj
    <3>4. StoreOrder(obj)
      BY <3>1 DEF obj
    <3> QED
      BY <3>2, <3>3, <3>4, StoreKeeps DEF IInv
  <2> QED
    BY <2>1, <2>2, <2>3 DEF Intact, AsCreated
<1>2. CASE ChangeSpec
  <2>1. PICK r \in 0..MaxReplicas, p \in BOOLEAN :
           StoreOrder([order EXCEPT !.replicas = r, !.paused = p])
    BY <1>2 DEF ChangeSpec
  <2>2. order \in OrderObject /\ order.exists /\ ~order.deleting
    BY <1>2 DEF ChangeSpec, IInv, TypeOK, Intact, AsCreated
  <2>3. /\ [order EXCEPT !.replicas = r, !.paused = p] \in OrderObject
        /\ [order EXCEPT !.replicas = r, !.paused = p].exists
        /\ [order EXCEPT !.replicas = r, !.paused = p].uid = order.uid
        /\ ~[order EXCEPT !.replicas = r, !.paused = p].deleting
    BY <2>2 DEF OrderObject
  <2>4. UNCHANGED <<orderCache, tickets, worker>>
    BY <1>2 DEF ChangeSpec, cacheVars
  <2> QED
    BY <2>1, <2>2, <2>3, <2>4, IntactWrite
<1>3. CASE DeleteOrder
  BY <1>3 DEF DeleteOrder, Change, KeepsTickets
<1> QED
  BY <1>1, <1>2, <1>3

LEMMA IntactByTickets ==
  ASSUME KeepsTickets, IInv, Intact, NEW i \in Index,
         MoveTicket(i) \/ DeleteTicket(i) \/ FinishTicket(i) \/ CollectTicket(i)
  PROVE  MoveTicket(i) /\ Intact'
<1>1. ~DeleteTicket(i)
  BY DEF DeleteTicket, Change, KeepsTickets
<1>2. ~FinishTicket(i)
  BY DEF FinishTicket, Intact
<1>3. ~CollectTicket(i)
  BY DEF CollectTicket, Intact
<1>4. MoveTicket(i)
  BY <1>1, <1>2, <1>3
<1>5. PICK phase \in Phases : tickets' = [tickets EXCEPT ![i].phase = phase]
  BY <1>4 DEF MoveTicket
<1>6. tickets \in [Index -> TicketObject]
  BY DEF IInv, TypeOK
<1>7. \A j \in Index :
         tickets'[j].deleting = tickets[j].deleting /\ tickets'[j].owner = tickets[j].owner
  BY <1>5, <1>6 DEF TicketObject
<1>8. UNCHANGED <<order, orderCache, worker>>
  BY <1>4 DEF MoveTicket, cacheVars
<1>9. Intact'
  BY <1>7, <1>8 DEF Intact, AsCreated, Exists
<1> QED
  BY <1>4, <1>9

\* The policy lets the controller delete nothing.
LEMMA NoVictims == ASSUME KeepsTickets, IInv PROVE Candidates = {} /\ ~ReconcileExcess
<1>1. orderCache.refresh \in {"Never", ""}
  BY DEF IInv, TypeOK, OrderObject, KeepsTickets
<1>2. Candidates = {}
  BY <1>1 DEF Candidates
<1>3. Victims \subseteq {{}}
  BY <1>2 DEF Victims
<1> QED
  BY <1>2, <1>3 DEF ReconcileExcess

LEMMA IntactByStart ==
  ASSUME KeepsTickets, IInv, Intact, ReconcileStart
  PROVE  Intact'
<1>1. CASE ReconcileGone
  BY <1>1 DEF ReconcileGone, Intact, AsCreated, clusterVars, cacheVars
<1>2. CASE ReconcileDeleting
  BY <1>2 DEF ReconcileDeleting, Intact, AsCreated
<1>3. CASE ReconcileUnfinalized
  BY <1>3, IntactWork
     DEF ReconcileUnfinalized, Begin, Resting, clusterVars, cacheVars, Intact
<1>4. CASE ReconcilePaused
  BY <1>4, IntactWork
     DEF ReconcilePaused, BeginReport, Resting, clusterVars, cacheVars, Intact
<1>5. CASE ReconcileMissing
  BY <1>5, IntactWork
     DEF ReconcileMissing, Working, Begin, Resting, clusterVars, cacheVars, Intact
<1>6. CASE ReconcileExcess
  BY <1>6, NoVictims
<1>7. CASE ReconcileSteady
  BY <1>7, IntactWork
     DEF ReconcileSteady, Working, BeginReport, Resting, clusterVars, cacheVars, Intact
<1> QED
  BY <1>1, <1>2, <1>3, <1>4, <1>5, <1>6, <1>7 DEF ReconcileStart

\* What the worker does next while it is creating tickets.
LEMMA NextCall ==
  ASSUME TypeOK, worker.call # "idle", NEW i, NEW reason,
         Report(reason) \/ Done(i, Report(reason))
  PROVE  /\ worker'.obj = worker.obj
         /\ worker'.call = "updateStatus"
            \/ (worker'.call = worker.call /\ worker'.todo \subseteq worker.todo)
<1>1. worker \in Reconciliation
  BY WorkerTyped
<1> QED
  BY <1>1 DEF Report, Done, Reconciliation

LEMMA IntactByCalls ==
  ASSUME KeepsTickets, IInv, Intact, WorkerStep \/ Restart
  PROVE  Intact'
<1>1. CASE \E i \in Index : CreateTicket(i)
  <2>1. PICK i \in Index : CreateTicket(i)
    BY <1>1
  <2>2. /\ tickets' = [tickets EXCEPT ![i] = NewTicket(i)]
        /\ worker.call = "create" /\ UNCHANGED <<order, orderCache>>
    BY <2>1 DEF CreateTicket, cacheVars
  <2>3. worker.obj.exists /\ AsCreated(worker.obj)
    BY <2>2 DEF Intact
  <2>4. tickets \in [Index -> TicketObject]
    BY DEF IInv, TypeOK
  <2>5. \A j \in Index : /\ ~tickets'[j].deleting
                         /\ Exists(tickets'[j]) => order.exists /\ tickets'[j].owner = order.uid
    <3>1. worker.obj.uid \in Nat
      BY <2>2, WorkerTyped DEF IInv, Reconciliation, OrderObject
    <3>2. NewTicket(i).owner = worker.obj.uid /\ ~NewTicket(i).deleting
      BY <3>1, NewTicketTyped
    <3> QED
      BY <2>2, <2>3, <2>4, <3>2 DEF Exists, Intact, AsCreated
  <2>6. worker'.obj = worker.obj /\ worker'.call \in {"updateStatus", "create"}
    BY <2>1, <2>2, NextCall DEF CreateTicket, IInv
  <2> QED
    BY <2>2, <2>3, <2>5, <2>6 DEF Intact, AsCreated, Exists
<1>2. CASE \E i \in Index : CreateCollides(i)
  <2>1. worker.call = "create" /\ Report("Failed") /\ UNCHANGED <<order, orderCache, tickets>>
    BY <1>2 DEF CreateCollides, clusterVars, cacheVars
  <2>2. worker.obj.exists /\ AsCreated(worker.obj)
    BY <2>1 DEF Intact
  <2>3. worker'.obj = worker.obj /\ worker'.call \in {"updateStatus", "create"}
    BY <2>1, NextCall DEF IInv
  <2> QED
    BY <2>1, <2>2, <2>3, IntactWork
<1>3. CASE \E i \in Index : DeleteExcess(i) \/ DeleteOwned(i)
  BY <1>3 DEF DeleteExcess, DeleteOwned, Intact
<1>4. CASE RemoveFinalizer
  BY <1>4 DEF RemoveFinalizer, Intact
<1>5. CASE AddFinalizer \/ UpdateStatus
  <2>1. worker.call # "idle" /\ worker.obj \in OrderObject /\ worker.status \in Status
    BY <1>5, WorkerTyped DEF AddFinalizer, UpdateStatus, IInv
  <2>2. /\ worker.obj.exists /\ worker.obj.uid = order.uid /\ ~worker.obj.deleting
        /\ order.exists
    BY <2>1 DEF Intact, AsCreated
  <2>3. worker' \in {worker, Resting} /\ UNCHANGED <<tickets, orderCache>>
    BY <1>5 DEF AddFinalizer, UpdateStatus, Return, cacheVars
  <2>4. CASE AddFinalizer
    <3>1. /\ [worker.obj EXCEPT !.finalizer = TRUE] \in OrderObject
          /\ [worker.obj EXCEPT !.finalizer = TRUE].exists
          /\ [worker.obj EXCEPT !.finalizer = TRUE].uid = order.uid
          /\ ~[worker.obj EXCEPT !.finalizer = TRUE].deleting
      BY <2>1, <2>2 DEF OrderObject
    <3>2. StoreOrder([worker.obj EXCEPT !.finalizer = TRUE]) \/ UNCHANGED order
      BY <2>4 DEF AddFinalizer
    <3> QED
      BY <2>2, <2>3, <3>1, <3>2, IntactWrite
  <2>5. CASE UpdateStatus
    <3>1. worker.obj.conditions \cup {IF worker.reason = "Failed" THEN "Failure" ELSE "Ready"}
             \in SUBSET {"Ready", "Failure"}
      BY <2>1 DEF OrderObject
    <3>2. /\ Reported(worker.obj) \in OrderObject
          /\ Reported(worker.obj).exists
          /\ Reported(worker.obj).uid = order.uid
          /\ ~Reported(worker.obj).deleting
      BY <2>1, <2>2, <3>1 DEF Reported, OrderObject
    <3>3. StoreOrder(Reported(worker.obj)) \/ UNCHANGED order
      BY <2>5 DEF UpdateStatus
    <3> QED
      BY <2>2, <2>3, <3>2, <3>3, IntactWrite
  <2> QED
    BY <1>5, <2>4, <2>5
<1>6. CASE CallFails
  <2>1. worker.call # "idle" /\ UNCHANGED <<order, orderCache, tickets>>
    BY <1>6 DEF CallFails, Idle, cacheVars
  <2>2. worker.obj.exists /\ AsCreated(worker.obj)
    BY <2>1 DEF Intact
  <2>3. worker' = Resting \/ Report("Failed")
    BY <1>6 DEF CallFails, Return
  <2>4. \/ worker'.call = "idle"
        \/ worker'.obj = worker.obj /\ worker'.call = "updateStatus"
    <3>1. CASE worker' = Resting
      BY <3>1 DEF Resting
    <3>2. CASE Report("Failed")
      <4>1. worker \in Reconciliation
        BY <2>1, WorkerTyped DEF IInv
      <4> QED
        BY <3>2, <4>1 DEF Report, Reconciliation
    <3> QED
      BY <2>3, <3>1, <3>2
  <2> QED
    BY <2>1, <2>2, <2>4, IntactWork
<1>7. CASE Restart
  BY <1>7 DEF Restart, Resting, Intact, AsCreated
<1> QED
  BY <1>1, <1>2, <1>3, <1>4, <1>5, <1>6, <1>7 DEF WorkerStep

\* The limit only grows, by what expires.
LEMMA LimitGrows ==
  ASSUME Expired(tickets) \subseteq Expired(tickets')
  PROVE  Limit \in Nat /\ Limit' \in Nat /\ Limit <= Limit'
<1>1. Expired(tickets') \subseteq Index
  BY DEF Expired, InPhase, OwnedTickets
<1>2. Cardinality(Expired(tickets)) <= Cardinality(Expired(tickets'))
  BY <1>1, IndexSubset, FS_Subset
<1>3. Cardinality(Expired(tickets)) \in Nat /\ Cardinality(Expired(tickets')) \in Nat
  BY Counts
<1> QED
  BY <1>2, <1>3, OrderBoundAssumption DEF Limit

LEMMA BoundedStep ==
  ASSUME Expired(tickets) \subseteq Expired(tickets'),
         Expired(ticketCache') \subseteq Expired(tickets'),
         Below(OwnedTickets(tickets')),
         worker'.call = "create" => worker'.todo \subseteq Index /\ Below(worker'.todo)
  PROVE  Bounded'
<1>1. Limit \in Nat /\ Limit' \in Nat /\ Limit <= Limit'
  BY LimitGrows
<1>2. ASSUME NEW S, S \subseteq Index, \A i \in S : i < Limit PROVE \A i \in S : i < Limit'
  BY <1>1, <1>2, IndexFinite
<1>3. \A i \in OwnedTickets(tickets') : i < Limit'
  <2>1. OwnedTickets(tickets') \subseteq Index
    BY DEF OwnedTickets
  <2> QED
    BY <1>2, <2>1 DEF Below
<1>4. worker'.call = "create" => \A i \in worker'.todo : i < Limit'
  BY <1>2 DEF Below
<1> QED
  BY <1>3, <1>4 DEF Bounded, Below

\* The list is not looked at anew, no ticket is created, and the worker does not
\* take up new ones.
LEMMA BoundedStutter ==
  ASSUME Bounded, TypeOK, UNCHANGED <<tickets, ticketCache>>,
         \/ worker'.call # "create"
         \/ worker.call = "create" /\ worker'.todo \subseteq worker.todo
  PROVE  Bounded'
<1>1. worker'.call = "create" => worker'.todo \subseteq Index /\ Below(worker'.todo)
  <2>1. worker.call = "create" => worker.todo \subseteq Index /\ Below(worker.todo)
    BY WorkerTyped DEF Bounded, Reconciliation
  <2> QED
    BY <2>1 DEF Below
<1>2. Below(OwnedTickets(tickets')) /\ Expired(ticketCache') \subseteq Expired(tickets')
  BY DEF Bounded
<1> QED
  BY <1>1, <1>2, BoundedStep

LEMMA BoundedByMove ==
  ASSUME IInv, Bounded, NEW i \in Index, MoveTicket(i)
  PROVE  Bounded'
<1>1. PICK phase \in Phases :
         <<tickets[i].phase, phase>> \in PhaseMoves /\ tickets' = [tickets EXCEPT ![i].phase = phase]
  BY DEF MoveTicket
<1>2. tickets \in [Index -> TicketObject] /\ UNCHANGED <<ticketCache, worker>>
  BY DEF IInv, TypeOK, MoveTicket, cacheVars
<1>3. tickets[i].phase # "Expired"
  BY <1>1 DEF PhaseMoves, Phases
<1>4. Expired(tickets) \subseteq Expired(tickets')
  BY <1>1, <1>2, <1>3 DEF Expired, InPhase, OwnedTickets, Exists, TicketObject
<1>5. OwnedTickets(tickets') = OwnedTickets(tickets)
  BY <1>1, <1>2 DEF OwnedTickets, Exists, TicketObject
<1>6. Expired(ticketCache') \subseteq Expired(tickets') /\ Below(OwnedTickets(tickets'))
  BY <1>2, <1>4, <1>5 DEF Bounded
<1>7. worker'.call = "create" => worker'.todo \subseteq Index /\ Below(worker'.todo)
  BY <1>2, WorkerTyped DEF Bounded, Reconciliation, IInv
<1> QED
  BY <1>4, <1>6, <1>7, BoundedStep

\* Whatever the list is, the names computed from it lie below the limit.
LEMMA BoundedByStart ==
  ASSUME KeepsTickets, IInv, Bounded, ReconcileStart
  PROVE  Bounded'
<1>1. UNCHANGED <<tickets, ticketCache>>
  BY DEF ReconcileStart, ReconcileGone, ReconcileDeleting, ReconcileUnfinalized,
         ReconcilePaused, ReconcileMissing, ReconcileExcess, ReconcileSteady,
         Begin, BeginReport, clusterVars, cacheVars
<1>2. CASE ReconcileMissing
  <2>1. worker'.call = "create" /\ worker'.todo = NewIndices
    BY <1>2 DEF ReconcileMissing, Begin, Resting
  <2>2. orderCache.replicas \in 0..MaxReplicas
    BY DEF IInv, TypeOK, OrderObject
  <2>3. /\ Cardinality(Expired(ticketCache)) \in Nat /\ Cardinality(Expired(tickets)) \in Nat
        /\ Cardinality(Expired(ticketCache)) <= Cardinality(Expired(tickets))
    <3>1. Expired(tickets) \subseteq Index
      BY DEF Expired, InPhase, OwnedTickets
    <3> QED
      BY <3>1, IndexSubset, FS_Subset, Counts DEF Bounded
  <2>4. ASSUME NEW i \in NewIndices PROVE i < Limit
    <3>1. i \in Nat /\ i < orderCache.replicas + Cardinality(Expired(ticketCache))
      BY <2>2, NewIndicesBelow, OrderBoundAssumption
    <3> QED
      BY <2>2, <2>3, <3>1, OrderBoundAssumption DEF Limit
  <2>5. Below(OwnedTickets(tickets')) /\ Expired(ticketCache') \subseteq Expired(tickets')
    BY <1>1 DEF Bounded
  <2> QED
    BY <1>1, <2>1, <2>4, <2>5, NewIndicesTyped, BoundedStep DEF Below
<1>3. CASE ~ReconcileMissing
  <2>1. \/ worker' = worker
        \/ worker'.call \in {"delete", "removeFinalizer", "addFinalizer", "updateStatus"}
    BY <1>3 DEF ReconcileStart, ReconcileGone, ReconcileDeleting, ReconcileUnfinalized,
                ReconcilePaused, ReconcileExcess, ReconcileSteady, Begin, BeginReport, Resting
  <2> QED
    BY <1>1, <2>1, BoundedStutter DEF IInv
<1> QED
  BY <1>2, <1>3

LEMMA BoundedByCreate ==
  ASSUME IInv, Bounded, NEW i \in Index, CreateTicket(i)
  PROVE  Bounded'
<1>1. /\ worker.call = "create" /\ i \in worker.todo /\ ~Exists(tickets[i])
      /\ tickets' = [tickets EXCEPT ![i] = NewTicket(i)]
      /\ UNCHANGED ticketCache
  BY DEF CreateTicket, cacheVars
<1>2. tickets \in [Index -> TicketObject]
  BY DEF IInv, TypeOK
<1>3. Expired(tickets) \subseteq Expired(tickets')
  BY <1>1, <1>2 DEF Expired, InPhase, OwnedTickets, Exists
<1>4. OwnedTickets(tickets') \subseteq OwnedTickets(tickets) \cup {i}
  BY <1>1, <1>2 DEF OwnedTickets, Exists
<1>5. i < Limit
  BY <1>1 DEF Bounded, Below
<1>6. Below(OwnedTickets(tickets')) /\ Expired(ticketCache') \subseteq Expired(tickets')
  BY <1>1, <1>3, <1>4, <1>5 DEF Bounded, Below
<1>7. worker'.call = "create" => worker'.todo \subseteq Index /\ Below(worker'.todo)
  <2>1. worker'.call = "create" => worker'.todo \subseteq worker.todo
    BY <1>1, NextCall DEF CreateTicket, IInv
  <2>2. worker.todo \subseteq Index
    BY <1>1, WorkerTyped DEF Reconciliation, IInv
  <2> QED
    BY <1>1, <2>1, <2>2 DEF Bounded, Below
<1> QED
  BY <1>3, <1>6, <1>7, BoundedStep

LEMMA BoundedByRest ==
  ASSUME KeepsTickets, IInv, Intact, Bounded,
         \/ CreateOrder \/ ChangeSpec \/ DeleteOrder \/ DeliverOrder \/ DeliverTickets
         \/ AddFinalizer \/ RemoveFinalizer \/ UpdateStatus \/ CallFails \/ Restart
         \/ \E i \in Index : CreateCollides(i) \/ DeleteExcess(i) \/ DeleteOwned(i)
  PROVE  Bounded'
<1>1. CASE CreateOrder \/ ChangeSpec \/ DeleteOrder \/ DeliverOrder
  BY <1>1, BoundedStutter
     DEF CreateOrder, ChangeSpec, DeleteOrder, DeliverOrder, clusterVars, cacheVars, IInv
<1>2. CASE DeliverTickets
  <2>1. ticketCache' = tickets /\ UNCHANGED <<tickets, worker>>
    BY <1>2 DEF DeliverTickets, clusterVars
  <2>2. worker'.call = "create" => worker'.todo \subseteq Index /\ Below(worker'.todo)
    BY <2>1, WorkerTyped DEF Bounded, Reconciliation, IInv
  <2> QED
    BY <2>1, <2>2, BoundedStep DEF Bounded
<1>3. CASE AddFinalizer \/ RemoveFinalizer \/ UpdateStatus
  BY <1>3, BoundedStutter
     DEF AddFinalizer, RemoveFinalizer, UpdateStatus, Return, Resting, cacheVars, IInv
<1>4. CASE CallFails
  <2>1. worker.call # "idle" /\ UNCHANGED <<tickets, ticketCache>>
    BY <1>4 DEF CallFails, Idle, cacheVars
  <2>2. worker' = Resting \/ Report("Failed")
    BY <1>4 DEF CallFails, Return
  <2>3. worker'.call # "create" \/ (worker.call = "create" /\ worker'.todo \subseteq worker.todo)
    <3>1. CASE worker' = Resting
      BY <3>1 DEF Resting
    <3>2. CASE Report("Failed")
      BY <2>1, <3>2, NextCall DEF IInv
    <3> QED
      BY <2>2, <3>1, <3>2
  <2> QED
    BY <2>1, <2>3, BoundedStutter DEF IInv
<1>5. CASE Restart
  <2>1. ticketCache' = tickets /\ UNCHANGED tickets /\ worker'.call = "idle"
    BY <1>5 DEF Restart, Resting
  <2> QED
    BY <2>1, BoundedStep DEF Bounded
<1>6. CASE \E i \in Index : CreateCollides(i)
  <2>1. worker.call = "create" /\ Report("Failed") /\ UNCHANGED <<tickets, ticketCache>>
    BY <1>6 DEF CreateCollides, clusterVars, cacheVars
  <2> QED
    BY <2>1, NextCall, BoundedStutter DEF IInv
<1>7. CASE \E i \in Index : DeleteExcess(i) \/ DeleteOwned(i)
  BY <1>7 DEF DeleteExcess, DeleteOwned, Intact
<1> QED
  BY <1>1, <1>2, <1>3, <1>4, <1>5, <1>6, <1>7

LEMMA InitKInv == Init => KInv
<1> SUFFICES ASSUME Init PROVE KInv
  OBVIOUS
<1>1. Intact
  BY DEF Init, Intact, AsCreated, BlankOrder, Resting, NoTicket, Exists
<1>2. Bounded
  BY DEF Init, Bounded, Below, OwnedTickets, Exists, NoTicket, Resting
<1> QED
  BY <1>1, <1>2, InitIInv DEF KInv

LEMMA StepKInv == ASSUME KeepsTickets, KInv, [Next]_vars PROVE KInv'
<1>1. IInv /\ Intact /\ Bounded
  BY DEF KInv
<1>2. CASE Next
  <2>1. Intact'
    <3>1. CASE DeliverOrder \/ DeliverTickets
      BY <1>1, <3>1 DEF DeliverOrder, DeliverTickets, clusterVars, Intact, AsCreated
    <3> QED
      BY <1>1, <1>2, <3>1, IntactByUser, IntactByTickets, IntactByStart, IntactByCalls DEF Next
  <2>2. Bounded'
    <3>1. CASE \E i \in Index :
                  MoveTicket(i) \/ DeleteTicket(i) \/ FinishTicket(i) \/ CollectTicket(i)
      BY <1>1, <3>1, IntactByTickets, BoundedByMove
    <3> QED
      BY <1>1, <1>2, <3>1, BoundedByStart, BoundedByCreate, BoundedByRest DEF Next, WorkerStep
  <2> QED
    BY <1>1, <2>1, <2>2, StepIInv DEF KInv
<1>3. CASE UNCHANGED vars
  <2>1. Intact' /\ Bounded'
    BY <1>1, <1>3
       DEF vars, clusterVars, cacheVars, Intact, AsCreated, Bounded, Below, Limit, Expired,
           InPhase, OwnedTickets
  <2> QED
    BY <1>1, <1>3, <2>1, StepIInv DEF KInv
<1> QED
  BY <1>2, <1>3

\* As many tickets as lie below the limit, less those that have expired.
LEMMA FewActive == ASSUME KInv PROVE NeverTooMany
<1> DEFINE a == Cardinality(ActiveTickets(tickets))
           o == Cardinality(OwnedTickets(tickets))
           e == Cardinality(Expired(tickets))
<1>1. o \in Nat /\ a \in Nat /\ e \in Nat /\ o = a + e
  BY Counts
<1>2. OwnedTickets(tickets) \subseteq 0 .. MaxReplicas + e - 1
  <2>1. Limit \in Nat /\ Limit = MaxReplicas + e
    BY <1>1, OrderBoundAssumption DEF Limit
  <2>2. \A i \in OwnedTickets(tickets) : i \in Nat /\ i < Limit
    BY IndexFinite DEF KInv, Bounded, Below, OwnedTickets
  <2> HIDE DEF e
  <2> QED
    BY <1>1, <2>1, <2>2, OrderBoundAssumption
<1>3. /\ IsFiniteSet(0 .. MaxReplicas + e - 1)
      /\ Cardinality(0 .. MaxReplicas + e - 1) = MaxReplicas + e
  <2> HIDE DEF e
  <2>1. MaxReplicas + e - 1 \in Int
    BY <1>1, OrderBoundAssumption
  <2>2. /\ IsFiniteSet(0 .. MaxReplicas + e - 1)
        /\ Cardinality(0 .. MaxReplicas + e - 1)
              = IF 0 > MaxReplicas + e - 1 THEN 0 ELSE (MaxReplicas + e - 1) - 0 + 1
    BY <2>1, FS_Interval
  <2> QED
    BY <1>1, <2>2, OrderBoundAssumption
<1>4. o <= MaxReplicas + e
  BY <1>2, <1>3, FS_Subset
<1> HIDE DEF a, o, e
<1>5. a <= MaxReplicas
  BY <1>1, <1>4, OrderBoundAssumption
<1> QED
  BY <1>5 DEF NeverTooMany, a

\* An order whose policy is Never, and from which nobody takes a ticket, never has
\* more active tickets than any of its versions asked for: the controller, which
\* counts in a list that may lag behind, would give a surplus ticket a name that
\* is taken.
THEOREM TicketsBounded == ASSUME KeepsTickets PROVE Spec => []NeverTooMany
<1>1. Init => KInv
  BY InitKInv
<1>2. KInv /\ [Next]_vars => KInv'
  BY StepKInv
<1>3. KInv => NeverTooMany
  BY FewActive
<1> QED
  BY <1>1, <1>2, <1>3, PTL DEF Spec
------------------------------------------------------------------------------
(* Which tickets are taken away.  A ticket that the list shows as claimed is     *)
(* past claiming, whatever has become of it: phases only move forward, and a     *)
(* ticket created under its name meanwhile is a twin.                            *)

ListHonest ==
    \A i \in Index :
        Exists(ticketCache[i]) /\ ticketCache[i].phase \in {"Claimed", "Expired"}
        => PastClaiming(i)

VictimsHonest ==
    worker.call = "delete" /\ ~worker.obj.deleting /\ worker.obj.refresh = "OnClaim"
    => \A i \in worker.todo : PastClaiming(i)

HonestInv == IInv /\ ListHonest /\ VictimsHonest

LEMMA MovesForward ==
  ASSUME NEW phase, <<"Claimed", phase>> \in PhaseMoves \/ <<"Expired", phase>> \in PhaseMoves
  PROVE  phase = "Expired"
BY DEF PhaseMoves, Phases

\* No step but a creation makes a ticket claimable again.
LEMMA StaysPast ==
  ASSUME IInv, [Next]_vars, NEW i \in Index, PastClaiming(i), ~CreateTicket(i)
  PROVE  PastClaiming(i)'
<1>1. tickets \in [Index -> TicketObject]
  BY DEF IInv, TypeOK
<1>2. ASSUME UNCHANGED tickets
      PROVE  PastClaiming(i)'
  BY <1>2 DEF PastClaiming, Exists
<1>3. ASSUME NEW j \in Index, MoveTicket(j)
      PROVE  PastClaiming(i)'
  <2>1. PICK phase \in Phases : <<tickets[j].phase, phase>> \in PhaseMoves
                                /\ tickets' = [tickets EXCEPT ![j].phase = phase]
    BY <1>3 DEF MoveTicket
  <2>2. CASE i = j
    <3>1. /\ tickets'[i].owner = tickets[i].owner /\ tickets'[i].twin = tickets[i].twin
          /\ tickets'[i].phase = phase
      BY <1>1, <2>1, <2>2 DEF TicketObject
    <3>2. tickets[i].phase \in {"Claimed", "Expired"} => phase = "Expired"
      BY <2>1, <2>2, MovesForward
    <3> QED
      BY <3>1, <3>2 DEF PastClaiming, Exists
  <2>3. CASE i # j
    <3>1. tickets'[i] = tickets[i]
      BY <1>1, <2>1, <2>3
    <3> QED
      BY <3>1 DEF PastClaiming, Exists
  <2> QED
    BY <2>2, <2>3
<1>4. ASSUME NEW j \in Index, NEW new, tickets' = [tickets EXCEPT ![j] = new],
             new = NoTicket \/ new = [tickets[j] EXCEPT !.deleting = TRUE] \/ j # i
      PROVE  PastClaiming(i)'
  <2>1. CASE i = j /\ new = NoTicket
    <3>1. tickets'[i] = NoTicket
      BY <1>1, <1>4, <2>1
    <3>2. NoTicket.owner = 0
      BY DEF NoTicket
    <3> QED
      BY <3>1, <3>2 DEF PastClaiming, Exists
  <2>2. CASE i = j /\ new = [tickets[j] EXCEPT !.deleting = TRUE]
    <3>1. /\ tickets'[i].owner = tickets[i].owner /\ tickets'[i].twin = tickets[i].twin
          /\ tickets'[i].phase = tickets[i].phase
      BY <1>1, <1>4, <2>2 DEF TicketObject
    <3> QED
      BY <3>1 DEF PastClaiming, Exists
  <2>3. CASE i # j
    <3>1. tickets'[i] = tickets[i]
      BY <1>1, <1>4, <2>3
    <3> QED
      BY <3>1 DEF PastClaiming, Exists
  <2> QED
    BY <1>4, <2>1, <2>2, <2>3
<1>5. ASSUME NEW j \in Index, TicketDeleted(j)
      PROVE  PastClaiming(i)'
  <2>1. PICK gone \in BOOLEAN : tickets' = [tickets EXCEPT ![j] =
            IF gone THEN NoTicket ELSE [@ EXCEPT !.deleting = TRUE]]
    BY <1>5 DEF TicketDeleted
  <2>2. CASE gone
    <3>1. tickets' = [tickets EXCEPT ![j] = NoTicket]
      BY <2>1, <2>2
    <3> QED
      BY <3>1, <1>4
  <2>3. CASE ~gone
    <3>1. tickets' = [tickets EXCEPT ![j] = [tickets[j] EXCEPT !.deleting = TRUE]]
      BY <2>1, <2>3
    <3> QED
      BY <3>1, <1>4
  <2> QED
    BY <2>2, <2>3
<1>6. ASSUME NEW j \in Index, FinishTicket(j)
      PROVE  PastClaiming(i)'
  <2>1. tickets' = [tickets EXCEPT ![j] = NoTicket]
    BY <1>6 DEF FinishTicket
  <2> QED
    BY <2>1, <1>4
<1>7. ASSUME NEW j \in Index, CreateTicket(j)
      PROVE  PastClaiming(i)'
  <2>1. tickets' = [tickets EXCEPT ![j] = NewTicket(j)] /\ j # i
    BY <1>7 DEF CreateTicket
  <2> QED
    BY <2>1, <1>4
<1>8. ASSUME NEW j \in Index,
             DeleteTicket(j) \/ CollectTicket(j) \/ DeleteExcess(j) \/ DeleteOwned(j)
      PROVE  TicketDeleted(j) \/ UNCHANGED tickets
  BY <1>8 DEF DeleteTicket, CollectTicket, DeleteExcess, DeleteOwned
<1>9. ASSUME NEW j \in Index, CreateCollides(j)
      PROVE  UNCHANGED tickets
  BY <1>9 DEF CreateCollides, clusterVars
<1>10. CreateOrder \/ ChangeSpec \/ DeleteOrder \/ DeliverOrder \/ DeliverTickets \/ Restart
       => UNCHANGED tickets
  BY DEF CreateOrder, ChangeSpec, DeleteOrder, DeliverOrder, DeliverTickets, Restart, clusterVars
<1>11. AddFinalizer \/ RemoveFinalizer \/ UpdateStatus \/ CallFails => UNCHANGED tickets
  BY DEF AddFinalizer, RemoveFinalizer, UpdateStatus, CallFails
<1>12. ReconcileStart => UNCHANGED tickets
  BY DEF ReconcileStart, ReconcileGone, ReconcileDeleting, ReconcileUnfinalized, ReconcilePaused,
         ReconcileMissing, ReconcileExcess, ReconcileSteady, Begin, BeginReport, clusterVars
<1>13. UNCHANGED vars => UNCHANGED tickets
  BY DEF vars, clusterVars
<1> QED
  BY <1>2, <1>3, <1>5, <1>6, <1>7, <1>8, <1>9, <1>10, <1>11, <1>12, <1>13 DEF Next, WorkerStep

\* A list is read anew, and nothing else happens in that step.
LEMMA ListStep ==
  ASSUME [Next]_vars
  PROVE  UNCHANGED ticketCache \/ (ticketCache' = tickets /\ UNCHANGED tickets)
<1>1. ASSUME NEW j \in Index,
             \/ MoveTicket(j) \/ DeleteTicket(j) \/ FinishTicket(j) \/ CollectTicket(j)
             \/ CreateTicket(j) \/ CreateCollides(j) \/ DeleteExcess(j) \/ DeleteOwned(j)
      PROVE  UNCHANGED ticketCache
  BY <1>1 DEF MoveTicket, DeleteTicket, FinishTicket, CollectTicket, CreateTicket, CreateCollides,
              DeleteExcess, DeleteOwned, cacheVars
<1>2. CreateOrder \/ ChangeSpec \/ DeleteOrder \/ DeliverOrder => UNCHANGED ticketCache
  BY DEF CreateOrder, ChangeSpec, DeleteOrder, DeliverOrder, cacheVars
<1>3. DeliverTickets \/ Restart => ticketCache' = tickets /\ UNCHANGED tickets
  BY DEF DeliverTickets, Restart, clusterVars
<1>4. AddFinalizer \/ RemoveFinalizer \/ UpdateStatus \/ CallFails => UNCHANGED ticketCache
  BY DEF AddFinalizer, RemoveFinalizer, UpdateStatus, CallFails, cacheVars
<1>5. ReconcileStart => UNCHANGED ticketCache
  BY DEF ReconcileStart, ReconcileGone, ReconcileDeleting, ReconcileUnfinalized, ReconcilePaused,
         ReconcileMissing, ReconcileExcess, ReconcileSteady, Begin, BeginReport, cacheVars
<1>6. UNCHANGED vars => UNCHANGED ticketCache
  BY DEF vars, cacheVars
<1> QED
  BY <1>1, <1>2, <1>3, <1>4, <1>5, <1>6 DEF Next, WorkerStep

\* Where the victims of a worker come from that takes claimed tickets away.
LEMMA VictimsStep ==
  ASSUME IInv, [Next]_vars, worker'.call = "delete", ~worker'.obj.deleting,
         worker'.obj.refresh = "OnClaim"
  PROVE  \/ /\ worker.call = "delete" /\ worker'.obj = worker.obj
            /\ worker'.todo \subseteq worker.todo
         \/ /\ worker'.todo \subseteq InPhase(ticketCache, "Claimed")
            /\ UNCHANGED <<tickets, ticketCache>>
<1> DEFINE Fine ==
        \/ /\ worker.call = "delete" /\ worker'.obj = worker.obj
           /\ worker'.todo \subseteq worker.todo
        \/ /\ worker'.todo \subseteq InPhase(ticketCache, "Claimed")
           /\ UNCHANGED <<tickets, ticketCache>>
<1>1. TypeOK
  BY DEF IInv
<1>2. UNCHANGED worker => Fine
  OBVIOUS
<1>3. ASSUME NEW i, NEW reason, worker.call # "idle", Report(reason) \/ Done(i, Report(reason))
      PROVE  Fine
  BY <1>1, <1>3, NextCall
<1>4. ASSUME NEW i \in Index,
             CreateTicket(i) \/ CreateCollides(i) \/ DeleteExcess(i)
      PROVE  Fine
  BY <1>3, <1>4 DEF CreateTicket, CreateCollides, DeleteExcess
<1>5. ASSUME NEW i \in Index, DeleteOwned(i)
      PROVE  Fine
  <2>1. worker \in Reconciliation /\ worker.obj.deleting
    BY <1>1, <1>5, WorkerTyped DEF DeleteOwned
  <2>2. worker'.obj = worker.obj
    BY <1>5, <2>1 DEF DeleteOwned, Done, Reconciliation
  <2> QED
    BY <2>1, <2>2
<1>6. ASSUME NEW i \in Index,
             MoveTicket(i) \/ DeleteTicket(i) \/ FinishTicket(i) \/ CollectTicket(i)
      PROVE  UNCHANGED worker
  BY <1>6 DEF MoveTicket, DeleteTicket, FinishTicket, CollectTicket
<1>7. CreateOrder \/ ChangeSpec \/ DeleteOrder \/ DeliverOrder \/ DeliverTickets \/ ReconcileGone
      => UNCHANGED worker
  BY DEF CreateOrder, ChangeSpec, DeleteOrder, DeliverOrder, DeliverTickets, ReconcileGone
<1>8. AddFinalizer \/ RemoveFinalizer \/ UpdateStatus \/ Restart => worker'.call = "idle"
  BY DEF AddFinalizer, RemoveFinalizer, UpdateStatus, Restart, Return, Resting
<1>9. ASSUME CallFails
      PROVE  Fine
  <2>1. worker.call # "idle"
    BY <1>9 DEF CallFails, Idle
  <2>2. worker' = Resting \/ Report("Failed")
    BY <1>9 DEF CallFails, Return
  <2>3. worker' # Resting
    BY DEF Resting
  <2> QED
    BY <1>3, <2>1, <2>2, <2>3
<1>10. ASSUME NEW call, NEW todo, Begin(call, orderCache, todo)
       PROVE  /\ worker'.call = call /\ worker'.obj = orderCache /\ worker'.todo = todo
              /\ UNCHANGED <<tickets, ticketCache>>
  BY <1>10 DEF Begin, Resting, clusterVars, cacheVars
<1>11. ASSUME ReconcileExcess
       PROVE  Fine
  <2>1. PICK victims \in Victims \ {{}} : Begin("delete", orderCache, victims)
    BY <1>11 DEF ReconcileExcess
  <2>2. worker'.obj = orderCache /\ worker'.todo = victims /\ UNCHANGED <<tickets, ticketCache>>
    BY <1>10, <2>1
  <2>3. victims \subseteq Candidates
    BY DEF Victims
  <2>4. Candidates = InPhase(ticketCache, "Claimed")
    BY <2>2 DEF Candidates
  <2> QED
    BY <2>2, <2>3, <2>4
<1>12. ASSUME ReconcileDeleting
       PROVE  Fine
  <2>1. \E call, todo : Begin(call, orderCache, todo) /\ orderCache.deleting
    BY <1>12 DEF ReconcileDeleting
  <2> QED
    BY <1>10, <2>1
<1>13. ReconcileUnfinalized \/ ReconcileMissing => worker'.call # "delete"
  BY <1>10 DEF ReconcileUnfinalized, ReconcileMissing
<1>14. ReconcilePaused \/ ReconcileSteady => worker'.call # "delete"
  BY DEF ReconcilePaused, ReconcileSteady, BeginReport, Resting
<1>15. UNCHANGED vars => UNCHANGED worker
  BY DEF vars
<1> HIDE DEF Fine
<1>16. Fine
  BY <1>2, <1>4, <1>5, <1>6, <1>7, <1>8, <1>9, <1>11, <1>12, <1>13, <1>14, <1>15
     DEF Next, WorkerStep, ReconcileStart
<1> QED
  BY <1>16 DEF Fine

LEMMA InitHonest == Init => HonestInv
<1> SUFFICES ASSUME Init PROVE HonestInv
  OBVIOUS
<1>1. IInv
  BY InitIInv
<1>2. \A i \in Index : ~Exists(ticketCache[i])
  BY DEF Init, Exists, NoTicket
<1>3. worker.call = "idle"
  BY DEF Init, Resting
<1> QED
  BY <1>1, <1>2, <1>3 DEF HonestInv, ListHonest, VictimsHonest

LEMMA StepHonest == HonestInv /\ [Next]_vars => HonestInv'
<1> SUFFICES ASSUME HonestInv, [Next]_vars PROVE HonestInv'
  OBVIOUS
<1>1. IInv /\ IInv'
  BY StepIInv DEF HonestInv
<1>2. ListHonest'
  <2> SUFFICES ASSUME NEW i \in Index, Exists(ticketCache'[i]),
                      ticketCache'[i].phase \in {"Claimed", "Expired"}
               PROVE  PastClaiming(i)'
    BY DEF ListHonest, PastClaiming
  <2>1. CASE ticketCache' = tickets /\ UNCHANGED tickets
    BY <2>1 DEF PastClaiming
  <2>2. CASE UNCHANGED ticketCache /\ ~CreateTicket(i)
    <3>1. PastClaiming(i)
      BY <2>2 DEF HonestInv, ListHonest
    <3> QED
      BY <1>1, <2>2, <3>1, StaysPast
  <2>3. CASE UNCHANGED ticketCache /\ CreateTicket(i)
    <3>1. worker.obj.uid \in Nat
      BY <1>1, <2>3, WorkerTyped DEF CreateTicket, IInv, OrderObject
    <3>2. tickets' = [tickets EXCEPT ![i] = NewTicket(i)] /\ tickets \in [Index -> TicketObject]
      BY <1>1, <2>3 DEF CreateTicket, IInv, TypeOK
    <3>3. tickets'[i].twin = Exists(ticketCache[i])
      BY <3>1, <3>2, NewTicketTyped
    <3>4. tickets'[i].twin
      BY <2>3, <3>3
    <3> QED
      BY <3>4 DEF PastClaiming
  <2> QED
    BY <2>1, <2>2, <2>3, ListStep
<1>3. VictimsHonest'
  <2> SUFFICES ASSUME worker'.call = "delete", ~worker'.obj.deleting,
                      worker'.obj.refresh = "OnClaim", NEW i \in worker'.todo
               PROVE  PastClaiming(i)'
    BY DEF VictimsHonest, PastClaiming
  <2>1. CASE worker.call = "delete" /\ worker'.obj = worker.obj /\ worker'.todo \subseteq worker.todo
    <3>1. PastClaiming(i)
      BY <2>1 DEF HonestInv, VictimsHonest
    <3>2. i \in Index
      BY <1>1, <2>1, WorkerTyped DEF IInv, Reconciliation
    <3>3. ~CreateTicket(i)
      BY <2>1 DEF CreateTicket
    <3> QED
      BY <1>1, <3>1, <3>2, <3>3, StaysPast
  <2>2. CASE worker'.todo \subseteq InPhase(ticketCache, "Claimed") /\ UNCHANGED <<tickets, ticketCache>>
    <3>1. i \in Index /\ Exists(ticketCache[i]) /\ ticketCache[i].phase = "Claimed"
      BY <2>2 DEF InPhase, OwnedTickets
    <3>2. PastClaiming(i)
      BY <3>1 DEF HonestInv, ListHonest
    <3> QED
      BY <2>2, <3>2 DEF PastClaiming, Exists
  <2> QED
    BY <1>1, <2>1, <2>2, VictimsStep
<1> QED
  BY <1>1, <1>2, <1>3 DEF HonestInv

\* Under OnClaim the controller takes away no ticket that a pod may still claim,
\* however stale its list (order_controller.go:199), but for twins.
THEOREM ClaimableSpared == Spec => ClaimableKept
<1>1. HonestInv =>
        \A i \in Index : DeleteExcess(i) /\ worker.obj.refresh = "OnClaim" => PastClaiming(i)
  BY DEF HonestInv, VictimsHonest, DeleteExcess
<1>2. HonestInv /\ [Next]_vars =>
        [\A i \in Index :
            DeleteExcess(i) /\ worker.obj.refresh = "OnClaim" => PastClaiming(i)]_vars
  BY <1>1
<1> QED
  BY <1>2, InitHonest, StepHonest, PTL DEF Spec, ClaimableKept
------------------------------------------------------------------------------
(* No wake-up is lost.  Only the report of a paused order ends without another   *)
(* look at it; if order, list and report are still the same then, there is       *)
(* nothing to see, and otherwise the change has put the order into the queue.    *)

Pausing(obj) == obj.exists /\ obj.paused /\ obj.finalizer /\ ~obj.deleting

\* The resourceVersion of the cached order tells whether it is the latest.
CacheVouched ==
    /\ orderCache.rv <= order.rv
    /\ orderCache.rv = order.rv => orderCache = order

\* The order is at rest in the cache, which may have to learn of a change.
RestsCounted ==
    ~queued /\ Idle /\ orderCache.exists /\ orderCache = order
    => Pausing(orderCache) /\ orderCache.status = StatusOf(ticketCache)

\* The report of a paused order is up to date.
ReportCounted ==
    ~queued /\ worker.call = "updateStatus" /\ worker.reason = "Paused"
    => /\ worker.obj = orderCache /\ Pausing(orderCache)
       /\ worker.status = StatusOf(ticketCache)

AwakeInv == CacheVouched /\ RestsCounted /\ ReportCounted

\* Every write of the order gets a resourceVersion of its own.
LEMMA StoreAdvances ==
  ASSUME IInv, NEW obj \in OrderObject, StoreOrder(obj)
  PROVE  order' = order \/ order'.rv = order.rv + 1
<1>1. [obj EXCEPT !.rv = order.rv + 1].rv = order.rv + 1
  BY DEF OrderObject
<1> QED
  BY <1>1 DEF StoreOrder

LEMMA OrderAdvances ==
  ASSUME IInv, [Next]_vars
  PROVE  order' = order \/ order'.rv = order.rv + 1
<1> DEFINE Goal == order' = order \/ order'.rv = order.rv + 1
<1>1. ASSUME NEW obj \in OrderObject, StoreOrder(obj) PROVE Goal
  BY <1>1, StoreAdvances
<1>2. ASSUME UNCHANGED order PROVE Goal
  BY <1>2
<1> HIDE DEF Goal
<1> SUFFICES Goal
  BY DEF Goal
<1>3. order \in OrderObject
  BY DEF IInv, TypeOK
<1>4. CASE CreateOrder
  <2>1. PICK r \in 0..MaxReplicas, policy \in RefreshPolicies :
           StoreOrder([BlankOrder EXCEPT !.exists = TRUE, !.uid = order.uid + 1,
                                         !.replicas = r, !.refresh = policy])
    BY <1>4 DEF CreateOrder
  <2>2. order.uid + 1 \in Nat
    <3>1. order.uid \in Nat
      BY <1>3 DEF OrderObject
    <3> QED
      BY <3>1
  <2>3. [BlankOrder EXCEPT !.exists = TRUE, !.uid = order.uid + 1,
                           !.replicas = r, !.refresh = policy] \in OrderObject
    BY <2>2, BlankTyped DEF OrderObject
  <2> QED
    BY <1>1, <2>1, <2>3
<1>5. CASE ChangeSpec
  <2>1. PICK r \in 0..MaxReplicas, p \in BOOLEAN :
           StoreOrder([order EXCEPT !.replicas = r, !.paused = p])
    BY <1>5 DEF ChangeSpec
  <2>2. [order EXCEPT !.replicas = r, !.paused = p] \in OrderObject
    BY <1>3 DEF OrderObject
  <2> QED
    BY <1>1, <2>1, <2>2
<1>6. CASE DeleteOrder
  <2>1. StoreOrder([order EXCEPT !.deleting = TRUE]) \/ StoreOrder(RemovedOrder(order))
    BY <1>6 DEF DeleteOrder
  <2> QED
    BY <1>1, <1>3, <2>1, EditsTyped
<1>7. CASE AddFinalizer \/ RemoveFinalizer \/ UpdateStatus
  <2>1. worker \in Reconciliation /\ worker.obj \in OrderObject /\ worker.status \in Status
    BY <1>7, WorkerTyped DEF AddFinalizer, RemoveFinalizer, UpdateStatus, IInv
  <2>2. Reported(worker.obj) \in OrderObject
    <3>1. worker.obj.conditions \cup {IF worker.reason = "Failed" THEN "Failure" ELSE "Ready"}
             \in SUBSET {"Ready", "Failure"}
      BY <2>1 DEF OrderObject
    <3> QED
      BY <2>1, <3>1 DEF Reported, OrderObject
  <2>3. /\ [worker.obj EXCEPT !.finalizer = TRUE] \in OrderObject
        /\ RemovedOrder(worker.obj) \in OrderObject
    BY <2>1, EditsTyped
  <2>4. UNCHANGED order \/ \E obj \in OrderObject : StoreOrder(obj)
    BY <1>7, <2>2, <2>3 DEF AddFinalizer, RemoveFinalizer, UpdateStatus
  <2> QED
    BY <1>1, <1>2, <2>4
<1>8. CASE ReconcileStart
  BY <1>2, <1>8
  DEF ReconcileStart, ReconcileGone, ReconcileDeleting, ReconcileUnfinalized,
      ReconcilePaused, ReconcileMissing, ReconcileExcess, ReconcileSteady, Begin,
      BeginReport, clusterVars
<1>9. CASE DeliverOrder \/ DeliverTickets \/ Restart \/ UNCHANGED vars
  BY <1>2, <1>9 DEF DeliverOrder, DeliverTickets, Restart, clusterVars, vars
<1>10. ASSUME NEW i \in Index,
              \/ MoveTicket(i) \/ DeleteTicket(i) \/ FinishTicket(i) \/ CollectTicket(i)
              \/ CreateTicket(i) \/ CreateCollides(i) \/ DeleteExcess(i) \/ DeleteOwned(i)
       PROVE  Goal
  BY <1>2, <1>10
  DEF MoveTicket, DeleteTicket, FinishTicket, CollectTicket, CreateTicket,
      CreateCollides, DeleteExcess, DeleteOwned, clusterVars
<1>11. CASE CallFails
  BY <1>2, <1>11 DEF CallFails
<1> QED
  BY <1>4, <1>5, <1>6, <1>7, <1>8, <1>9, <1>10, <1>11 DEF Next, WorkerStep

\* What a step does to the cached order and list, to the queue and to the report of
\* a paused order.
AwakeStep ==
    \/ queued'
    \/ Idle' /\ ~orderCache'.exists
    \/ /\ UNCHANGED cacheVars
       /\ \/ UNCHANGED worker /\ UNCHANGED queued
          \/ ~Idle' /\ (worker'.call = "updateStatus" => worker'.reason # "Paused")
          \/ /\ ~Idle' /\ worker'.obj = orderCache /\ Pausing(orderCache)
             /\ worker'.status = StatusOf(ticketCache)
          \/ ~queued /\ Idle' /\ Current(worker.obj) /\ ~order'.exists
          \/ /\ ~queued /\ Idle' /\ worker.call = "updateStatus"
             /\ worker.reason = "Paused"
             /\ Current(worker.obj) /\ StoreOrder(Reported(worker.obj))

LEMMA AwakeShape ==
  ASSUME IInv, [Next]_vars
  PROVE  AwakeStep
<1> DEFINE Talking == UNCHANGED cacheVars /\ ~Idle'
                      /\ (worker'.call = "updateStatus" => worker'.reason # "Paused")
<1>1. ASSUME UNCHANGED <<cacheVars, worker, queued>> PROVE AwakeStep
  BY <1>1 DEF AwakeStep
<1>2. ASSUME Talking PROVE AwakeStep
  BY <1>2 DEF AwakeStep
<1>3. ASSUME queued' PROVE AwakeStep
  BY <1>3 DEF AwakeStep
<1>4. CASE CreateOrder \/ ChangeSpec \/ DeleteOrder \/ UNCHANGED vars
  BY <1>1, <1>4 DEF CreateOrder, ChangeSpec, DeleteOrder, vars
<1>5. ASSUME NEW i \in Index,
             MoveTicket(i) \/ DeleteTicket(i) \/ FinishTicket(i) \/ CollectTicket(i)
      PROVE  AwakeStep
  BY <1>1, <1>5 DEF MoveTicket, DeleteTicket, FinishTicket, CollectTicket
<1>6. CASE DeliverOrder \/ DeliverTickets
  BY <1>3, <1>6 DEF DeliverOrder, DeliverTickets
<1>7. CASE Restart
  BY <1>7 DEF Restart, Idle, Resting, AwakeStep
<1>8. CASE ReconcileGone
  BY <1>8 DEF ReconcileGone, Idle, cacheVars, AwakeStep
<1>9. ASSUME NEW call \in {"addFinalizer", "create", "delete", "removeFinalizer"},
             NEW todo, Begin(call, orderCache, todo)
      PROVE  AwakeStep
  <2>1. worker'.call = call /\ UNCHANGED cacheVars
    BY <1>9 DEF Begin, Resting
  <2> QED
    BY <1>2, <2>1 DEF Idle
<1>10. CASE ReconcileDeleting \/ ReconcileUnfinalized \/ ReconcileMissing \/ ReconcileExcess
  BY <1>9, <1>10
  DEF ReconcileDeleting, ReconcileUnfinalized, ReconcileMissing, ReconcileExcess
<1>11. ASSUME NEW reason, BeginReport(reason)
       PROVE  /\ worker'.call = "updateStatus" /\ worker'.reason = reason
              /\ worker'.obj = orderCache /\ worker'.status = StatusOf(ticketCache)
              /\ UNCHANGED cacheVars
  BY <1>11 DEF BeginReport, Resting
<1>12. CASE ReconcilePaused
  <2>1. Pausing(orderCache)
    BY <1>12 DEF ReconcilePaused, Pausing
  <2> QED
    BY <1>11, <1>12, <2>1 DEF ReconcilePaused, Idle, AwakeStep
<1>13. CASE ReconcileSteady
  BY <1>2, <1>11, <1>13 DEF ReconcileSteady, Idle
<1>14. CASE WorkerStep
  <2>1. worker \in Reconciliation
    BY <1>14, WorkerTyped
    DEF WorkerStep, AddFinalizer, CreateTicket, CreateCollides, DeleteExcess, DeleteOwned,
        RemoveFinalizer, UpdateStatus, CallFails, Idle, IInv
  <2>2. ASSUME NEW reason \in {"Ready", "Failed"}, Report(reason), UNCHANGED cacheVars
        PROVE  AwakeStep
    <3>1. worker'.call = "updateStatus" /\ worker'.reason = reason
      BY <2>1, <2>2 DEF Report, Reconciliation
    <3> QED
      BY <1>2, <2>2, <3>1 DEF Idle
  <2>3. ASSUME NEW i, worker' = [worker EXCEPT !.todo = @ \ {i}], UNCHANGED cacheVars,
               worker.call \in {"create", "delete"}
        PROVE  AwakeStep
    <3>1. worker'.call = worker.call
      BY <2>1, <2>3 DEF Reconciliation
    <3> QED
      BY <1>2, <2>3, <3>1 DEF Idle
  <2>4. ASSUME Return(TRUE) PROVE AwakeStep
    BY <1>3, <2>4 DEF Return
  <2>5. CASE AddFinalizer
    BY <2>4, <2>5 DEF AddFinalizer
  <2>6. ASSUME NEW i \in Index, CreateTicket(i) PROVE AwakeStep
    BY <2>2, <2>3, <2>6 DEF CreateTicket, Done
  <2>7. ASSUME NEW i \in Index, CreateCollides(i) PROVE AwakeStep
    BY <2>2, <2>7 DEF CreateCollides
  <2>8. ASSUME NEW i \in Index, DeleteExcess(i) PROVE AwakeStep
    BY <2>2, <2>3, <2>8 DEF DeleteExcess, Done
  <2>9. ASSUME NEW i \in Index, DeleteOwned(i) PROVE AwakeStep
    <3>1. CASE worker' = [worker EXCEPT !.call = "removeFinalizer", !.todo = {}]
      <4>1. worker'.call = "removeFinalizer"
        BY <2>1, <3>1 DEF Reconciliation
      <4> QED
        BY <1>2, <2>9, <4>1 DEF DeleteOwned, Idle
    <3> QED
      BY <2>3, <2>9, <3>1 DEF DeleteOwned, Done
  <2>10. CASE CallFails
    BY <2>2, <2>4, <2>10 DEF CallFails
  <2>11. ASSUME Return(FALSE) PROVE Idle' /\ queued' = queued
    BY <2>11 DEF Return, Idle, Resting, IInv, TypeOK
  <2>12. CASE RemoveFinalizer
    <3>1. CASE Current(worker.obj) /\ StoreOrder(RemovedOrder(worker.obj)) /\ Return(FALSE)
      <4>1. worker.obj \in OrderObject
        BY <2>1 DEF Reconciliation
      <4>2. RemovedOrder(worker.obj) \in OrderObject /\ ~RemovedOrder(worker.obj).exists
        BY <4>1, EditsTyped DEF RemovedOrder, BlankOrder
      <4>3. order \in OrderObject /\ order.exists
        BY <3>1 DEF IInv, TypeOK, Current
      <4>4. ~order'.exists
        BY <3>1, <4>2, <4>3 DEF StoreOrder, OrderObject
      <4>5. UNCHANGED cacheVars
        BY <2>12 DEF RemoveFinalizer
      <4> QED
        BY <1>3, <2>11, <3>1, <4>4, <4>5 DEF AwakeStep
    <3> QED
      BY <2>4, <2>12, <3>1 DEF RemoveFinalizer
  <2>13. CASE UpdateStatus
    <3>1. CASE Current(worker.obj) /\ StoreOrder(Reported(worker.obj)) /\ Return(FALSE)
               /\ worker.reason = "Paused"
      <4>1. UNCHANGED cacheVars /\ worker.call = "updateStatus"
        BY <2>13 DEF UpdateStatus
      <4> QED
        BY <1>3, <2>11, <3>1, <4>1 DEF AwakeStep
    <3> QED
      BY <2>4, <2>13, <3>1 DEF UpdateStatus
  <2> QED
    BY <1>14, <2>5, <2>6, <2>7, <2>8, <2>9, <2>10, <2>12, <2>13 DEF WorkerStep
<1> QED
  BY <1>4, <1>5, <1>6, <1>7, <1>8, <1>10, <1>12, <1>13, <1>14 DEF Next, ReconcileStart

LEMMA CacheStep == ASSUME IInv, IInv', AwakeInv, [Next]_vars PROVE CacheVouched'
<1>1. /\ order \in OrderObject /\ order' \in OrderObject /\ orderCache \in OrderObject
      /\ order.rv \in Nat /\ order'.rv \in Nat /\ orderCache.rv \in Nat
  BY DEF IInv, TypeOK, OrderObject
<1>2. CASE UNCHANGED orderCache
  BY <1>1, <1>2, OrderAdvances DEF AwakeInv, CacheVouched
<1>3. CASE orderCache' = order /\ UNCHANGED order
  <2>1. order.rv <= order.rv
    BY <1>1
  <2> QED
    BY <1>3, <2>1 DEF CacheVouched
<1>4. UNCHANGED orderCache \/ (orderCache' = order /\ UNCHANGED order)
  BY DEF Next, CreateOrder, ChangeSpec, DeleteOrder, MoveTicket, DeleteTicket, FinishTicket,
         CollectTicket, DeliverOrder, DeliverTickets, ReconcileStart, ReconcileGone,
         ReconcileDeleting, ReconcileUnfinalized, ReconcilePaused, ReconcileMissing,
         ReconcileExcess, ReconcileSteady, Begin, BeginReport, WorkerStep, AddFinalizer,
         CreateTicket, CreateCollides, DeleteExcess, DeleteOwned, RemoveFinalizer,
         UpdateStatus, CallFails, Restart, vars, clusterVars, cacheVars
<1> QED
  BY <1>2, <1>3, <1>4

\* The report of a paused order rests on a list that is still that of the cache.
LEMMA ReportRests ==
  ASSUME IInv, IInv', AwakeInv, ~queued, UNCHANGED cacheVars,
         worker.call = "updateStatus", worker.reason = "Paused",
         Current(worker.obj), StoreOrder(Reported(worker.obj)), orderCache = order'
  PROVE  Pausing(orderCache) /\ orderCache.status = StatusOf(ticketCache)
<1>1. worker.obj = orderCache /\ Pausing(orderCache) /\ worker.status = StatusOf(ticketCache)
  BY DEF AwakeInv, ReportCounted
<1>2. orderCache = order
  BY <1>1 DEF AwakeInv, CacheVouched, Current
<1>3. worker.obj \in OrderObject /\ order \in OrderObject
  BY <1>1, <1>2 DEF IInv, TypeOK
<1> DEFINE obj == Reported(worker.obj)
<1>4. obj.status = worker.status
  BY <1>3 DEF Reported, OrderObject
<1>5. DOMAIN obj = DOMAIN worker.obj
  BY DEF Reported
<1>6. \A n : [obj EXCEPT !.rv = n].status = obj.status
  BY <1>5
<1> HIDE DEF obj
<1>7. order'.status = obj.status
  BY <1>2, <1>6 DEF StoreOrder, obj
<1> QED
  BY <1>1, <1>4, <1>7

LEMMA StepAwake == ASSUME IInv, IInv', AwakeInv, [Next]_vars PROVE AwakeInv'
<1>1. CacheVouched'
  BY CacheStep
<1>2. RestsCounted'
  <2> SUFFICES ASSUME ~queued', Idle', orderCache'.exists, orderCache' = order'
               PROVE  Pausing(orderCache)' /\ orderCache'.status = StatusOf(ticketCache)'
    BY DEF RestsCounted
  <2>1. UNCHANGED cacheVars /\ orderCache' = orderCache /\ ticketCache' = ticketCache
    BY AwakeShape DEF AwakeStep, cacheVars
  <2>2. CASE UNCHANGED worker /\ UNCHANGED queued
    <3>1. ~queued /\ Idle
      BY <2>2 DEF Idle
    <3>2. order' = order
      <4>1. orderCache.rv <= order.rv /\ order.rv \in Nat
        BY DEF AwakeInv, CacheVouched, IInv, TypeOK, OrderObject
      <4> QED
        BY <2>1, <4>1, OrderAdvances
    <3> QED
      BY <2>1, <3>1, <3>2 DEF AwakeInv, RestsCounted, Pausing, StatusOf, OwnedTickets,
                              ActiveTickets, InPhase, Exists
  <2>3. CASE /\ ~queued /\ worker.call = "updateStatus" /\ worker.reason = "Paused"
             /\ Current(worker.obj) /\ StoreOrder(Reported(worker.obj))
    <3>1. Pausing(orderCache) /\ orderCache.status = StatusOf(ticketCache)
      BY <2>1, <2>3, ReportRests
    <3> QED
      BY <2>1, <3>1 DEF Pausing, StatusOf, OwnedTickets, ActiveTickets, InPhase, Exists
  <2> QED
    BY <2>1, <2>2, <2>3, AwakeShape DEF AwakeStep
<1>3. ReportCounted'
  <2> SUFFICES ASSUME ~queued', worker'.call = "updateStatus", worker'.reason = "Paused"
               PROVE  /\ worker'.obj = orderCache' /\ Pausing(orderCache)'
                      /\ worker'.status = StatusOf(ticketCache)'
    BY DEF ReportCounted
  <2>1. ~Idle' /\ UNCHANGED cacheVars /\ orderCache' = orderCache /\ ticketCache' = ticketCache
    BY AwakeShape DEF AwakeStep, cacheVars, Idle
  <2>2. /\ worker'.obj = orderCache /\ Pausing(orderCache)
        /\ worker'.status = StatusOf(ticketCache)
    BY <2>1, AwakeShape DEF AwakeStep, AwakeInv, ReportCounted
  <2> QED
    BY <2>1, <2>2 DEF Pausing, StatusOf, OwnedTickets, ActiveTickets, InPhase, Exists
<1> QED
  BY <1>1, <1>2, <1>3 DEF AwakeInv

LEMMA InitAwake == Init => AwakeInv
<1> SUFFICES ASSUME Init PROVE AwakeInv
  OBVIOUS
<1>1. orderCache = order /\ order.rv = 0 /\ ~order.exists /\ worker.call = "idle"
  BY DEF Init, BlankOrder, Resting
<1> QED
  BY <1>1 DEF AwakeInv, CacheVouched, RestsCounted, ReportCounted

\* No wake-up is lost: the only order that rests, for any number of tickets and
\* faults, is one that is paused and whose status counts the tickets there are.
THEOREM WakeUpsKept == Spec => []NothingForgotten
<1>1. AwakeInv => NothingForgotten
  BY DEF AwakeInv, RestsCounted, NothingForgotten, AtRest, Pausing
<1>2. IInv /\ IInv' /\ AwakeInv /\ [Next]_vars => AwakeInv'
  BY StepAwake
<1> QED
  BY <1>1, <1>2, InitAwake, Inductive, PTL DEF Spec
==============================================================================
