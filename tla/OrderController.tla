---------------------------- MODULE OrderController ----------------------------
(***************************************************************************)
(* The OrderReconciler: it keeps the number of tickets of one order at     *)
(* spec.replicas, from lists that it reads from a lagging cache, and       *)
(* deletes the tickets when the order is deleted.  The tickets themselves  *)
(* are moved on by the ticket side, here by their phase only: any of the   *)
(* PhaseMoves at any time, which TicketSystem!PhaseContract is about.      *)
(***************************************************************************)
EXTENDS Integers, FiniteSets, TicketPhases

CONSTANTS
    RefreshPolicies, \* the values of spec.refreshPolicy that users choose
    MaxReplicas,    \* bound: the largest spec.replicas
    Disturbances,   \* which kinds of changes the surroundings of the order make
    MaxChanges,     \* bound: how many of them
    MaxFaults,      \* bound: failing calls and restarts of the manager
    MaxUid          \* bound: how often the order is (re)created

ASSUME RefreshAssumption == RefreshPolicies \subseteq {"Always", "OnClaim", "Never"}
ASSUME OrderBoundAssumption ==
    /\ MaxReplicas \in Nat /\ MaxChanges \in Nat /\ MaxFaults \in Nat /\ MaxUid \in Nat
    /\ Disturbances \subseteq {"spec", "deleteOrder", "phase", "deleteTicket"}

VARIABLES
    order,        \* the Order at the API server
    orderCache,   \* the Order in the informer cache
    tickets,      \* index -> the Ticket named <order>-<index>
    ticketCache,  \* the same in the informer cache
    queued,       \* whether the order waits in the workqueue
    worker,       \* the running reconciliation
    changes,      \* how many changes the surroundings have made
    faults        \* how many faults there have been

clusterVars == <<order, tickets, changes, faults>>
cacheVars == <<orderCache, ticketCache>>
vars == <<clusterVars, cacheVars, queued, worker>>

------------------------------------------------------------------------------
(* Objects *)

\* The highest index that createTicket can reach: every ticket that does not
\* count as active has been expired by a change.
Index == 0 .. MaxReplicas + MaxChanges - 1

\* owner is the uid of the order in ownerReferences; 0 when no ticket exists.
\* twin is history: the list still showed an earlier ticket of that name when this
\* one was created.
TicketObject == [owner : Nat, phase : Phases, deleting : BOOLEAN, twin : BOOLEAN]
NoTicket == [owner |-> 0, phase |-> "", deleting |-> FALSE, twin |-> FALSE]

Status == [replicas : Nat, available : Nat, unavailable : Nat, terminal : Nat]
NoStatus == [replicas |-> 0, available |-> 0, unavailable |-> 0, terminal |-> 0]

\* conditions holds the types whose status is True; no other status is written.
OrderObject ==
    [exists : BOOLEAN, rv : Nat, uid : Nat, finalizer : BOOLEAN, deleting : BOOLEAN,
     replicas : 0..MaxReplicas, refresh : RefreshPolicies \cup {""}, paused : BOOLEAN,
     status : Status, conditions : SUBSET {"Ready", "Failure"}]

BlankOrder ==
    [exists |-> FALSE, rv |-> 0, uid |-> 0, finalizer |-> FALSE, deleting |-> FALSE,
     replicas |-> 0, refresh |-> "", paused |-> FALSE, status |-> NoStatus,
     conditions |-> {}]

\* A reconciliation: its next call, its copy of the order, the tickets it still
\* has to create or delete, and the reason it reports with the status.
Reconciliation ==
    [call : {"addFinalizer", "create", "delete", "updateStatus", "removeFinalizer"},
     obj : OrderObject, todo : SUBSET Index, reason : {"Ready", "Failed", "Paused"},
     status : Status]

Resting ==
    [call |-> "idle", obj |-> BlankOrder, todo |-> {}, reason |-> "Ready",
     status |-> NoStatus]

TypeOK ==
    /\ order \in OrderObject /\ orderCache \in OrderObject
    /\ tickets \in [Index -> TicketObject] /\ ticketCache \in [Index -> TicketObject]
    /\ queued \in BOOLEAN
    /\ worker \in {Resting} \cup Reconciliation
    /\ changes \in 0..MaxChanges /\ faults \in 0..MaxFaults

Init ==
    /\ order = BlankOrder /\ orderCache = order
    /\ tickets = [i \in Index |-> NoTicket] /\ ticketCache = tickets
    /\ queued = FALSE /\ worker = Resting
    /\ changes = 0 /\ faults = 0

Exists(ticket) == ticket.owner # 0

\* getOwnedTickets: by the label that holds the order's name, whatever its uid.
OwnedTickets(list) == {i \in Index : Exists(list[i])}

\* filterActiveTickets.
ActiveTickets(list) == {i \in OwnedTickets(list) : list[i].phase # "Expired"}

InPhase(list, phase) == {i \in OwnedTickets(list) : list[i].phase = phase}

\* What updateOrderStatus counts.
StatusOf(list) ==
    [replicas |-> Cardinality(OwnedTickets(list)),
     available |-> Cardinality(ActiveTickets(list)),
     unavailable |-> Cardinality(InPhase(list, "Pending")),
     terminal |-> Cardinality(InPhase(list, "Expired"))]

------------------------------------------------------------------------------
(* The API server and the surroundings of the order *)

Current(copy) == order.exists /\ order.rv = copy.rv

\* Store obj; an update that changes nothing is not written.
StoreOrder(obj) ==
    order' = IF [obj EXCEPT !.rv = order.rv] = order THEN order
             ELSE [obj EXCEPT !.rv = order.rv + 1]

RemovedOrder(obj) == [BlankOrder EXCEPT !.rv = obj.rv, !.uid = obj.uid]

\* Delete of ticket i, by name.  The ticket controller adds its finalizer before
\* it sets a phase (TicketSystem!PhaseNeedsFinalizer), so only a ticket without a
\* phase may vanish at once.
TicketDeleted(i) ==
    \E gone \in {FALSE} \cup (IF tickets[i].phase = "" THEN {TRUE} ELSE {}) :
        tickets' = [tickets EXCEPT ![i] =
            IF gone THEN NoTicket ELSE [@ EXCEPT !.deleting = TRUE]]

Change(kind) == kind \in Disturbances /\ changes < MaxChanges /\ changes' = changes + 1
Fault == faults < MaxFaults /\ faults' = faults + 1

CreateOrder ==
    /\ ~order.exists /\ order.uid < MaxUid
    /\ \E r \in 0..MaxReplicas, policy \in RefreshPolicies :
          StoreOrder([BlankOrder EXCEPT !.exists = TRUE, !.uid = order.uid + 1,
                                        !.replicas = r, !.refresh = policy])
    /\ UNCHANGED <<tickets, changes, faults, cacheVars, queued, worker>>

\* A user scales, pauses or resumes the order.
ChangeSpec ==
    /\ order.exists
    /\ \E r \in 0..MaxReplicas, p \in BOOLEAN :
          /\ <<r, p>> # <<order.replicas, order.paused>>
          /\ StoreOrder([order EXCEPT !.replicas = r, !.paused = p])
    /\ Change("spec")
    /\ UNCHANGED <<tickets, faults, cacheVars, queued, worker>>

DeleteOrder ==
    /\ order.exists /\ ~order.deleting
    /\ StoreOrder(IF order.finalizer THEN [order EXCEPT !.deleting = TRUE]
                  ELSE RemovedOrder(order))
    /\ Change("deleteOrder")
    /\ UNCHANGED <<tickets, faults, cacheVars, queued, worker>>

\* The ticket side moves a ticket on (TicketSystem!PhaseContract).
MoveTicket(i) ==
    /\ Exists(tickets[i])
    /\ \E phase \in Phases :
          /\ <<tickets[i].phase, phase>> \in PhaseMoves
          /\ tickets' = [tickets EXCEPT ![i].phase = phase]
    /\ Change("phase")
    /\ UNCHANGED <<order, faults, cacheVars, queued, worker>>

\* A user deletes a ticket, or its cleanup policy does.
DeleteTicket(i) ==
    /\ Exists(tickets[i]) /\ ~tickets[i].deleting
    /\ TicketDeleted(i)
    /\ Change("deleteTicket")
    /\ UNCHANGED <<order, faults, cacheVars, queued, worker>>

\* The ticket controller has removed the finalizer of a deleted ticket.
FinishTicket(i) ==
    /\ tickets[i].deleting
    /\ tickets' = [tickets EXCEPT ![i] = NoTicket]
    /\ UNCHANGED <<order, changes, faults, cacheVars, queued, worker>>

\* The garbage collector deletes a ticket whose order is gone.
CollectTicket(i) ==
    /\ Exists(tickets[i]) /\ ~tickets[i].deleting
    /\ ~(order.exists /\ order.uid = tickets[i].owner)
    /\ TicketDeleted(i)
    /\ UNCHANGED <<order, changes, faults, cacheVars, queued, worker>>

------------------------------------------------------------------------------
(* Watch events *)

DeliverOrder ==
    /\ orderCache # order
    /\ orderCache' = order
    /\ queued' = TRUE
    /\ UNCHANGED <<clusterVars, ticketCache, worker>>

\* Mutant: the controller does not watch the tickets it owns.
DeliverTicketsUnowned ==
    /\ ticketCache # tickets
    /\ ticketCache' = tickets
    /\ UNCHANGED <<clusterVars, orderCache, queued, worker>>

\* Owns(&Ticket{}): an event of a ticket enqueues its order.
DeliverTickets ==
    /\ ticketCache # tickets
    /\ ticketCache' = tickets
    /\ queued' = TRUE
    /\ UNCHANGED <<clusterVars, orderCache, worker>>

------------------------------------------------------------------------------
(* Reconcile, up to its first API call *)

Idle == worker.call = "idle"

\* The worker takes the order and goes on with the given call.
Begin(call, obj, todo) ==
    /\ Idle /\ queued
    /\ queued' = FALSE
    /\ worker' = [Resting EXCEPT !.call = call, !.obj = obj, !.todo = todo]
    /\ UNCHANGED <<clusterVars, cacheVars>>

\* updateOrderStatus up to its call: it lists the tickets once more.
Report(reason) ==
    worker' = [worker EXCEPT !.call = "updateStatus", !.todo = {}, !.reason = reason,
                             !.status = StatusOf(ticketCache)]

BeginReport(reason) ==
    /\ Idle /\ queued
    /\ queued' = FALSE
    /\ worker' = [Resting EXCEPT !.call = "updateStatus", !.obj = orderCache,
                     !.reason = reason, !.status = StatusOf(ticketCache)]
    /\ UNCHANGED <<clusterVars, cacheVars>>

ReconcileGone ==
    /\ Idle /\ queued /\ ~orderCache.exists
    /\ queued' = FALSE
    /\ UNCHANGED <<clusterVars, cacheVars, worker>>

\* Mutant: the check for a paused order comes before the one for its deletion.
ReconcileDeletingUnpaused ==
    /\ orderCache.exists /\ orderCache.deleting /\ ~orderCache.paused
    /\ LET owned == OwnedTickets(ticketCache)
       IN  Begin(IF owned = {} THEN "removeFinalizer" ELSE "delete", orderCache, owned)

\* deleteOwnedTickets lists what is to be deleted; it may be nothing.
ReconcileDeleting ==
    /\ orderCache.exists /\ orderCache.deleting
    /\ LET owned == OwnedTickets(ticketCache)
       IN  Begin(IF owned = {} THEN "removeFinalizer" ELSE "delete", orderCache, owned)

ReconcileUnfinalized ==
    /\ orderCache.exists /\ ~orderCache.deleting /\ ~orderCache.finalizer
    /\ Begin("addFinalizer", orderCache, {})

ReconcilePaused ==
    /\ orderCache.exists /\ ~orderCache.deleting /\ orderCache.finalizer
    /\ orderCache.paused
    /\ BeginReport("Paused")

Working == orderCache.exists /\ ~orderCache.deleting /\ orderCache.finalizer
           /\ ~orderCache.paused

Missing == orderCache.replicas - Cardinality(ActiveTickets(ticketCache))

\* Mutants: indices from one; fresh names; names that overlook expired tickets.
NewIndicesFromOne ==
    LET n == Cardinality(OwnedTickets(ticketCache)) IN n + 1 .. n + Missing
NewIndicesFresh ==
    LET free == {i \in Index : ~Exists(tickets[i])}
    IN  {i \in free : Cardinality({j \in free : j < i}) < Missing}
NewIndicesActive ==
    LET n == Cardinality(ActiveTickets(ticketCache)) IN n .. n + Missing - 1

\* The names follow from the length of the list, expired tickets included.
NewIndices ==
    LET n == Cardinality(OwnedTickets(ticketCache)) IN n .. n + Missing - 1

ReconcileMissing == Working /\ Missing > 0 /\ Begin("create", orderCache, NewIndices)

\* Mutant: OnClaim takes tickets that are not claimed as well.
CandidatesUnclaimed ==
    IF orderCache.refresh = "Never" THEN {} ELSE ActiveTickets(ticketCache)

\* handleExcessTickets picks from the end of a list that has no particular order;
\* Never, and anything else, keeps them all.
Candidates ==
    CASE orderCache.refresh = "Always" -> ActiveTickets(ticketCache)
      [] orderCache.refresh = "OnClaim" -> InPhase(ticketCache, "Claimed")
      [] OTHER -> {}

Victims ==
    LET excess == 0 - Missing
        n == IF Cardinality(Candidates) < excess THEN Cardinality(Candidates) ELSE excess
    IN  {v \in SUBSET Candidates : Cardinality(v) = n}

ReconcileExcess ==
    /\ Working /\ Missing < 0
    /\ \E victims \in Victims \ {{}} : Begin("delete", orderCache, victims)

\* Nothing to create, and nothing to delete.
ReconcileSteady ==
    /\ Working /\ (Missing = 0 \/ (Missing < 0 /\ Candidates = {}))
    /\ BeginReport("Ready")

ReconcileStart ==
    \/ ReconcileGone
    \/ ReconcileDeleting
    \/ ReconcileUnfinalized
    \/ ReconcilePaused
    \/ ReconcileMissing
    \/ ReconcileExcess
    \/ ReconcileSteady

------------------------------------------------------------------------------
(* The API calls of the worker *)

Return(again) ==
    /\ worker' = Resting
    /\ queued' = (queued \/ again)

AddFinalizer ==
    /\ worker.call = "addFinalizer"
    /\ IF Current(worker.obj) THEN StoreOrder([worker.obj EXCEPT !.finalizer = TRUE])
       ELSE UNCHANGED order
    /\ Return(TRUE)
    /\ UNCHANGED <<tickets, changes, faults, cacheVars>>

\* What follows the creation or deletion of one of the tickets to do.
Done(i, next) ==
    IF worker.todo = {i} THEN next
    ELSE worker' = [worker EXCEPT !.todo = @ \ {i}]

NewTicket(i) == [NoTicket EXCEPT !.owner = worker.obj.uid, !.twin = Exists(ticketCache[i])]

\* createTicket, in the order of the indices.
CreateTicket(i) ==
    /\ worker.call = "create" /\ i \in worker.todo /\ \A j \in worker.todo : i <= j
    /\ ~Exists(tickets[i])
    /\ tickets' = [tickets EXCEPT ![i] = NewTicket(i)]
    /\ Done(i, Report("Ready"))
    /\ UNCHANGED <<order, changes, faults, cacheVars, queued>>

\* A ticket of that name exists: Create fails, and so does the reconciliation.
CreateCollides(i) ==
    /\ worker.call = "create" /\ i \in worker.todo /\ \A j \in worker.todo : i <= j
    /\ Exists(tickets[i])
    /\ Report("Failed")
    /\ UNCHANGED <<clusterVars, cacheVars, queued>>

\* handleExcessTickets deletes a ticket; one that is gone is an error.
DeleteExcess(i) ==
    /\ worker.call = "delete" /\ i \in worker.todo /\ ~worker.obj.deleting
    /\ IF Exists(tickets[i]) THEN TicketDeleted(i) /\ Done(i, Report("Ready"))
       ELSE UNCHANGED tickets /\ Report("Failed")
    /\ UNCHANGED <<order, changes, faults, cacheVars, queued>>

\* deleteOwnedTickets deletes a ticket; one that is gone is none.
DeleteOwned(i) ==
    /\ worker.call = "delete" /\ i \in worker.todo /\ worker.obj.deleting
    /\ IF Exists(tickets[i]) THEN TicketDeleted(i) ELSE UNCHANGED tickets
    /\ Done(i, worker' = [worker EXCEPT !.call = "removeFinalizer", !.todo = {}])
    /\ UNCHANGED <<order, changes, faults, cacheVars, queued>>

\* The finalizer goes without waiting for the tickets to go.
RemoveFinalizer ==
    /\ worker.call = "removeFinalizer"
    /\ IF Current(worker.obj) THEN StoreOrder(RemovedOrder(worker.obj)) /\ Return(FALSE)
       ELSE UNCHANGED order /\ Return(TRUE)
    /\ UNCHANGED <<tickets, changes, faults, cacheVars>>

\* A condition is added or set to True; the other type is left as it is.
Reported(obj) ==
    [obj EXCEPT !.status = worker.status,
        !.conditions = @ \cup {IF worker.reason = "Failed" THEN "Failure" ELSE "Ready"}]

\* Status().Update; only a paused order is not looked at again by itself.
UpdateStatus ==
    /\ worker.call = "updateStatus"
    /\ IF Current(worker.obj)
       THEN StoreOrder(Reported(worker.obj)) /\ Return(worker.reason # "Paused")
       ELSE UNCHANGED order /\ Return(TRUE)
    /\ UNCHANGED <<tickets, changes, faults, cacheVars>>

\* A call returns an error without effect.
CallFails ==
    /\ ~Idle /\ Fault
    /\ IF worker.call \in {"create", "delete"} /\ ~worker.obj.deleting
       THEN Report("Failed") /\ UNCHANGED queued
       ELSE Return(TRUE)
    /\ UNCHANGED <<order, tickets, changes, cacheVars>>

WorkerStep ==
    \/ AddFinalizer
    \/ \E i \in Index :
          \/ CreateTicket(i)
          \/ CreateCollides(i)
          \/ DeleteExcess(i)
          \/ DeleteOwned(i)
    \/ RemoveFinalizer
    \/ UpdateStatus
    \/ CallFails

\* The manager process ends and starts again.
Restart ==
    /\ Fault
    /\ orderCache' = order /\ ticketCache' = tickets
    /\ worker' = Resting /\ queued' = order.exists
    /\ UNCHANGED <<order, tickets, changes>>

Next ==
    \/ CreateOrder \/ ChangeSpec \/ DeleteOrder
    \/ \E i \in Index :
          MoveTicket(i) \/ DeleteTicket(i) \/ FinishTicket(i) \/ CollectTicket(i)
    \/ DeliverOrder \/ DeliverTickets
    \/ ReconcileStart
    \/ WorkerStep
    \/ Restart

Spec == Init /\ [][Next]_vars

\* Watch events arrive, the worker serves its queue and runs to the end, and the
\* ticket controller and the garbage collector do their part.
Fairness ==
    /\ WF_vars(DeliverOrder) /\ WF_vars(DeliverTickets)
    /\ WF_vars(ReconcileStart) /\ WF_vars(WorkerStep)
    /\ \A i \in Index : WF_vars(FinishTicket(i)) /\ WF_vars(CollectTicket(i))

FairSpec == Spec /\ Fairness

------------------------------------------------------------------------------
(* Safety *)

\* As long as no ticket is deleted, the number of tickets that hold or may get
\* capacity never exceeds what any version of the order has asked for, though the
\* controller counts in a stale list: a ticket that the list lacks occupies the
\* name it would create.  A deleted ticket frees its name, and then a list that
\* shows neither it nor its successor lets one too many be created.
NeverTooMany == Cardinality(ActiveTickets(tickets)) <= MaxReplicas

\* order_controller.go:199, "Only delete claimed tickets that are excess": under
\* OnClaim no ticket is taken away that a pod might still claim, though the list
\* that shows it as claimed is stale, and though Delete goes by name.  Only a ticket
\* that got the name of one which the list still shows may be taken for that one.
PastClaiming(i) ==
    ~Exists(tickets[i]) \/ tickets[i].twin \/ tickets[i].phase \in {"Claimed", "Expired"}

ClaimableKept ==
    [][\A i \in Index :
          DeleteExcess(i) /\ worker.obj.refresh = "OnClaim" => PastClaiming(i)]_vars

\* Nobody is about to look at the order, and there is no news for the controller.
AtRest == ~queued /\ Idle /\ orderCache = order /\ ticketCache = tickets

\* Only a paused order is left alone, and then with the counts of the tickets that
\* there are: no change of the order or of a ticket that comes while the controller
\* reports from an older list is lost.
NothingForgotten ==
    order.exists /\ AtRest =>
        /\ order.paused /\ order.finalizer /\ ~order.deleting
        /\ order.status = StatusOf(tickets)

------------------------------------------------------------------------------
(* Liveness, for FairSpec; the bounds make every behaviour settle *)

\* order_types.go:136, "Replicas defines the number of tickets to create": an
\* order that is neither deleted nor paused has its tickets in the end.
ReplicasReached ==
    <>[](order.exists /\ ~order.deleting /\ ~order.paused
         => Cardinality(ActiveTickets(tickets)) >= order.replicas)

\* The deletion of an order ends, and takes all tickets with it, also those that
\* the list it is cleaned up from does not show.
DeletionCascades ==
    \A u \in 1..MaxUid :
        order.deleting /\ order.uid = u
        ~> /\ ~(order.exists /\ order.uid = u)
           /\ \A i \in Index : tickets[i].owner # u

\* Once nothing changes any more the status counts what there is, also when the
\* reconciliation fails or the order is paused.
StatusSettles ==
    <>[](order.exists /\ ~order.deleting => order.status = StatusOf(tickets))
==============================================================================
