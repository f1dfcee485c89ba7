----------------------------- MODULE QuotaSystem ------------------------------
(***************************************************************************)
(* Quotas: the webhooks that admit quotas, orders and tickets against the  *)
(* lists of a lagging cache, and the QuotaReconciler that reports the use  *)
(* of every quota.  Orders and tickets are reduced to what a quota counts. *)
(***************************************************************************)
EXTENDS Integers, FiniteSets, FiniteSetsExt

CONSTANTS
    Quotas, Orders,  \* names
    NamespaceOf,     \* the namespace of each order and its tickets
    MaxReplicas,     \* bound: the largest spec.replicas
    Cpus,            \* the cpu requests of a ticket that users choose
    QuotaSpecs,      \* the specs of a quota that users choose
    MaxChanges,      \* bound: how many requests users make
    MaxFaults        \* bound: failing calls and restarts of the manager

\* The resources that hard may limit.
Resources == {"orders", "tickets", "reserved.cpu"}
IsLimits(hard) == DOMAIN hard \subseteq Resources /\ hard \in [DOMAIN hard -> Int]

ASSUME QuotaConstantsAssumption ==
    /\ IsFiniteSet(Quotas) /\ IsFiniteSet(Orders) /\ DOMAIN NamespaceOf = Orders
    /\ MaxReplicas \in Nat /\ MaxChanges \in Nat /\ MaxFaults \in Nat
    /\ Cpus \subseteq Nat /\ IsFiniteSet(Cpus)
    /\ \A spec \in QuotaSpecs : IsLimits(spec.hard) /\ spec.multiplier \in Int

VARIABLES
    quotas,       \* the quotas at the API server
    orders,       \* the orders at the API server
    tickets,      \* order -> cpu request -> how many tickets it has
    quotaCache, orderCache, ticketCache, \* the same in the informer cache
    reviews,      \* order -> the request for it that is under admission
    creations,    \* quota -> the request that has been let pass and is to be stored
    queue,        \* the quotas in the workqueue
    worker,       \* the running reconciliation of a quota
    changes,      \* how many requests users have made
    faults        \* how many faults there have been

apiVars == <<quotas, orders, tickets, changes, faults>>
cacheVars == <<quotaCache, orderCache, ticketCache>>
admissionVars == <<reviews, creations>>
controllerVars == <<queue, worker>>
vars == <<apiVars, cacheVars, admissionVars, controllerVars>>

------------------------------------------------------------------------------
(* Objects *)

\* A quantity that the code leaves out of a list is 0 here, which exceeds nothing.
Amounts == [Resources -> Int]
Amount(o, t, c) ==
    [r \in Resources |-> CASE r = "orders" -> o [] r = "tickets" -> t [] OTHER -> c]
Nothing == Amount(0, 0, 0)

Plus(a, b) == [r \in Resources |-> a[r] + b[r]]

\* isQuotaExceeded; hard limits some of the resources.
Exceeded(usage, hard) == \E r \in DOMAIN hard : usage[r] > hard[r]

OrderObject == [exists : BOOLEAN, replicas : 0..MaxReplicas, cpu : {0} \cup Cpus]
NoOrder == [exists |-> FALSE, replicas |-> 0, cpu |-> 0]

\* uid is the version that a life of the name began with, 0 if it has no life; used
\* and limits are status.used and status.hard; conditions are the types that have
\* been set, Ready to False and the others to True.
NoSpec == [type |-> "", members |-> {}, hard |-> <<>>, multiplier |-> 0, malformed |-> FALSE]
BlankQuota ==
    [exists |-> FALSE, rv |-> 0, uid |-> 0, finalizer |-> FALSE, deleting |-> FALSE,
     spec |-> NoSpec, used |-> Nothing, limits |-> <<>>, conditions |-> {}]
QuotaOK(q) ==
    /\ q.exists \in BOOLEAN /\ q.rv \in Nat /\ q.uid \in Nat /\ q.finalizer \in BOOLEAN
    /\ q.deleting \in BOOLEAN /\ q.spec \in QuotaSpecs \cup {NoSpec}
    /\ q.used \in Amounts /\ IsLimits(q.limits)
    /\ q.conditions \subseteq {"Ready", "Exceeded", "Enforced"}

\* A request for an order: what it replaces, what it asks for, and whether the
\* validating webhook has let it pass.
NoReview == [verb |-> "none", old |-> NoOrder, new |-> NoOrder, allowed |-> FALSE]
Review ==
    [verb : {"create", "update"}, old : OrderObject, new : OrderObject, allowed : BOOLEAN]

\* A request for a quota that has passed the webhook: its spec, and the lives of
\* other quotas on the list that it was compared with.
NoCreation == [spec |-> NoSpec, listed |-> {}]

Resting == [call |-> "idle", q |-> "none", obj |-> BlankQuota]

TypeOK ==
    /\ \A q \in Quotas : QuotaOK(quotas[q]) /\ QuotaOK(quotaCache[q])
    /\ orders \in [Orders -> OrderObject] /\ orderCache \in [Orders -> OrderObject]
    /\ tickets \in [Orders -> [Cpus -> Nat]] /\ ticketCache \in [Orders -> [Cpus -> Nat]]
    /\ reviews \in [Orders -> {NoReview} \cup Review]
    /\ \A q \in Quotas :
          \/ creations[q] = NoCreation
          \/ creations[q].spec \in QuotaSpecs /\ creations[q].listed \subseteq Quotas \X Nat
    /\ queue \subseteq Quotas
    /\ worker.call \in {"idle", "addFinalizer", "updateStatus", "removeFinalizer"}
    /\ worker.call # "idle" => worker.q \in Quotas /\ QuotaOK(worker.obj)
    /\ changes \in 0..MaxChanges /\ faults \in 0..MaxFaults

Init ==
    /\ quotas = [q \in Quotas |-> BlankQuota] /\ quotaCache = quotas
    /\ orders = [o \in Orders |-> NoOrder] /\ orderCache = orders
    /\ tickets = [o \in Orders |-> [c \in Cpus |-> 0]] /\ ticketCache = tickets
    /\ reviews = [o \in Orders |-> NoReview] /\ creations = [q \in Quotas |-> NoCreation]
    /\ queue = {} /\ worker = Resting
    /\ changes = 0 /\ faults = 0

------------------------------------------------------------------------------
(* Scopes and usage *)

\* The orders that a quota counts: members are namespaces, or the orders whose
\* labels match.  An order and its tickets carry the same labels here.
InScope(spec) ==
    CASE spec.type = "Cluster" -> Orders
      [] spec.type \in {"NamespaceList", "NamespaceSelector"} ->
            {o \in Orders : NamespaceOf[o] \in spec.members}
      [] OTHER -> Orders \cap spec.members

\* Mutant: the case for lists of namespaces is missing.
AppliesCluster(spec, o) == spec.type = "Cluster"

\* doesQuotaApply of the webhooks, which take no selector into account.
Applies(spec, o) ==
    \/ spec.type = "Cluster"
    \/ spec.type = "NamespaceList" /\ NamespaceOf[o] \in spec.members

CountOrders(spec, os) == Cardinality({o \in InScope(spec) : os[o].exists})
CountTickets(spec, ts) ==
    SumFunctionOnSet([o \in Orders |-> SumFunctionOnSet(ts[o], Cpus)], InScope(spec))
ReservedCpu(spec, ts) ==
    SumFunctionOnSet(
        [o \in Orders |-> SumFunctionOnSet([c \in Cpus |-> c * ts[o][c]], Cpus)], InScope(spec))

\* calculateResourceUsage of the controller.
Usage(spec, os, ts) ==
    Amount(CountOrders(spec, os), CountTickets(spec, ts), ReservedCpu(spec, ts))

\* calculateQuotaUsage of the order webhook, which counts no reserved resources.
WebhookUsage(spec) ==
    Amount(CountOrders(spec, orderCache), CountTickets(spec, ticketCache), 0)

\* calculateCurrentLimits: the first time window is always the active one.
CurrentLimits(spec) ==
    IF spec.multiplier > 0 THEN [r \in DOMAIN spec.hard |-> spec.hard[r] * spec.multiplier]
    ELSE spec.hard

------------------------------------------------------------------------------
(* Admission of orders *)

Request(order) == Amount(1, order.replicas, order.cpu * order.replicas)

Delta(review) ==
    [r \in Resources |-> Request(review.new)[r] - Request(review.old)[r]]

\* validateAgainstQuotas.
Complies(o, amount) ==
    \A q \in Quotas :
        quotaCache[q].exists /\ Applies(quotaCache[q].spec, o)
        => ~Exceeded(Plus(WebhookUsage(quotaCache[q].spec), amount), quotaCache[q].spec.hard)

\* Mutant: an update is checked only if it asks for more orders.
AdmissibleUnlessNew(o) ==
    LET review == reviews[o]
    IN  IF review.verb = "create" THEN Complies(o, Request(review.new))
        ELSE Delta(review)["orders"] > 0 => Complies(o, Delta(review))

\* ValidateCreate and ValidateUpdate: an update that asks for no more of anything
\* is not checked.
Admissible(o) ==
    LET review == reviews[o]
    IN  IF review.verb = "create" THEN Complies(o, Request(review.new))
        ELSE (\E r \in Resources : Delta(review)[r] > 0) => Complies(o, Delta(review))

ByUser == changes < MaxChanges /\ changes' = changes + 1
Fault == faults < MaxFaults /\ faults' = faults + 1

OrderSpecs == [exists : {TRUE}, replicas : 0..MaxReplicas, cpu : Cpus]

\* A user's request reaches the validating webhook.
Submit(o, verb) ==
    /\ reviews[o] = NoReview
    /\ verb = (IF orders[o].exists THEN "update" ELSE "create")
    /\ \E new \in OrderSpecs \ {orders[o]} :
          reviews' = [reviews EXCEPT ![o] =
              [verb |-> verb, old |-> orders[o], new |-> new, allowed |-> FALSE]]
    /\ ByUser
    /\ UNCHANGED <<quotas, orders, tickets, faults, cacheVars, creations, controllerVars>>

SubmitCreate(o) == Submit(o, "create")
SubmitUpdate(o) == Submit(o, "update")

Allow(o) ==
    /\ reviews[o] # NoReview /\ ~reviews[o].allowed /\ Admissible(o)
    /\ reviews' = [reviews EXCEPT ![o].allowed = TRUE]
    /\ UNCHANGED <<apiVars, cacheVars, creations, controllerVars>>

Deny(o) ==
    /\ reviews[o] # NoReview /\ ~reviews[o].allowed /\ ~Admissible(o)
    /\ reviews' = [reviews EXCEPT ![o] = NoReview]
    /\ UNCHANGED <<apiVars, cacheVars, creations, controllerVars>>

\* The API server stores what has been allowed, if it still replaces the same.
Persist(o) ==
    /\ reviews[o].allowed /\ orders[o] = reviews[o].old
    /\ orders' = [orders EXCEPT ![o] = reviews[o].new]
    /\ reviews' = [reviews EXCEPT ![o] = NoReview]
    /\ UNCHANGED <<quotas, tickets, changes, faults, cacheVars, creations, controllerVars>>

\* The order is gone: the request is dropped.
Drop(o) ==
    /\ reviews[o].verb = "update" /\ ~orders[o].exists
    /\ reviews' = [reviews EXCEPT ![o] = NoReview]
    /\ UNCHANGED <<apiVars, cacheVars, creations, controllerVars>>

DeleteOrder(o) ==
    /\ orders[o].exists
    /\ orders' = [orders EXCEPT ![o] = NoOrder]
    /\ ByUser
    /\ UNCHANGED <<quotas, tickets, faults, cacheVars, admissionVars, controllerVars>>

------------------------------------------------------------------------------
(* Tickets *)

\* The ticket webhook compares one ticket with the limits, and counts nothing.
TicketComplies(o, cpu) ==
    \A q \in Quotas :
        quotaCache[q].exists /\ Applies(quotaCache[q].spec, o)
        => ~Exceeded(Amount(0, 1, cpu), quotaCache[q].spec.hard)

TicketsOf(o) == SumFunctionOnSet(tickets[o], Cpus)

\* The order controller creates a missing ticket.
CreateTicket(o) ==
    /\ orders[o].exists /\ TicketsOf(o) < orders[o].replicas
    /\ TicketComplies(o, orders[o].cpu)
    /\ tickets' = [tickets EXCEPT ![o][orders[o].cpu] = @ + 1]
    /\ UNCHANGED <<quotas, orders, changes, faults, cacheVars, admissionVars, controllerVars>>

\* An excess ticket, or one of an order that is gone, goes.
DeleteTicket(o) ==
    /\ TicketsOf(o) > orders[o].replicas
    /\ \E c \in Cpus : tickets[o][c] > 0 /\ tickets' = [tickets EXCEPT ![o][c] = @ - 1]
    /\ UNCHANGED <<quotas, orders, changes, faults, cacheVars, admissionVars, controllerVars>>

------------------------------------------------------------------------------
(* Quotas at the API server *)

Current(q, copy) == quotas[q].exists /\ quotas[q].rv = copy.rv

Store(q, obj) ==
    quotas' = [quotas EXCEPT ![q] =
        IF [obj EXCEPT !.rv = quotas[q].rv] = quotas[q] THEN quotas[q]
        ELSE [obj EXCEPT !.rv = quotas[q].rv + 1]]

\* validateNoConflictingQuotas, against the quotas in the cache.
NoConflict(q, spec) ==
    spec.type = "Cluster" =>
        \A other \in Quotas \ {q} :
            ~(quotaCache[other].exists /\ quotaCache[other].spec.type = "Cluster")

\* ValidateCreate lets a user's request pass.
AllowQuota(q) ==
    /\ ~quotas[q].exists /\ creations[q] = NoCreation
    /\ \E spec \in QuotaSpecs :
          /\ NoConflict(q, spec)
          /\ creations' = [creations EXCEPT ![q] =
                [spec |-> spec,
                 listed |-> {<<p, quotaCache[p].uid>> : p \in {p \in Quotas \ {q} : quotaCache[p].exists}}]]
    /\ ByUser
    /\ UNCHANGED <<quotas, orders, tickets, faults, cacheVars, reviews, controllerVars>>

\* The API server stores it later.
PersistQuota(q) ==
    /\ ~quotas[q].exists /\ creations[q] # NoCreation
    /\ Store(q, [BlankQuota EXCEPT !.exists = TRUE, !.uid = quotas[q].rv + 1,
                                   !.spec = creations[q].spec])
    /\ creations' = [creations EXCEPT ![q] = NoCreation]
    /\ UNCHANGED <<orders, tickets, changes, faults, cacheVars, reviews, controllerVars>>

\* Mutant: the type of the scope may change.
EditQuotaFreely(q) ==
    /\ quotas[q].exists
    /\ \E spec \in QuotaSpecs :
          spec # quotas[q].spec /\ Store(q, [quotas[q] EXCEPT !.spec = spec])
    /\ ByUser
    /\ UNCHANGED <<orders, tickets, faults, cacheVars, admissionVars, controllerVars>>

\* validateQuotaImmutableFields: the type of the scope stays.  What it compares with
\* is what the API server replaces, so no step lies between.
EditQuota(q) ==
    /\ quotas[q].exists
    /\ \E spec \in QuotaSpecs :
          /\ spec.type = quotas[q].spec.type /\ spec # quotas[q].spec
          /\ Store(q, [quotas[q] EXCEPT !.spec = spec])
    /\ ByUser
    /\ UNCHANGED <<orders, tickets, faults, cacheVars, admissionVars, controllerVars>>

DeleteQuota(q) ==
    /\ quotas[q].exists /\ ~quotas[q].deleting
    /\ Store(q, IF quotas[q].finalizer THEN [quotas[q] EXCEPT !.deleting = TRUE] ELSE BlankQuota)
    /\ ByUser
    /\ UNCHANGED <<orders, tickets, faults, cacheVars, admissionVars, controllerVars>>

------------------------------------------------------------------------------
(* Watch events; only those of quotas enqueue anything *)

DeliverQuotas ==
    /\ quotaCache # quotas
    /\ quotaCache' = quotas
    /\ queue' = queue \cup {q \in Quotas : quotaCache[q] # quotas[q]}
    /\ UNCHANGED <<apiVars, orderCache, ticketCache, admissionVars, worker>>

DeliverOrders ==
    /\ orderCache # orders /\ orderCache' = orders
    /\ UNCHANGED <<apiVars, quotaCache, ticketCache, admissionVars, controllerVars>>

DeliverTickets ==
    /\ ticketCache # tickets /\ ticketCache' = tickets
    /\ UNCHANGED <<apiVars, quotaCache, orderCache, admissionVars, controllerVars>>

------------------------------------------------------------------------------
(* The quota controller *)

Begin(q, call, obj) ==
    /\ worker.call = "idle" /\ q \in queue
    /\ queue' = queue \ {q}
    /\ worker' = [call |-> call, q |-> q, obj |-> obj]
    /\ UNCHANGED <<apiVars, cacheVars, admissionVars>>

ReconcileGone(q) ==
    /\ worker.call = "idle" /\ q \in queue /\ ~quotaCache[q].exists
    /\ queue' = queue \ {q}
    /\ UNCHANGED <<apiVars, cacheVars, admissionVars, worker>>

ReconcileDeleting(q) ==
    /\ quotaCache[q].exists /\ quotaCache[q].deleting
    /\ Begin(q, "removeFinalizer", quotaCache[q])

ReconcileUnfinalized(q) ==
    /\ quotaCache[q].exists /\ ~quotaCache[q].deleting /\ ~quotaCache[q].finalizer
    /\ Begin(q, "addFinalizer", quotaCache[q])

Live(q) == quotaCache[q].exists /\ ~quotaCache[q].deleting /\ quotaCache[q].finalizer

\* Mutant: the reason is taken for the type of the condition.
ReconcileFailedReason(q) ==
    /\ Live(q) /\ quotaCache[q].spec.malformed
    /\ Begin(q, "updateStatus", [quotaCache[q] EXCEPT !.conditions = @ \cup {"Failed"}])

\* A selector does not parse: the usage cannot be calculated.
ReconcileFailed(q) ==
    /\ Live(q) /\ quotaCache[q].spec.malformed
    /\ Begin(q, "updateStatus", [quotaCache[q] EXCEPT !.conditions = @ \cup {"Ready"}])

\* A condition that is set stays set.
Reported(obj, usage, limits) ==
    [obj EXCEPT !.used = usage, !.limits = limits,
        !.conditions = @ \cup {IF Exceeded(usage, limits) THEN "Exceeded" ELSE "Enforced"}]

ReconcileUsage(q) ==
    /\ Live(q) /\ ~quotaCache[q].spec.malformed
    /\ Begin(q, "updateStatus",
             Reported(quotaCache[q], Usage(quotaCache[q].spec, orderCache, ticketCache),
                      CurrentLimits(quotaCache[q].spec)))

Reconcile(q) ==
    \/ ReconcileGone(q)
    \/ ReconcileDeleting(q)
    \/ ReconcileUnfinalized(q)
    \/ ReconcileFailed(q)
    \/ ReconcileUsage(q)

Return(again) ==
    /\ worker' = Resting
    /\ queue' = IF again THEN queue \cup {worker.q} ELSE queue

AddFinalizer ==
    /\ worker.call = "addFinalizer"
    /\ IF Current(worker.q, worker.obj)
       THEN Store(worker.q, [worker.obj EXCEPT !.finalizer = TRUE]) ELSE UNCHANGED quotas
    /\ Return(TRUE)
    /\ UNCHANGED <<orders, tickets, changes, faults, cacheVars, admissionVars>>

\* Mutant: a quota that has been reported is not looked at again.
UpdateStatusOnce ==
    /\ worker.call = "updateStatus"
    /\ IF Current(worker.q, worker.obj) THEN Store(worker.q, worker.obj) /\ Return(FALSE)
       ELSE UNCHANGED quotas /\ Return(TRUE)
    /\ UNCHANGED <<orders, tickets, changes, faults, cacheVars, admissionVars>>

\* RequeueAfter, or an error.
UpdateStatus ==
    /\ worker.call = "updateStatus"
    /\ IF Current(worker.q, worker.obj) THEN Store(worker.q, worker.obj) ELSE UNCHANGED quotas
    /\ Return(TRUE)
    /\ UNCHANGED <<orders, tickets, changes, faults, cacheVars, admissionVars>>

RemoveFinalizer ==
    /\ worker.call = "removeFinalizer"
    /\ IF Current(worker.q, worker.obj) THEN Store(worker.q, BlankQuota) /\ Return(FALSE)
       ELSE UNCHANGED quotas /\ Return(quotas[worker.q].exists)
    /\ UNCHANGED <<orders, tickets, changes, faults, cacheVars, admissionVars>>

CallFails ==
    /\ worker.call # "idle" /\ Fault
    /\ Return(TRUE)
    /\ UNCHANGED <<quotas, orders, tickets, changes, cacheVars, admissionVars>>

WorkerStep == AddFinalizer \/ UpdateStatus \/ RemoveFinalizer \/ CallFails

\* The manager process ends, with the webhook calls it serves, and starts again.
Restart ==
    /\ Fault
    /\ quotaCache' = quotas /\ orderCache' = orders /\ ticketCache' = tickets
    /\ queue' = {q \in Quotas : quotas[q].exists} /\ worker' = Resting
    /\ reviews' = [o \in Orders |-> IF reviews[o].allowed THEN reviews[o] ELSE NoReview]
    /\ UNCHANGED <<quotas, orders, tickets, changes, creations>>

Next ==
    \/ \E o \in Orders :
          \/ SubmitCreate(o) \/ SubmitUpdate(o) \/ DeleteOrder(o)
          \/ Allow(o) \/ Deny(o) \/ Persist(o) \/ Drop(o)
          \/ CreateTicket(o) \/ DeleteTicket(o)
    \/ \E q \in Quotas :
          \/ AllowQuota(q) \/ PersistQuota(q) \/ EditQuota(q) \/ DeleteQuota(q)
          \/ Reconcile(q)
    \/ DeliverQuotas \/ DeliverOrders \/ DeliverTickets
    \/ WorkerStep
    \/ Restart

Spec == Init /\ [][Next]_vars

Fairness ==
    /\ WF_vars(DeliverQuotas) /\ WF_vars(DeliverOrders) /\ WF_vars(DeliverTickets)
    /\ WF_vars(WorkerStep) /\ \A q \in Quotas : SF_vars(Reconcile(q))

FairSpec == Spec /\ Fairness

------------------------------------------------------------------------------
(* Properties *)

\* An order that is admitted while the cache is current and no other admission
\* is under way leaves every quota for it with no more orders than it allows.
SerialAdmission ==
    [][\A o \in Orders :
          /\ reviews'[o].allowed /\ ~reviews[o].allowed /\ reviews[o].verb = "create"
          /\ quotaCache = quotas /\ orderCache = orders
          /\ \A p \in Orders : ~reviews[p].allowed
          => \A q \in Quotas :
                /\ quotas[q].exists /\ "orders" \in DOMAIN quotas[q].spec.hard
                /\ quotas[q].spec.type \in {"Cluster", "NamespaceList"}
                /\ o \in InScope(quotas[q].spec)
                => Cardinality({p \in InScope(quotas[q].spec) : orders[p].exists \/ p = o})
                      <= quotas[q].spec.hard["orders"]]_vars

\* Likewise for tickets, of which an order promises as many as it has replicas, once
\* the order controller has caught up and for updates too, that are checked by
\* their difference alone: what is promised is within every limit, or has not grown.
Promised(spec, os) == SumFunctionOnSet([o \in Orders |-> os[o].replicas], InScope(spec))

SettledAdmission ==
    [][\A o \in Orders :
          /\ reviews'[o].allowed /\ ~reviews[o].allowed /\ orders[o] = reviews[o].old
          /\ quotaCache = quotas /\ orderCache = orders /\ ticketCache = tickets
          /\ \A p \in Orders : ~reviews[p].allowed /\ TicketsOf(p) = orders[p].replicas
          => \A q \in Quotas :
                LET spec  == quotas[q].spec
                    after == Promised(spec, [orders EXCEPT ![o] = reviews[o].new])
                IN  /\ quotas[q].exists /\ "tickets" \in DOMAIN spec.hard
                    /\ spec.type \in {"Cluster", "NamespaceList"} /\ o \in InScope(spec)
                    => after <= spec.hard["tickets"] \/ after <= Promised(spec, orders)]_vars

\* docs/quota.yaml:8, only one quota of scope Cluster is allowed.  Two may be stored
\* all the same, but in one way only: a quota comes to be one beside another when its
\* request was let pass on a list that did not show that life of the other, which an
\* edit, a controller's write or a name used again never brings about.
ClusterQuotas == {q \in Quotas : quotas[q].exists /\ quotas[q].spec.type = "Cluster"}

OnlyStaleListsAdd ==
    [][\A q \in ClusterQuotas' \ ClusterQuotas : \A p \in ClusterQuotas \ {q} :
          creations[q] # NoCreation /\ <<p, quotas[p].uid>> \notin creations[q].listed]_vars

\* For FairSpec: once users make no more requests, the status of every quota shows
\* what is really used, though no event of an order or a ticket reaches the
\* controller, and a quota that stays exceeded is reported so.
StatusSettles ==
    <>[](\A q \in Quotas :
            quotas[q].exists /\ ~quotas[q].deleting /\ ~quotas[q].spec.malformed
            => /\ quotas[q].used = Usage(quotas[q].spec, orders, tickets)
               /\ quotas[q].limits = CurrentLimits(quotas[q].spec)
               /\ Exceeded(quotas[q].used, quotas[q].limits)
                     => "Exceeded" \in quotas[q].conditions)

\* docs/requirements.md:38, the quota mechanism ensures that the use of resources
\* complies with the limits; for quotas that are there first and stay as they are.
QuotaRespected ==
    \A q \in Quotas :
        quotas[q].exists => ~Exceeded(Usage(quotas[q].spec, orders, tickets), quotas[q].spec.hard)
==============================================================================
