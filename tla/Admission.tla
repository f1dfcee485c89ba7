-------------------------------- MODULE Admission --------------------------------
(***************************************************************************)
(* What the webhooks of orders, tickets and quotas make of an object, and  *)
(* which objects they let pass, but for the quotas' limits (QuotaSystem).  *)
(* The module follows one object: it is created, updated and deleted by    *)
(* users, an order issues a ticket, and the clock runs meanwhile.  The API *)
(* server decodes a request with the defaults of the CRD, calls the        *)
(* mutating webhook, validates by the CRD, and calls the validating        *)
(* webhook; a request that is refused changes nothing.                     *)
(***************************************************************************)
EXTENDS Cron

CONSTANTS
    TicketSpecs, OrderSpecs, QuotaSpecs,  \* what users write
    MaxInt                                \* the largest int64; the least is -MaxInt - 1

VARIABLE object  \* the object that is followed

------------------------------------------------------------------------------
(* Objects *)

\* Quantities by name, a partial function, counted in tenths of a unit.
Resources == {"cpu", "memory"}
NoAmounts == [r \in {} |-> 0]
Amounts(a, names) == DOMAIN a \subseteq names /\ a \in [DOMAIN a -> Int]

\* A spec without a window, or without a lifecycle, is one without any of their
\* fields.  resources says whether spec.resources is given.
TicketSpec(s) ==
    /\ s \in [start : {"nil", "", "malformed", "future", "past"},
             duration : {"", "malformed", "nonpositive", "positive"},
             policy : {"Delete", "Retain"}, ttl : {"nil", "negative", "set"},
             scheduler : {"nil", "set"}, node : {"nil", "n1", "n2"},
             resources : BOOLEAN, requests : {s.requests}, limits : {s.limits}]
    /\ Amounts(s.requests, Resources) /\ Amounts(s.limits, Resources)
    /\ ~s.resources => s.requests = NoAmounts /\ s.limits = NoAmounts

\* Replicas that are not given.
Unset == -1

\* owner is the template's label korder.dev/order-uid: not there, empty, the UID of
\* the order, or something else.  The label with the order's name goes along with it.
OrderSpec(o) ==
    /\ o \in [replicas : Int, refresh : {"", "Always", "OnClaim", "Never"},
             selector : {"nil", "empty", "set"}, owner : {"nil", "", "own", "other"},
             template : {o.template}]
    /\ TicketSpec(o.template)

\* The resources that hard may limit; any name is allowed.
HardNames == {"orders", "tickets", "reserved.cpu", "reserved.memory", "max-duration"}

\* named and multiplied say whether the name and the multiplier of a time window
\* are not empty; clear whether the limits of an allocation are not negative.
TimeWindow == [named : BOOLEAN, multiplied : BOOLEAN, schedule : Seq(Field)]
Allocation == [namespace : {"", "ns"}, clear : BOOLEAN]

QuotaSpec(q) ==
    /\ q \in [type : {"", "Cluster", "NamespaceList", "NamespaceSelector", "ObjectSelector"},
             namespaces : SUBSET {"", "ns"},
             selectors : SUBSET {"NamespaceSelector", "ObjectSelector"},
             hard : {q.hard}, windows : SUBSET TimeWindow, allocations : SUBSET Allocation]
    /\ Amounts(q.hard, HardNames)

ASSUME AdmissionAssumption ==
    /\ \A s \in TicketSpecs : TicketSpec(s)
    /\ \A o \in OrderSpecs : OrderSpec(o)
    /\ \A q \in QuotaSpecs : QuotaSpec(q)
    /\ MaxInt \in Nat

------------------------------------------------------------------------------
(* Tickets *)

\* 100m of cpu and 128Mi of memory; of the latter only that it is a whole amount.
DefaultRequests == [r \in Resources |-> IF r = "cpu" THEN 1 ELSE 10]

\* Mutant: a window that has a start time gets no duration.
TicketDefaultUntimed(s) ==
    [s EXCEPT !.ttl = IF s.policy = "Delete" /\ @ = "nil" THEN "set" ELSE @,
              !.duration = IF @ = "" /\ s.start = "nil" THEN "positive" ELSE @,
              !.start = IF @ = "nil" THEN "past" ELSE @,
              !.scheduler = "set",
              !.resources = TRUE,
              !.requests = IF s.resources THEN @ ELSE DefaultRequests]

\* TicketCustomDefaulter.Default.  A time that it takes from the clock lies in
\* the past when it is looked at.
TicketDefault(s) ==
    [s EXCEPT !.ttl = IF s.policy = "Delete" /\ @ = "nil" THEN "set" ELSE @,
              !.duration = IF @ = "" THEN "positive" ELSE @,
              !.start = IF @ = "nil" THEN "past" ELSE @,
              !.scheduler = "set",
              !.resources = TRUE,
              !.requests = IF s.resources THEN @ ELSE DefaultRequests]

RequestsWithinLimits(s) ==
    \A r \in DOMAIN s.requests \cap DOMAIN s.limits : s.requests[r] <= s.limits[r]

\* The checks that validateTicketTemplate and validateTicketSpec share.
WellFormed(s) ==
    /\ s.duration # "malformed" /\ s.start # "malformed"
    /\ s.ttl # "negative"
    /\ RequestsWithinLimits(s)

NonNegative(amounts) == \A r \in DOMAIN amounts : amounts[r] >= 0

\* Mutant: a start time in the past is an error, not a warning.
ValidTicketSpecInTime(s) ==
    /\ WellFormed(s)
    /\ s.duration # "nonpositive" /\ s.start # "past"
    /\ NonNegative(s.requests) /\ NonNegative(s.limits)

\* validateTicketSpec and validateTicketResources.
ValidTicketSpec(s) ==
    /\ WellFormed(s)
    /\ s.duration # "nonpositive"
    /\ NonNegative(s.requests) /\ NonNegative(s.limits)

\* validateTicketImmutableFields.
NodeKept(old, new) == old.node = new.node \/ "nil" \in {old.node, new.node}

AcceptsTicket(raw) == ValidTicketSpec(TicketDefault(raw))
AcceptsTicketUpdate(old, raw) ==
    NodeKept(old, TicketDefault(raw)) /\ ValidTicketSpec(TicketDefault(raw))

------------------------------------------------------------------------------
(* Orders *)

\* setTicketTemplateDefaults.
TemplateDefault(s) ==
    [s EXCEPT !.duration = IF @ = "" THEN "positive" ELSE @,
              !.ttl = IF s.policy = "Delete" /\ @ = "nil" THEN "set" ELSE @,
              !.scheduler = "set"]

\* OrderCustomDefaulter.Default for an order with this uid; the CRD's defaults are
\* the same.  The API server gives an order its UID only after the webhooks.
OrderDefault(o, uid) ==
    [o EXCEPT !.replicas = IF @ = Unset THEN 1 ELSE @,
              !.refresh = IF @ = "" THEN "OnClaim" ELSE @,
              !.owner = uid,
              !.template = TemplateDefault(@)]
OrderCreated(raw) == OrderDefault(raw, "")
OrderUpdated(raw) == OrderDefault(raw, "own")

\* The CRD.
ValidByOrderSchema(o) == o.replicas >= 0

\* Mutant: the template is taken as it is.
ValidOrderSpecUntemplated(o) == o.replicas >= 0 /\ o.selector # "empty"

\* validateOrderSpec, which only new orders go through.
ValidOrderSpec(o) ==
    o.replicas >= 0 /\ WellFormed(o.template) /\ o.selector # "empty"

AcceptsOrder(raw) ==
    ValidByOrderSchema(OrderCreated(raw)) /\ ValidOrderSpec(OrderCreated(raw))
AcceptsOrderUpdate(raw) == ValidByOrderSchema(OrderUpdated(raw))

\* int64 arithmetic.
Wrapped(n) == ((n + MaxInt + 1) % (2 * (MaxInt + 1))) - (MaxInt + 1)

\* Mutant: Value drops the fraction.
ValueTruncated(q) == q \div 10

\* Quantity.Value: rounded up to whole units, away from zero.
Value(q) == IF q >= 0 THEN (q + 9) \div 10 ELSE -((9 - q) \div 10)

\* calculateOrderResourceRequests: the reserved resources, in whole units.
OrderRequest(o) ==
    [r \in DOMAIN o.template.requests |-> Wrapped(Value(o.template.requests[r]) * o.replicas)]

------------------------------------------------------------------------------
(* Quotas *)

\* QuotaCustomDefaulter.Default: the limits of an empty hard, and seven days.
DefaultHard ==
    [n \in HardNames \ {"max-duration"} |->
        CASE n = "orders" -> 100 [] n = "tickets" -> 1000
          [] n = "reserved.cpu" -> 1000 [] n = "reserved.memory" -> 2000]
MaxDuration == 7 * 24 * 60 * 60

WithMaxDuration(hard) ==
    [n \in DOMAIN hard \cup {"max-duration"} |->
        IF n \in DOMAIN hard THEN hard[n] ELSE MaxDuration]

QuotaDefault(q) ==
    [q EXCEPT !.type = IF @ = "" THEN "Cluster" ELSE @,
              !.hard = WithMaxDuration(IF DOMAIN @ = {} THEN DefaultHard ELSE @)]

\* validateQuotaSpec; the schedule of a time window only has to be there.
ValidQuotaSpec(q) ==
    /\ \A n \in DOMAIN q.hard : q.hard[n] >= 0
    /\ \/ q.type = "Cluster"
       \/ q.type = "NamespaceList" /\ q.namespaces # {}
       \/ q.type \in {"NamespaceSelector", "ObjectSelector"} \cap q.selectors
    /\ \A w \in q.windows : w.named /\ w.multiplied /\ w.schedule # <<>>
    /\ \A a \in q.allocations : a.namespace # "" /\ a.clear

\* validateQuotaScope, which only new quotas go through.
ValidQuotaScope(q) ==
    q.type = "NamespaceList" => q.namespaces # {} /\ "" \notin q.namespaces

AcceptsQuota(raw) ==
    ValidQuotaSpec(QuotaDefault(raw)) /\ ValidQuotaScope(QuotaDefault(raw))

\* validateQuotaImmutableFields, and the spec once more.
AcceptsQuotaUpdate(old, raw) ==
    old.type = QuotaDefault(raw).type /\ ValidQuotaSpec(QuotaDefault(raw))

------------------------------------------------------------------------------
(* The life of the object *)

\* As long as nobody has updated it since its creation an object is fresh.
Absent == [kind |-> "none"]
Stored(kind, spec, fresh) == [kind |-> kind, spec |-> spec, fresh |-> fresh]

\* What is stored has the fields that the controllers take for granted: a duration
\* that parses (handlePendingTicket), replicas and a refresh policy, a scope.
TypeOK ==
    CASE object.kind = "ticket" -> TicketSpec(object.spec) /\ object.spec.duration = "positive"
      [] object.kind = "order" ->
            OrderSpec(object.spec) /\ object.spec.replicas >= 0 /\ object.spec.refresh # ""
      [] object.kind = "quota" -> QuotaSpec(object.spec) /\ object.spec.type # ""
      [] OTHER -> object = Absent

Init == object = Absent

CreateTicket ==
    /\ object = Absent
    /\ \E raw \in TicketSpecs :
          AcceptsTicket(raw) /\ object' = Stored("ticket", TicketDefault(raw), TRUE)

UpdateTicket ==
    /\ object.kind = "ticket"
    /\ \E raw \in TicketSpecs :
          /\ AcceptsTicketUpdate(object.spec, raw)
          /\ object' = Stored("ticket", TicketDefault(raw), FALSE)

CreateOrder ==
    /\ object = Absent
    /\ \E raw \in OrderSpecs :
          AcceptsOrder(raw) /\ object' = Stored("order", OrderCreated(raw), TRUE)

UpdateOrder ==
    /\ object.kind = "order"
    /\ \E raw \in OrderSpecs :
          AcceptsOrderUpdate(raw) /\ object' = Stored("order", OrderUpdated(raw), FALSE)

\* The order controller writes back what it has read, with its finalizer.
FinalizeOrder ==
    /\ object.kind = "order"
    /\ AcceptsOrderUpdate(object.spec)
    /\ object' = [object EXCEPT !.spec = OrderUpdated(@)]

\* The order controller creates a ticket from the template, which is followed.
IssueTicket ==
    /\ object.kind = "order"
    /\ AcceptsTicket(object.spec.template)
    /\ object' = Stored("ticket", TicketDefault(object.spec.template), TRUE)

CreateQuota ==
    /\ object = Absent
    /\ \E raw \in QuotaSpecs :
          AcceptsQuota(raw) /\ object' = Stored("quota", QuotaDefault(raw), TRUE)

UpdateQuota ==
    /\ object.kind = "quota"
    /\ \E raw \in QuotaSpecs :
          /\ AcceptsQuotaUpdate(object.spec, raw)
          /\ object' = Stored("quota", QuotaDefault(raw), FALSE)

\* The webhooks are not called for deletions.
Delete == object # Absent /\ object' = Absent

\* The clock reaches the start time of a ticket, or of an order's template.
TicketStarts ==
    /\ object.kind = "ticket" /\ object.spec.start = "future"
    /\ object' = [object EXCEPT !.spec.start = "past"]

TemplateStarts ==
    /\ object.kind = "order" /\ object.spec.template.start = "future"
    /\ object' = [object EXCEPT !.spec.template.start = "past"]

Next ==
    \/ CreateTicket \/ UpdateTicket
    \/ CreateOrder \/ UpdateOrder \/ FinalizeOrder \/ IssueTicket
    \/ CreateQuota \/ UpdateQuota \/ Delete \/ TicketStarts \/ TemplateStarts

Spec == Init /\ [][Next]_object

------------------------------------------------------------------------------
(* Properties *)

\* A controller that writes back what it has read, to add or remove its finalizer,
\* is never refused, whatever the clock says by then: deletions end.  The mutating
\* webhooks leave the spec of a ticket or a quota as it is; an order gets the label
\* that it could not get before it had a UID (order_webhook.go:101), and nothing else.
WritesAdmitted ==
    LET s == object.spec
    IN  CASE object.kind = "ticket" -> TicketDefault(s) = s /\ AcceptsTicketUpdate(s, s)
          [] object.kind = "order"  ->
                OrderUpdated(s) = [s EXCEPT !.owner = "own"] /\ AcceptsOrderUpdate(s)
          [] object.kind = "quota"  -> QuotaDefault(s) = s /\ AcceptsQuotaUpdate(s, s)
          [] OTHER -> TRUE

\* The ticket webhook asks more of a duration and of quantities than the order
\* webhook does.
Sound(s) == s.duration # "nonpositive" /\ NonNegative(s.requests) /\ NonNegative(s.limits)

\* An order that the order webhook has validated is no empty promise: the ticket
\* webhook, which judges what the order controller builds from the template after
\* other defaults and at a later time, accepts its tickets.
TicketsFollow ==
    object.kind = "order" /\ object.fresh /\ Sound(object.spec.template)
    => AcceptsTicket(object.spec.template)

\* What the order webhook holds against the quotas covers the tickets of the order:
\* whole units per ticket are no less than what each ticket asks for.  A template
\* without resources is left out: its tickets get default requests that the order
\* has not been charged for.
OrderCoversTickets ==
    object.kind = "order" /\ object.spec.template.resources =>
        \A r \in DOMAIN TicketDefault(object.spec.template).requests :
            LET q == object.spec.template.requests[r]
            IN  q >= 0 /\ Value(q) * object.spec.replicas <= MaxInt
                => 10 * OrderRequest(object.spec)[r] >= q * object.spec.replicas

\* quota_types.go:62, "Schedule defines when this window applies (cron format)": a
\* schedule of a stored quota that the scheduler package accepts is never due when cron
\* format does not say so, and misses no moment but for the two ways in which Cron says
\* that the package differs from it.
SchedulesMean ==
    object.kind = "quota" => \A w \in object.spec.windows : MeansWhatItSays(w.schedule)
==============================================================================
