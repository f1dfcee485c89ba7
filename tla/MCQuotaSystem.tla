---------------------------- MODULE MCQuotaSystem -----------------------------
(***************************************************************************)
(* Small instances of QuotaSystem for TLC.                                 *)
(***************************************************************************)
EXTENDS QuotaSystem, TLC

TwoNamespaces == "o1" :> "a" @@ "o2" :> "b"

Limit(type, members, hard) ==
    [type |-> type, members |-> members, hard |-> hard, multiplier |-> 0, malformed |-> FALSE]

OneOrder  == "orders" :> 1
NoTickets == "tickets" :> 0
OneTicket == "tickets" :> 1 @@ "reserved.cpu" :> 2

ClusterOrders == Limit("Cluster", {}, OneOrder)

\* One of each kind of scope, among them a time window and a bad selector.
VariousSpecs ==
    {ClusterOrders,
     [Limit("Cluster", {}, OneTicket) EXCEPT !.multiplier = 2],
     Limit("NamespaceList", {"a", "b"}, OneOrder @@ NoTickets),
     Limit("NamespaceSelector", {"b"}, OneTicket),
     [Limit("ObjectSelector", {"o2"}, OneTicket) EXCEPT !.malformed = TRUE]}

\* A quota that has been set up before anything else.
OneSpec == {ClusterOrders}
Preset == [BlankQuota EXCEPT !.exists = TRUE, !.rv = 1, !.uid = 1, !.spec = ClusterOrders]
PresetInit ==
    /\ quotas = [q \in Quotas |-> Preset] /\ quotaCache = quotas
    /\ orders = [o \in Orders |-> NoOrder] /\ orderCache = orders
    /\ tickets = [o \in Orders |-> [c \in Cpus |-> 0]] /\ ticketCache = tickets
    /\ reviews = [o \in Orders |-> NoReview] /\ creations = [q \in Quotas |-> NoCreation]
    /\ queue = Quotas /\ worker = Resting
    /\ changes = 0 /\ faults = 0
PresetSpec == PresetInit /\ [][Next]_vars
==============================================================================
