---------------------------- MODULE AdmissionProofs ----------------------------
(***************************************************************************)
(* Theorems about Admission, for any specs that users write and any width  *)
(* of the integers.                                                        *)
(***************************************************************************)
EXTENDS Admission, TLAPS

------------------------------------------------------------------------------
(* Defaults *)

\* What the mutating webhook of tickets leaves behind.
Settled(s) ==
    /\ s.policy = "Delete" => s.ttl # "nil"
    /\ s.duration # "" /\ s.scheduler = "set"

SettledTicket(s) == Settled(s) /\ s.start # "nil" /\ s.resources

LEMMA DefaultRequestsTyped ==
  Amounts(DefaultRequests, Resources) /\ NonNegative(DefaultRequests)
  BY DEF Amounts, DefaultRequests, Resources, NonNegative

LEMMA TicketDefaultTyped ==
  ASSUME NEW s, TicketSpec(s)
  PROVE  TicketSpec(TicketDefault(s)) /\ SettledTicket(TicketDefault(s))
<1> DEFINE d == TicketDefault(s)
<1>1. /\ d.start = IF s.start = "nil" THEN "past" ELSE s.start
      /\ d.duration = IF s.duration = "" THEN "positive" ELSE s.duration
      /\ d.policy = s.policy
      /\ d.ttl = IF s.policy = "Delete" /\ s.ttl = "nil" THEN "set" ELSE s.ttl
      /\ d.scheduler = "set" /\ d.node = s.node /\ d.resources = TRUE
      /\ d.requests = IF s.resources THEN s.requests ELSE DefaultRequests
      /\ d.limits = s.limits
  BY DEF TicketDefault, TicketSpec
<1>2. d \in [start : {"nil", "", "malformed", "future", "past"},
             duration : {"", "malformed", "nonpositive", "positive"},
             policy : {"Delete", "Retain"}, ttl : {"nil", "negative", "set"},
             scheduler : {"nil", "set"}, node : {"nil", "n1", "n2"},
             resources : BOOLEAN, requests : {d.requests}, limits : {d.limits}]
  BY ZenonT(120) DEF TicketDefault, TicketSpec
<1>3. Amounts(d.requests, Resources) /\ Amounts(d.limits, Resources)
  BY <1>1, DefaultRequestsTyped DEF TicketSpec
<1> HIDE DEF d
<1>4. TicketSpec(d)
  BY <1>1, <1>2, <1>3 DEF TicketSpec
<1>5. SettledTicket(d)
  BY <1>1 DEF SettledTicket, Settled
<1> QED
  BY <1>4, <1>5 DEF d

\* The defaults leave alone what has them.
LEMMA TicketDefaultIdle ==
  ASSUME NEW s, TicketSpec(s), SettledTicket(s)
  PROVE  TicketDefault(s) = s
  BY DEF TicketDefault, TicketSpec, SettledTicket, Settled

LEMMA TemplateDefaultTyped ==
  ASSUME NEW s, TicketSpec(s)
  PROVE  /\ TicketSpec(TemplateDefault(s)) /\ Settled(TemplateDefault(s))
         /\ Settled(s) => TemplateDefault(s) = s
<1> DEFINE d == TemplateDefault(s)
<1>1. /\ d.duration = IF s.duration = "" THEN "positive" ELSE s.duration
      /\ d.policy = s.policy
      /\ d.ttl = IF s.policy = "Delete" /\ s.ttl = "nil" THEN "set" ELSE s.ttl
      /\ d.scheduler = "set" /\ d.resources = s.resources
      /\ d.requests = s.requests /\ d.limits = s.limits
  BY DEF TemplateDefault, TicketSpec
<1>2. d \in [start : {"nil", "", "malformed", "future", "past"},
             duration : {"", "malformed", "nonpositive", "positive"},
             policy : {"Delete", "Retain"}, ttl : {"nil", "negative", "set"},
             scheduler : {"nil", "set"}, node : {"nil", "n1", "n2"},
             resources : BOOLEAN, requests : {d.requests}, limits : {d.limits}]
  BY DEF TemplateDefault, TicketSpec
<1>3. Settled(s) => d = s
  BY DEF TemplateDefault, TicketSpec, Settled
<1> HIDE DEF d
<1>4. TicketSpec(d)
  BY <1>1, <1>2 DEF TicketSpec
<1>5. Settled(d)
  BY <1>1 DEF Settled
<1> QED
  BY <1>3, <1>4, <1>5 DEF d

\* What the mutating webhook of orders leaves behind.
SettledOrder(o) == o.replicas # Unset /\ o.refresh # "" /\ Settled(o.template)

LEMMA ReplicasDefault ==
  ASSUME NEW n \in Int
  PROVE  LET m == IF n = Unset THEN 1 ELSE n IN m \in Int /\ m # Unset
  BY DEF Unset

LEMMA OwnerReplaced ==
  ASSUME NEW o, NEW uid, OrderSpec(o)
  PROVE  [o EXCEPT !.owner = uid] =
            [replicas |-> o.replicas, refresh |-> o.refresh, selector |-> o.selector,
             owner |-> uid, template |-> o.template]
<1>1. ASSUME NEW r, NEW p, NEW s, NEW w, NEW t, NEW x,
             x = [replicas |-> r, refresh |-> p, selector |-> s, owner |-> w, template |-> t]
      PROVE  [x EXCEPT !.owner = uid] =
                [replicas |-> r, refresh |-> p, selector |-> s, owner |-> uid, template |-> t]
  BY ONLY <1>1
<1>2. o = [replicas |-> o.replicas, refresh |-> o.refresh, selector |-> o.selector,
           owner |-> o.owner, template |-> o.template]
  BY DEF OrderSpec
<1> QED
  BY ONLY <1>1, <1>2

LEMMA OrderDefaultTyped ==
  ASSUME NEW o, OrderSpec(o), NEW uid \in {"", "own"}
  PROVE  /\ OrderSpec(OrderDefault(o, uid)) /\ SettledOrder(OrderDefault(o, uid))
         /\ SettledOrder(o) => OrderDefault(o, uid) = [o EXCEPT !.owner = uid]
<1> DEFINE n == IF o.replicas = Unset THEN 1 ELSE o.replicas
           p == IF o.refresh = "" THEN "OnClaim" ELSE o.refresh
           t == TemplateDefault(o.template)
           d == [replicas |-> n, refresh |-> p, selector |-> o.selector, owner |-> uid,
                 template |-> t]
<1>1. /\ o = [replicas |-> o.replicas, refresh |-> o.refresh, selector |-> o.selector,
              owner |-> o.owner, template |-> o.template]
      /\ o.replicas \in Int /\ o.refresh \in {"", "Always", "OnClaim", "Never"}
      /\ o.selector \in {"nil", "empty", "set"} /\ TicketSpec(o.template)
  BY DEF OrderSpec
<1>2. n \in Int /\ n # Unset
  BY <1>1, ReplicasDefault
<1>3. p \in {"", "Always", "OnClaim", "Never"} /\ p # ""
  BY <1>1
<1>4. TicketSpec(t) /\ Settled(t) /\ (Settled(o.template) => t = o.template)
  BY <1>1, TemplateDefaultTyped
<1>5. OrderDefault(o, uid) = d
  <2>1. OrderDefault(o, uid) =
           [o EXCEPT !.replicas = n, !.refresh = p, !.owner = uid, !.template = t]
    BY DEF OrderDefault
  <2> HIDE DEF n, p, t
  <2> QED
    BY <1>1, <2>1
<1>6. SettledOrder(o) => d = [o EXCEPT !.owner = uid]
  <2>1. SettledOrder(o) => n = o.replicas /\ p = o.refresh /\ t = o.template
    BY <1>4 DEF SettledOrder
  <2>2. [o EXCEPT !.owner = uid] =
           [replicas |-> o.replicas, refresh |-> o.refresh, selector |-> o.selector,
            owner |-> uid, template |-> o.template]
    BY OwnerReplaced
  <2> HIDE DEF n, p, t
  <2> QED
    BY <2>1, <2>2
<1> HIDE DEF n, p, t
<1>7. OrderSpec(d) /\ SettledOrder(d)
  BY <1>1, <1>2, <1>3, <1>4 DEF OrderSpec, SettledOrder
<1> QED
  BY <1>5, <1>6, <1>7

\* What the mutating webhook of quotas leaves behind.
SettledQuota(q) == q.type # "" /\ "max-duration" \in DOMAIN q.hard

LEMMA HardTyped ==
  ASSUME NEW hard, Amounts(hard, HardNames)
  PROVE  /\ Amounts(WithMaxDuration(hard), HardNames)
         /\ "max-duration" \in DOMAIN WithMaxDuration(hard)
         /\ "max-duration" \in DOMAIN hard => WithMaxDuration(hard) = hard
<1>1. MaxDuration \in Int
  BY DEF MaxDuration
<1>2. ASSUME "max-duration" \in DOMAIN hard PROVE WithMaxDuration(hard) = hard
  <2>1. DOMAIN hard \cup {"max-duration"} = DOMAIN hard
    BY <1>2
  <2>2. hard = [n \in DOMAIN hard |-> hard[n]]
    BY DEF Amounts
  <2> QED
    BY <2>1, <2>2 DEF WithMaxDuration
<1> QED
  BY <1>1, <1>2 DEF WithMaxDuration, Amounts, HardNames

LEMMA DefaultHardTyped == Amounts(DefaultHard, HardNames)
  BY DEF DefaultHard, Amounts, HardNames

LEMMA QuotaDefaultTyped ==
  ASSUME NEW q, QuotaSpec(q)
  PROVE  /\ QuotaSpec(QuotaDefault(q)) /\ SettledQuota(QuotaDefault(q))
         /\ SettledQuota(q) => QuotaDefault(q) = q
<1> DEFINE d == QuotaDefault(q)
           base == IF DOMAIN q.hard = {} THEN DefaultHard ELSE q.hard
<1>1. /\ d.type = IF q.type = "" THEN "Cluster" ELSE q.type
      /\ d.hard = WithMaxDuration(base)
  BY DEF QuotaDefault, QuotaSpec
<1>2. d \in [type : {"", "Cluster", "NamespaceList", "NamespaceSelector", "ObjectSelector"},
             namespaces : SUBSET {"", "ns"},
             selectors : SUBSET {"NamespaceSelector", "ObjectSelector"},
             hard : {d.hard}, windows : SUBSET TimeWindow, allocations : SUBSET Allocation]
  BY DEF QuotaDefault, QuotaSpec
<1>3. Amounts(base, HardNames)
  BY DefaultHardTyped DEF QuotaSpec
<1>4. ASSUME SettledQuota(q) PROVE d = q
  <2>1. base = q.hard /\ WithMaxDuration(q.hard) = q.hard /\ q.type # ""
    BY <1>4, HardTyped DEF SettledQuota, QuotaSpec
  <2> QED
    BY <2>1 DEF QuotaDefault, QuotaSpec
<1> HIDE DEF base, d
<1>5. Amounts(d.hard, HardNames) /\ "max-duration" \in DOMAIN d.hard
  BY <1>1, <1>3, HardTyped
<1>6. d.type # ""
  BY <1>1
<1>7. QuotaSpec(d)
  BY <1>2, <1>5 DEF QuotaSpec
<1>8. SettledQuota(d)
  BY <1>5, <1>6 DEF SettledQuota
<1> QED
  BY <1>4, <1>7, <1>8 DEF d

------------------------------------------------------------------------------
(* What is stored *)

StoredTicket(s) == TicketSpec(s) /\ SettledTicket(s) /\ ValidTicketSpec(s)

StoredOrder(o, fresh) ==
    /\ OrderSpec(o) /\ SettledOrder(o) /\ ValidByOrderSchema(o)
    /\ fresh => WellFormed(o.template)

StoredQuota(q) == QuotaSpec(q) /\ SettledQuota(q) /\ ValidQuotaSpec(q)

\* Every stored object has its defaults and has been validated.
IInv ==
    /\ \/ object = Absent
       \/ /\ object = Stored(object.kind, object.spec, object.fresh)
          /\ object.kind \in {"ticket", "order", "quota"} /\ object.fresh \in BOOLEAN
    /\ object.kind = "ticket" => StoredTicket(object.spec)
    /\ object.kind = "order" => StoredOrder(object.spec, object.fresh)
    /\ object.kind = "quota" => StoredQuota(object.spec)

LEMMA TicketStored ==
  ASSUME NEW s, StoredTicket(s), NEW fresh \in BOOLEAN, object' = Stored("ticket", s, fresh)
  PROVE  IInv'
  BY DEF IInv, Stored

LEMMA OrderStored ==
  ASSUME NEW o, NEW fresh \in BOOLEAN, StoredOrder(o, fresh), object' = Stored("order", o, fresh)
  PROVE  IInv'
  BY DEF IInv, Stored

LEMMA QuotaStored ==
  ASSUME NEW q, StoredQuota(q), NEW fresh \in BOOLEAN, object' = Stored("quota", q, fresh)
  PROVE  IInv'
  BY DEF IInv, Stored

\* The clock invalidates nothing: a start time in the past is as good as one ahead.
LEMMA StartKeeps ==
  ASSUME NEW s, TicketSpec(s), s.start = "future"
  PROVE  LET d == [s EXCEPT !.start = "past"]
         IN  /\ TicketSpec(d)
             /\ SettledTicket(s) => SettledTicket(d)
             /\ Settled(s) => Settled(d)
             /\ WellFormed(s) => WellFormed(d)
             /\ ValidTicketSpec(s) => ValidTicketSpec(d)
<1> DEFINE d == [s EXCEPT !.start = "past"]
<1>1. /\ d.start = "past" /\ d.duration = s.duration /\ d.policy = s.policy /\ d.ttl = s.ttl
      /\ d.scheduler = s.scheduler /\ d.resources = s.resources
      /\ d.requests = s.requests /\ d.limits = s.limits
  BY DEF TicketSpec
<1>2. d \in [start : {"nil", "", "malformed", "future", "past"},
             duration : {"", "malformed", "nonpositive", "positive"},
             policy : {"Delete", "Retain"}, ttl : {"nil", "negative", "set"},
             scheduler : {"nil", "set"}, node : {"nil", "n1", "n2"},
             resources : BOOLEAN, requests : {d.requests}, limits : {d.limits}]
  BY DEF TicketSpec
<1> HIDE DEF d
<1>3. TicketSpec(d)
  BY <1>1, <1>2 DEF TicketSpec
<1>4. Settled(s) => Settled(d)
  BY <1>1 DEF Settled
<1>5. SettledTicket(s) => SettledTicket(d)
  BY <1>1, <1>4 DEF SettledTicket
<1>6. WellFormed(s) => WellFormed(d)
  BY <1>1 DEF WellFormed, RequestsWithinLimits
<1>7. ValidTicketSpec(s) => ValidTicketSpec(d)
  BY <1>1, <1>6 DEF ValidTicketSpec
<1> QED
  BY <1>3, <1>4, <1>5, <1>6, <1>7 DEF d

LEMMA TemplateReplaced ==
  ASSUME NEW o, OrderSpec(o), NEW t, TicketSpec(t)
  PROVE  LET n == [o EXCEPT !.template = t]
         IN  /\ OrderSpec(n) /\ n.template = t
             /\ n.replicas = o.replicas /\ n.refresh = o.refresh
<1> DEFINE n == [o EXCEPT !.template = t]
<1>1. /\ n \in [replicas : Int, refresh : {"", "Always", "OnClaim", "Never"},
                selector : {"nil", "empty", "set"}, owner : {"nil", "", "own", "other"},
                template : {n.template}]
      /\ n.template = t /\ n.replicas = o.replicas /\ n.refresh = o.refresh
  BY DEF OrderSpec
<1> HIDE DEF n
<1>2. OrderSpec(n)
  BY <1>1 DEF OrderSpec
<1> QED
  BY <1>1, <1>2 DEF n

LEMMA InitIInv == Init => IInv
  BY DEF Init, IInv, Absent

LEMMA TicketStep ==
  ASSUME IInv, CreateTicket \/ UpdateTicket \/ IssueTicket
  PROVE  IInv'
<1>1. \E raw : TicketSpec(raw) /\ AcceptsTicket(raw)
                 /\ \E fresh \in BOOLEAN : object' = Stored("ticket", TicketDefault(raw), fresh)
  <2>1. CASE CreateTicket
    BY <2>1, AdmissionAssumption DEF CreateTicket
  <2>2. CASE UpdateTicket
    BY <2>2, AdmissionAssumption DEF UpdateTicket, AcceptsTicketUpdate, AcceptsTicket
  <2>3. CASE IssueTicket
    BY <2>3 DEF IssueTicket, IInv, StoredOrder, OrderSpec
  <2> QED
    BY <2>1, <2>2, <2>3
<1>2. PICK raw : TicketSpec(raw) /\ AcceptsTicket(raw)
                 /\ \E fresh \in BOOLEAN : object' = Stored("ticket", TicketDefault(raw), fresh)
  BY <1>1
<1>3. StoredTicket(TicketDefault(raw))
  BY <1>2, TicketDefaultTyped DEF StoredTicket, AcceptsTicket
<1> QED
  BY <1>2, <1>3, TicketStored

\* What the webhooks make of a user's order.
LEMMA OrderLetPass ==
  ASSUME NEW raw, OrderSpec(raw), NEW fresh \in BOOLEAN,
         IF fresh THEN AcceptsOrder(raw) ELSE AcceptsOrderUpdate(raw)
  PROVE  StoredOrder(IF fresh THEN OrderCreated(raw) ELSE OrderUpdated(raw), fresh)
<1>1. CASE fresh
  BY <1>1, OrderDefaultTyped DEF StoredOrder, AcceptsOrder, ValidOrderSpec, OrderCreated
<1>2. CASE ~fresh
  BY <1>2, OrderDefaultTyped DEF StoredOrder, AcceptsOrderUpdate, OrderUpdated
<1> QED
  BY <1>1, <1>2

\* What the mutating webhook makes of a stored order: it gets the label.
LEMMA OrderLabelled ==
  ASSUME NEW o, NEW fresh, StoredOrder(o, fresh)
  PROVE  /\ OrderUpdated(o) = [o EXCEPT !.owner = "own"]
         /\ AcceptsOrderUpdate(o) /\ StoredOrder(OrderUpdated(o), fresh)
<1> DEFINE n == OrderUpdated(o)
<1>1. OrderSpec(o) /\ SettledOrder(o) /\ o.replicas >= 0 /\ (fresh => WellFormed(o.template))
  BY DEF StoredOrder, ValidByOrderSchema
<1>2. OrderSpec(n) /\ SettledOrder(n) /\ n = [o EXCEPT !.owner = "own"]
  BY <1>1, OrderDefaultTyped DEF OrderUpdated
<1>3. n.replicas = o.replicas /\ n.template = o.template
  BY <1>1, <1>2 DEF OrderSpec
<1>4. ValidByOrderSchema(n)
  BY <1>1, <1>3 DEF ValidByOrderSchema
<1>5. StoredOrder(n, fresh)
  BY <1>1, <1>2, <1>3, <1>4 DEF StoredOrder
<1> QED
  BY <1>2, <1>4, <1>5 DEF AcceptsOrderUpdate

LEMMA OrderStep == ASSUME IInv, CreateOrder \/ UpdateOrder \/ FinalizeOrder PROVE IInv'
<1>1. CASE CreateOrder
  <2>1. PICK raw \in OrderSpecs :
           AcceptsOrder(raw) /\ object' = Stored("order", OrderCreated(raw), TRUE)
    BY <1>1 DEF CreateOrder
  <2>2. StoredOrder(OrderCreated(raw), TRUE)
    BY <2>1, OrderLetPass, AdmissionAssumption
  <2> QED
    BY <2>1, <2>2, OrderStored
<1>2. CASE UpdateOrder
  <2>1. PICK raw \in OrderSpecs :
           AcceptsOrderUpdate(raw) /\ object' = Stored("order", OrderUpdated(raw), FALSE)
    BY <1>2 DEF UpdateOrder
  <2>2. StoredOrder(OrderUpdated(raw), FALSE)
    BY <2>1, OrderLetPass, AdmissionAssumption
  <2> QED
    BY <2>1, <2>2, OrderStored
<1>3. CASE FinalizeOrder
  <2> DEFINE s == object.spec
  <2>1. /\ object = Stored("order", s, object.fresh) /\ object.fresh \in BOOLEAN
        /\ StoredOrder(s, object.fresh)
    BY <1>3 DEF FinalizeOrder, IInv, Absent
  <2>2. object' = Stored("order", OrderUpdated(s), object.fresh)
    BY <1>3, <2>1 DEF FinalizeOrder, Stored
  <2>3. StoredOrder(OrderUpdated(s), object.fresh)
    BY <2>1, OrderLabelled
  <2> QED
    BY <2>1, <2>2, <2>3, OrderStored
<1> QED
  BY <1>1, <1>2, <1>3

LEMMA QuotaStep == ASSUME IInv, CreateQuota \/ UpdateQuota PROVE IInv'
<1>1. PICK raw \in QuotaSpecs, fresh \in BOOLEAN :
         /\ object' = Stored("quota", QuotaDefault(raw), fresh)
         /\ ValidQuotaSpec(QuotaDefault(raw))
  BY DEF CreateQuota, UpdateQuota, AcceptsQuota, AcceptsQuotaUpdate
<1>2. StoredQuota(QuotaDefault(raw))
  BY <1>1, QuotaDefaultTyped, AdmissionAssumption DEF StoredQuota
<1> QED
  BY <1>1, <1>2, QuotaStored

LEMMA ClockStep == ASSUME IInv, TicketStarts \/ TemplateStarts PROVE IInv'
<1> DEFINE s == object.spec
<1>1. CASE TicketStarts
  <2>1. /\ object = Stored("ticket", s, object.fresh) /\ object.fresh \in BOOLEAN
        /\ StoredTicket(s) /\ s.start = "future"
    BY <1>1 DEF TicketStarts, IInv, Absent
  <2>2. object' = Stored("ticket", [s EXCEPT !.start = "past"], object.fresh)
    BY <1>1, <2>1 DEF TicketStarts, Stored
  <2>3. StoredTicket([s EXCEPT !.start = "past"])
    BY <2>1, StartKeeps DEF StoredTicket
  <2> QED
    BY <2>1, <2>2, <2>3, TicketStored
<1>2. CASE TemplateStarts
  <2> DEFINE t == [s.template EXCEPT !.start = "past"]
             o == [s EXCEPT !.template = t]
  <2>1. /\ object = Stored("order", s, object.fresh) /\ object.fresh \in BOOLEAN
        /\ StoredOrder(s, object.fresh) /\ s.template.start = "future"
    BY <1>2 DEF TemplateStarts, IInv, Absent
  <2>2. object' = Stored("order", o, object.fresh)
    BY <1>2, <2>1 DEF TemplateStarts, Stored
  <2>3. /\ TicketSpec(t) /\ Settled(t)
        /\ object.fresh => WellFormed(t)
    BY <2>1, StartKeeps DEF StoredOrder, OrderSpec, SettledOrder
  <2>4. /\ OrderSpec(o) /\ o.template = t
        /\ o.replicas = s.replicas /\ o.refresh = s.refresh
    BY <2>1, <2>3, TemplateReplaced DEF StoredOrder
  <2> HIDE DEF s, t, o
  <2>7. SettledOrder(o) /\ ValidByOrderSchema(o) /\ (object.fresh => WellFormed(o.template))
    BY <2>1, <2>3, <2>4 DEF SettledOrder, ValidByOrderSchema, StoredOrder
  <2>8. StoredOrder(o, object.fresh)
    BY <2>4, <2>7 DEF StoredOrder
  <2> QED
    BY <2>1, <2>2, <2>8, OrderStored
<1> QED
  BY <1>1, <1>2

LEMMA StepIInv == ASSUME IInv, [Next]_object PROVE IInv'
<1>1. CASE Delete
  BY <1>1 DEF Delete, IInv, Absent
<1>2. CASE UNCHANGED object
  BY <1>2 DEF IInv
<1> QED
  BY <1>1, <1>2, TicketStep, OrderStep, QuotaStep, ClockStep DEF Next

THEOREM Inductive == Spec => []IInv
<1> QED
  BY InitIInv, StepIInv, PTL DEF Spec

\* What is stored can be relied on: a duration that parses, replicas and a refresh
\* policy, a scope.
THEOREM Typing == Spec => []TypeOK
<1>1. ASSUME IInv PROVE TypeOK
  <2>1. CASE object.kind = "ticket"
    <3>1. StoredTicket(object.spec)
      BY <1>1, <2>1 DEF IInv
    <3>2. TicketSpec(object.spec) /\ object.spec.duration = "positive"
      BY <3>1 DEF StoredTicket, TicketSpec, SettledTicket, Settled, ValidTicketSpec, WellFormed
    <3> QED
      BY <2>1, <3>2 DEF TypeOK
  <2>2. CASE object.kind = "order"
    BY <1>1, <2>2 DEF IInv, TypeOK, StoredOrder, SettledOrder, ValidByOrderSchema
  <2>3. CASE object.kind = "quota"
    BY <1>1, <2>3 DEF IInv, TypeOK, StoredQuota, SettledQuota
  <2>4. CASE object.kind \notin {"ticket", "order", "quota"}
    BY <1>1, <2>4 DEF IInv, TypeOK
  <2> QED
    BY <2>1, <2>2, <2>3, <2>4
<1> QED
  BY <1>1, Inductive, PTL

------------------------------------------------------------------------------
(* The webhooks and the controllers *)

\* A controller that writes back what it has read, for its finalizer, is never
\* refused: what has been validated stays valid.  All that the mutating webhooks add to
\* it is the label with an order's UID.
THEOREM Admitted == Spec => []WritesAdmitted
<1>1. ASSUME IInv PROVE WritesAdmitted
  <2> DEFINE s == object.spec
  <2>1. CASE object.kind = "ticket"
    <3>1. StoredTicket(s)
      BY <1>1, <2>1 DEF IInv
    <3>2. TicketDefault(s) = s
      BY <3>1, TicketDefaultIdle DEF StoredTicket
    <3>3. AcceptsTicketUpdate(s, s)
      BY <3>1, <3>2 DEF StoredTicket, AcceptsTicketUpdate, NodeKept
    <3> QED
      BY <2>1, <3>2, <3>3 DEF WritesAdmitted
  <2>2. CASE object.kind = "order"
    <3>1. StoredOrder(s, object.fresh)
      BY <1>1, <2>2 DEF IInv
    <3>2. OrderUpdated(s) = [s EXCEPT !.owner = "own"] /\ AcceptsOrderUpdate(s)
      BY <3>1, OrderLabelled
    <3> QED
      BY <2>2, <3>2 DEF WritesAdmitted
  <2>3. CASE object.kind = "quota"
    <3>1. StoredQuota(s)
      BY <1>1, <2>3 DEF IInv
    <3>2. QuotaDefault(s) = s
      BY <3>1, QuotaDefaultTyped DEF StoredQuota
    <3>3. AcceptsQuotaUpdate(s, s)
      BY <3>1, <3>2 DEF StoredQuota, AcceptsQuotaUpdate
    <3> QED
      BY <2>3, <3>2, <3>3 DEF WritesAdmitted
  <2>4. CASE object.kind \notin {"ticket", "order", "quota"}
    BY <2>4 DEF WritesAdmitted
  <2> QED
    BY <2>1, <2>2, <2>3, <2>4
<1> QED
  BY <1>1, Inductive, PTL

\* The defaults make no well-formed template ill-formed: the requests that are
\* filled in meet no limit, since a template without resources has none.
LEMMA TemplateAccepted ==
  ASSUME NEW s, TicketSpec(s), WellFormed(s), Sound(s)
  PROVE  AcceptsTicket(s)
<1> DEFINE d == TicketDefault(s)
<1>1. /\ d.start = IF s.start = "nil" THEN "past" ELSE s.start
      /\ d.duration = IF s.duration = "" THEN "positive" ELSE s.duration
      /\ d.ttl = IF s.policy = "Delete" /\ s.ttl = "nil" THEN "set" ELSE s.ttl
      /\ d.requests = IF s.resources THEN s.requests ELSE DefaultRequests
      /\ d.limits = s.limits
  BY DEF TicketDefault, TicketSpec
<1> HIDE DEF d
<1>2. d.duration # "malformed" /\ d.duration # "nonpositive"
  BY <1>1 DEF WellFormed, Sound
<1>3. d.start # "malformed" /\ d.ttl # "negative"
  BY <1>1 DEF WellFormed
<1>4. NonNegative(d.requests) /\ NonNegative(d.limits)
  BY <1>1, DefaultRequestsTyped DEF Sound
<1>5. RequestsWithinLimits(d)
  <2>1. CASE s.resources
    BY <1>1, <2>1 DEF WellFormed, RequestsWithinLimits
  <2>2. CASE ~s.resources
    <3>1. DOMAIN d.limits = {}
      BY <1>1, <2>2 DEF TicketSpec, NoAmounts
    <3> QED
      BY <3>1 DEF RequestsWithinLimits
  <2>3. s.resources \in BOOLEAN
    BY DEF TicketSpec
  <2> QED
    BY <2>1, <2>2, <2>3
<1>6. ValidTicketSpec(d)
  BY <1>2, <1>3, <1>4, <1>5 DEF ValidTicketSpec, WellFormed
<1> QED
  BY <1>6 DEF AcceptsTicket, d

\* A new order gets its tickets past the ticket webhook, whenever it asks for them.
THEOREM Followed == Spec => []TicketsFollow
<1>1. ASSUME IInv PROVE TicketsFollow
  BY <1>1, TemplateAccepted DEF IInv, StoredOrder, OrderSpec, TicketsFollow
<1> QED
  BY <1>1, Inductive, PTL

------------------------------------------------------------------------------
(* What an order is charged *)

LEMMA WrappedInRange ==
  ASSUME NEW n \in Nat, n <= MaxInt
  PROVE  Wrapped(n) = n
<1>1. MaxInt \in Nat
  BY AdmissionAssumption
<1> DEFINE w == 2 * (MaxInt + 1)
<1>2. w \in Nat /\ w > 0 /\ n + MaxInt + 1 \in Nat /\ n + MaxInt + 1 < w
  BY <1>1
<1>3. ASSUME NEW m \in Nat, NEW k \in Nat, m < k PROVE m % k = m
  BY <1>3
<1> HIDE DEF w
<1>4. (n + MaxInt + 1) % w = n + MaxInt + 1
  BY <1>2, <1>3
<1>5. ((n + MaxInt + 1) % w) - (MaxInt + 1) = n
  BY <1>1, <1>4
<1> QED
  BY <1>5 DEF Wrapped, w

\* Rounding up to whole units takes nothing away, for any number of tickets.
LEMMA ValueCovers ==
  ASSUME NEW q \in Nat, NEW replicas \in Nat
  PROVE  /\ Value(q) * replicas \in Nat
         /\ 10 * (Value(q) * replicas) >= q * replicas
<1>1. Value(q) \in Nat /\ 10 * Value(q) >= q
  BY DEF Value
<1>2. ASSUME NEW a \in Nat, NEW b \in Nat, NEW c \in Nat, 10 * a >= b
      PROVE  a * c \in Nat /\ 10 * (a * c) >= b * c
  BY <1>2
<1> HIDE DEF Value
<1> QED
  BY <1>1, <1>2

\* As long as the product fits an int64, an order is charged at least what all of
\* its tickets will ask for.
THEOREM Covered == Spec => []OrderCoversTickets
<1>1. ASSUME IInv PROVE OrderCoversTickets
  <2> DEFINE o == object.spec  t == o.template
  <2> SUFFICES ASSUME object.kind = "order", t.resources,
                      NEW r \in DOMAIN TicketDefault(t).requests,
                      t.requests[r] >= 0, Value(t.requests[r]) * o.replicas <= MaxInt
               PROVE  10 * OrderRequest(o)[r] >= t.requests[r] * o.replicas
    BY DEF OrderCoversTickets
  <2>1. OrderSpec(o) /\ ValidByOrderSchema(o)
    BY <1>1 DEF IInv, StoredOrder
  <2>2. TicketSpec(t) /\ o.replicas \in Nat
    <3> HIDE DEF o
    <3>1. TicketSpec(t) /\ o.replicas \in Int /\ o.replicas >= 0
      BY <2>1 DEF OrderSpec, ValidByOrderSchema
    <3> QED
      BY <3>1
  <2>3. TicketDefault(t).requests = t.requests
    BY <2>2 DEF TicketDefault, TicketSpec
  <2>4. r \in DOMAIN t.requests /\ t.requests[r] \in Int
    BY <2>2, <2>3 DEF TicketSpec, Amounts
  <2>5. t.requests[r] \in Nat
    BY <2>4
  <2> HIDE DEF o
  <2>6. OrderRequest(o)[r] = Wrapped(Value(t.requests[r]) * o.replicas)
    BY <2>4 DEF OrderRequest
  <2>7. /\ Value(t.requests[r]) * o.replicas \in Nat
        /\ 10 * (Value(t.requests[r]) * o.replicas) >= t.requests[r] * o.replicas
    BY <2>2, <2>5, ValueCovers
  <2>8. Wrapped(Value(t.requests[r]) * o.replicas) = Value(t.requests[r]) * o.replicas
    BY <2>7, WrappedInRange
  <2> QED
    BY <2>6, <2>7, <2>8
<1> QED
  BY <1>1, Inductive, PTL

------------------------------------------------------------------------------
(* Schedules *)

LEMMA BoundsTyped ==
  ASSUME NEW i \in 1..5
  PROVE  Lows[i] \in {0, 1} /\ Highs[i] \in Nat /\ Lows[i] <= Highs[i]
<1>1. i = 1 \/ i = 2 \/ i = 3 \/ i = 4 \/ i = 5
  OBVIOUS
<1> QED
  BY <1>1 DEF Lows, Highs

\* A field that validateField accepts matches what it says, and something.
LEMMA FieldMeans ==
  ASSUME NEW f \in Field, NEW low \in {0, 1}, NEW high \in Nat, low <= high,
         ValidField(f, low, high), low = 0 \/ f.kind # "step"
  PROVE  /\ \A v \in low..high : Matches(f, v) <=> v \in Meaning(f, low, high)
         /\ \E v \in low..high : Matches(f, v)
<1>1. CASE f.kind = "any"
  BY <1>1 DEF Matches, Meaning
<1>2. CASE f.kind = "range"
  <2>1. f.from \in Nat /\ f.to \in Nat
    BY <1>2 DEF Field
  <2>2. low <= f.from /\ f.from <= f.to /\ f.to <= high
    BY <1>2 DEF ValidField
  <2>3. f.from \in low..high /\ Matches(f, f.from)
    BY <1>2, <2>1, <2>2 DEF Matches
  <2>4. \A v \in low..high : Matches(f, v) <=> v \in Meaning(f, low, high)
    BY <1>2, <2>1 DEF Matches, Meaning
  <2> QED
    BY <2>3, <2>4
<1>3. CASE f.kind = "step"
  <2>1. low = 0 /\ f.by \in Nat /\ f.by > 0
    BY <1>3 DEF Field, ValidField
  <2>2. 0 % f.by = 0
    BY <2>1
  <2>3. 0 \in low..high /\ Matches(f, 0)
    BY <1>3, <2>1, <2>2 DEF Matches
  <2>4. \A v \in low..high : v - low = v
    BY <2>1
  <2>5. \A v \in low..high : Matches(f, v) <=> v \in Meaning(f, low, high)
    BY <1>3, <2>1, <2>4 DEF Matches, Meaning
  <2> QED
    BY <2>3, <2>5
<1>4. CASE f.kind = "list"
  <2>1. f.of \subseteq Nat /\ f.of # {}
    BY <1>4 DEF Field, ValidField
  <2>2. \A v \in f.of : v \in low..high
    BY <1>4, <2>1 DEF ValidField
  <2> QED
    BY <1>4, <2>1, <2>2 DEF Matches, Meaning
<1> QED
  BY <1>1, <1>2, <1>3, <1>4 DEF ValidField

LEMMA ScheduleMeans ==
  ASSUME NEW s \in Seq(Field)
  PROVE  MeansWhatItSays(s)
<1> SUFFICES ASSUME ValidSchedule(s), CountsFromLow(s)
             PROVE  /\ \A now \in Moments :
                          /\ IsTimeToRun(s, now) => Names(s, now)
                          /\ Names(s, now) /\ ~BothDays(s) => IsTimeToRun(s, now)
                    /\ \A i \in 1..5 : Due(s, i) # {}
  BY DEF MeansWhatItSays
<1>1. Len(s) = 5 /\ \A i \in 1..5 : s[i] \in Field /\ ValidField(s[i], Lows[i], Highs[i])
  <2>1. Len(s) = 5 /\ \A i \in 1..5 : ValidField(s[i], Lows[i], Highs[i])
    BY DEF ValidSchedule
  <2>2. \A i \in 1..Len(s) : s[i] \in Field
    OBVIOUS
  <2> QED
    BY <2>1, <2>2
<1>2. ASSUME NEW i \in 1..5
      PROVE  /\ \A v \in Lows[i]..Highs[i] : Matches(s[i], v) <=> v \in Meaning(s[i], Lows[i], Highs[i])
             /\ \E v \in Lows[i]..Highs[i] : Matches(s[i], v)
  <2>1. s[i] \in Field /\ ValidField(s[i], Lows[i], Highs[i])
    BY <1>1
  <2>2. Lows[i] \in {0, 1} /\ Highs[i] \in Nat /\ Lows[i] <= Highs[i]
    BY BoundsTyped
  <2>3. Lows[i] = 0 \/ s[i].kind # "step"
    BY DEF CountsFromLow
  <2> DEFINE f == s[i]  low == Lows[i]  high == Highs[i]
  <2> HIDE DEF f, low, high
  <2>4. /\ \A v \in low..high : Matches(f, v) <=> v \in Meaning(f, low, high)
        /\ \E v \in low..high : Matches(f, v)
    BY <2>1, <2>2, <2>3, FieldMeans DEF f, low, high
  <2> QED
    BY <2>4 DEF f, low, high
<1>3. \A i \in 1..5 : Due(s, i) # {}
  BY <1>2 DEF Due
<1>4. ASSUME NEW now \in Moments
      PROVE  /\ IsTimeToRun(s, now) => Names(s, now)
             /\ Names(s, now) /\ ~BothDays(s) => IsTimeToRun(s, now)
  <2>1. \A i \in 1..5 : now[i] \in Lows[i]..Highs[i]
    BY MomentsAssumption
  <2>2. \A i \in 1..5 : Matches(s[i], now[i]) <=> now[i] \in Meaning(s[i], Lows[i], Highs[i])
    BY <1>2, <2>1
  <2> DEFINE Met(i) == now[i] \in Meaning(s[i], Lows[i], Highs[i])
  <2>3. IsTimeToRun(s, now) <=> \A i \in 1..5 : Met(i)
    BY <1>1, <2>2 DEF IsTimeToRun
  <2>4. Names(s, now) <=> /\ Met(1) /\ Met(2) /\ Met(4)
                          /\ IF BothDays(s) THEN Met(3) \/ Met(5) ELSE Met(3) /\ Met(5)
    BY DEF Names
  <2>5. (\A i \in 1..5 : Met(i)) <=> Met(1) /\ Met(2) /\ Met(3) /\ Met(4) /\ Met(5)
    <3> HIDE DEF Met
    <3>1. 1..5 = {1, 2, 3, 4, 5}
      OBVIOUS
    <3> QED
      BY <3>1
  <2> HIDE DEF Met
  <2> QED
    BY <2>3, <2>4, <2>5
<1> QED
  BY <1>3, <1>4

\* Whatever valid schedule is stored in a quota, it is due only when cron format says
\* so, and unless it restricts both the day and the weekday whenever that says so: the
\* check of the bounds makes up for the matcher, which does not look at them.
THEOREM Scheduled == Spec => []SchedulesMean
<1>1. ASSUME IInv PROVE SchedulesMean
  <2> SUFFICES ASSUME object.kind = "quota", NEW w \in object.spec.windows
               PROVE  MeansWhatItSays(w.schedule)
    BY DEF SchedulesMean
  <2>1. w \in TimeWindow
    BY <1>1 DEF IInv, StoredQuota, QuotaSpec
  <2> QED
    BY <2>1, ScheduleMeans DEF TimeWindow
<1> QED
  BY <1>1, Inductive, PTL
==============================================================================
