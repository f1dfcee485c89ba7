------------------------------ MODULE QuotaProofs -------------------------------
(***************************************************************************)
(* Proofs about QuotaSystem: what an admission on current lists is worth,  *)
(* for any sets of quotas, orders and specs.                               *)
(***************************************************************************)
EXTENDS QuotaSystem, SumLemmas

------------------------------------------------------------------------------
(* The inductive invariant: a copy of a quota whose resourceVersion is still *)
(* the current one has the current spec, so that the controller's writes     *)
(* never bring an old spec back; a copy of the same life has the type of     *)
(* scope that this life keeps; and a quota on the list that a request was    *)
(* compared with stays one that it does not conflict with.                   *)

LimitLists == UNION {[limited -> Int] : limited \in SUBSET Resources}
QuotaObject ==
    [exists : BOOLEAN, rv : Nat, uid : Nat, finalizer : BOOLEAN, deleting : BOOLEAN,
     spec : QuotaSpecs \cup {NoSpec}, used : Amounts, limits : LimitLists,
     conditions : SUBSET {"Ready", "Exceeded", "Enforced"}]

CopyOf(c, x) ==
    /\ c \in QuotaObject /\ c.uid <= c.rv /\ c.rv <= x.rv
    /\ c.rv = x.rv => c.spec = x.spec /\ c.exists = x.exists /\ c.uid = x.uid
    /\ c.exists /\ x.exists /\ c.uid = x.uid => c.spec.type = x.spec.type

\* A request under admission: a new order, or another form of an old one.
Pending ==
    [verb : {"create"}, old : {NoOrder}, new : OrderSpecs, allowed : BOOLEAN]
    \cup [verb : {"update"}, old : OrderSpecs, new : OrderSpecs, allowed : BOOLEAN]

Creation == [spec : QuotaSpecs, listed : SUBSET (Quotas \X Nat)]

Tickets == [Orders -> [Cpus -> Nat]]

QuotaShapes ==
    /\ quotas \in [Quotas -> QuotaObject] /\ quotaCache \in [Quotas -> QuotaObject]
    /\ \A q \in Quotas : quotas[q].uid <= quotas[q].rv
    /\ queue \subseteq Quotas
    /\ worker.call \in {"idle", "addFinalizer", "updateStatus", "removeFinalizer"}

OrderShapes ==
    /\ orders \in [Orders -> OrderSpecs \cup {NoOrder}]
    /\ orderCache \in [Orders -> OrderSpecs \cup {NoOrder}]
    /\ tickets \in Tickets /\ ticketCache \in Tickets
    /\ reviews \in [Orders -> {NoReview} \cup Pending]
    /\ changes \in 0..MaxChanges /\ faults \in 0..MaxFaults

Copies ==
    /\ \A q \in Quotas : CopyOf(quotaCache[q], quotas[q])
    /\ worker.call # "idle" => worker.q \in Quotas /\ CopyOf(worker.obj, quotas[worker.q])

\* The request c for the quota q, where x is another quota p.
Harmless(c, p, x) ==
    /\ \A u \in Nat : <<p, u>> \in c.listed => u <= x.rv
    /\ c.spec.type = "Cluster" /\ x.exists /\ <<p, x.uid>> \in c.listed
       => x.spec.type # "Cluster"

CreationShapes == creations \in [Quotas -> {NoCreation} \cup Creation]
Requests ==
    \A q \in Quotas : \A p \in Quotas \ {q} : Harmless(creations[q], p, quotas[p])

QuotaInv == QuotaShapes /\ OrderShapes /\ CreationShapes /\ Copies /\ Requests

\* A quota changes with a new version or not at all; a life has one type of scope.
Newer(y, x) ==
    \/ y = x
    \/ /\ y \in QuotaObject /\ y.rv > x.rv /\ y.uid <= y.rv
       /\ y.exists => \/ x.exists /\ y.uid = x.uid /\ y.spec.type = x.spec.type
                      \/ y.uid > x.rv
Advance == \A q \in Quotas : Newer(quotas'[q], quotas[q])

\* What a step writes: nothing, the same life with the same type of scope, or a new
\* life that has been asked for.
Keeps(q, obj) ==
    obj.exists /\ quotas[q].exists /\ obj.uid = quotas[q].uid
    /\ obj.spec.type = quotas[q].spec.type
Begins(q, obj) ==
    obj.exists /\ ~quotas[q].exists /\ obj.uid = quotas[q].rv + 1
    /\ creations[q] # NoCreation /\ obj.spec = creations[q].spec
Ends(obj) == ~obj.exists /\ obj.uid = 0
Writes(q, obj) ==
    /\ obj \in QuotaObject /\ Store(q, obj)
    /\ Keeps(q, obj) \/ Begins(q, obj) \/ Ends(obj)

LEMMA Versioned ==
    ASSUME NEW obj \in QuotaObject, NEW n \in Nat
    PROVE  /\ [obj EXCEPT !.rv = n] \in QuotaObject /\ [obj EXCEPT !.rv = n].rv = n
           /\ [obj EXCEPT !.rv = n].exists = obj.exists
           /\ [obj EXCEPT !.rv = n].uid = obj.uid
           /\ [obj EXCEPT !.rv = n].spec = obj.spec
BY DEF QuotaObject

\* The versions that the two cases of Store give.
LEMMA WriteAdvances ==
    ASSUME NEW x \in QuotaObject, x.uid <= x.rv,
           NEW y \in QuotaObject, y.rv = x.rv + 1,
           \/ y.exists /\ x.exists /\ y.uid = x.uid /\ y.spec.type = x.spec.type
           \/ y.uid = x.rv + 1
           \/ ~y.exists /\ y.uid = 0
    PROVE  Newer(y, x)
<1>1. x.rv \in Nat /\ x.uid \in Nat /\ y.uid \in Nat
  BY DEF QuotaObject
<1>2. y.rv > x.rv /\ y.uid <= y.rv
  BY <1>1
<1>3. y.exists => \/ x.exists /\ y.uid = x.uid /\ y.spec.type = x.spec.type
                  \/ y.uid > x.rv
  BY <1>1
<1> QED
  BY <1>2, <1>3 DEF Newer

LEMMA StoreAdvances ==
    ASSUME NEW q \in Quotas, NEW obj, QuotaShapes, Writes(q, obj)
    PROVE  /\ quotas' \in [Quotas -> QuotaObject]
           /\ Advance
           /\ \A p \in Quotas \ {q} : quotas'[p] = quotas[p]
           /\ quotas'[q].exists = obj.exists /\ quotas'[q].spec = obj.spec
<1> DEFINE same == [obj EXCEPT !.rv = quotas[q].rv]
           new  == [obj EXCEPT !.rv = quotas[q].rv + 1]
<1>0. /\ quotas \in [Quotas -> QuotaObject] /\ quotas[q] \in QuotaObject
      /\ obj \in QuotaObject /\ Store(q, obj)
  BY DEF QuotaShapes, Writes
<1>1. quotas[q].rv \in Nat /\ quotas[q].rv + 1 \in Nat
  BY <1>0 DEF QuotaObject
<1>2. same.exists = obj.exists /\ same.spec = obj.spec
  BY <1>0, <1>1, Versioned
<1>3. /\ new \in QuotaObject /\ new.rv = quotas[q].rv + 1 /\ new.exists = obj.exists
      /\ new.uid = obj.uid /\ new.spec = obj.spec
  BY <1>0, <1>1, Versioned
<1>4. quotas' = [quotas EXCEPT ![q] = IF same = quotas[q] THEN quotas[q] ELSE new]
  BY <1>0 DEF Store
<1> HIDE DEF same, new
<1>5. /\ quotas' \in [Quotas -> QuotaObject]
      /\ \A p \in Quotas \ {q} : quotas'[p] = quotas[p]
      /\ quotas'[q] = IF same = quotas[q] THEN quotas[q] ELSE new
  BY <1>0, <1>3, <1>4
<1>6. quotas'[q].exists = obj.exists /\ quotas'[q].spec = obj.spec
  BY <1>2, <1>3, <1>5
<1>7. Newer(new, quotas[q])
  BY <1>0, <1>3, WriteAdvances DEF QuotaShapes, Writes, Keeps, Begins, Ends
<1>8. Newer(quotas'[q], quotas[q])
  BY <1>5, <1>7 DEF Newer
<1>9. \A p \in Quotas \ {q} : Newer(quotas'[p], quotas[p])
  BY <1>5 DEF Newer
<1>10. Advance
  BY <1>8, <1>9 DEF Advance
<1> QED
  BY <1>5, <1>6, <1>10

LEMMA CopyAdvances ==
    ASSUME NEW c, NEW x, NEW y, x \in QuotaObject, CopyOf(c, x), Newer(y, x)
    PROVE  CopyOf(c, y)
<1>1. CASE y = x
  BY <1>1
<1>2. CASE y # x
  <2>1. /\ y \in QuotaObject /\ y.rv > x.rv
        /\ y.exists => \/ x.exists /\ y.uid = x.uid /\ y.spec.type = x.spec.type
                       \/ y.uid > x.rv
    BY <1>2 DEF Newer
  <2>2. /\ c \in QuotaObject /\ c.uid <= c.rv /\ c.rv <= x.rv
        /\ c.exists /\ x.exists /\ c.uid = x.uid => c.spec.type = x.spec.type
    BY DEF CopyOf
  <2>3. c.rv \in Nat /\ c.uid \in Nat /\ x.rv \in Nat /\ y.rv \in Nat /\ y.uid \in Nat
    BY <2>1, <2>2 DEF QuotaObject
  <2>4. c.rv < y.rv /\ ~(y.uid > x.rv /\ c.uid = y.uid)
    BY <2>1, <2>2, <2>3
  <2>5. c.exists /\ y.exists /\ c.uid = y.uid => c.spec.type = y.spec.type
    BY <2>1, <2>2, <2>4
  <2> QED
    BY <2>2, <2>3, <2>4, <2>5 DEF CopyOf
<1> QED
  BY <1>1, <1>2

\* A quota that is edited does not come to conflict with a request that was compared
\* with it, and one that is created again is another one.
LEMMA HarmlessStays ==
    ASSUME NEW c, NEW p \in Quotas, NEW x \in QuotaObject, NEW y,
           Harmless(c, p, x), Newer(y, x)
    PROVE  Harmless(c, p, y)
<1>1. CASE y = x
  BY <1>1
<1>2. CASE y # x
  <2>1. /\ y \in QuotaObject /\ y.rv > x.rv
        /\ y.exists => \/ x.exists /\ y.uid = x.uid /\ y.spec.type = x.spec.type
                       \/ y.uid > x.rv
    BY <1>2 DEF Newer
  <2>2. x.rv \in Nat /\ y.rv \in Nat /\ y.uid \in Nat
    BY <2>1 DEF QuotaObject
  <2>3. \A u \in Nat : <<p, u>> \in c.listed => u <= x.rv
    BY DEF Harmless
  <2>4. \A u \in Nat : <<p, u>> \in c.listed => u <= y.rv
    BY <2>1, <2>2, <2>3
  <2>5. ~(y.uid > x.rv /\ <<p, y.uid>> \in c.listed)
    BY <2>2, <2>3
  <2>6. c.spec.type = "Cluster" /\ y.exists /\ <<p, y.uid>> \in c.listed
        => y.spec.type # "Cluster"
    BY <2>1, <2>5 DEF Harmless
  <2> QED
    BY <2>4, <2>6 DEF Harmless
<1> QED
  BY <1>1, <1>2

LEMMA FinalizerWritten ==
    ASSUME NEW x \in QuotaObject, NEW b \in BOOLEAN
    PROVE  /\ [x EXCEPT !.finalizer = b] \in QuotaObject
           /\ [x EXCEPT !.finalizer = b].exists = x.exists
           /\ [x EXCEPT !.finalizer = b].uid = x.uid
           /\ [x EXCEPT !.finalizer = b].spec = x.spec
BY DEF QuotaObject

LEMMA DeletingWritten ==
    ASSUME NEW x \in QuotaObject, NEW b \in BOOLEAN
    PROVE  /\ [x EXCEPT !.deleting = b] \in QuotaObject
           /\ [x EXCEPT !.deleting = b].exists = x.exists
           /\ [x EXCEPT !.deleting = b].uid = x.uid
           /\ [x EXCEPT !.deleting = b].spec = x.spec
BY DEF QuotaObject

LEMMA ConditionsWritten ==
    ASSUME NEW x \in QuotaObject, NEW c \in {"Ready", "Exceeded", "Enforced"}
    PROVE  /\ [x EXCEPT !.conditions = @ \cup {c}] \in QuotaObject
           /\ [x EXCEPT !.conditions = @ \cup {c}].rv = x.rv
           /\ [x EXCEPT !.conditions = @ \cup {c}].uid = x.uid
           /\ [x EXCEPT !.conditions = @ \cup {c}].exists = x.exists
           /\ [x EXCEPT !.conditions = @ \cup {c}].spec = x.spec
BY DEF QuotaObject

LEMMA SpecWritten ==
    ASSUME NEW x \in QuotaObject, NEW s \in QuotaSpecs
    PROVE  /\ [x EXCEPT !.spec = s] \in QuotaObject
           /\ [x EXCEPT !.spec = s].exists = x.exists /\ [x EXCEPT !.spec = s].uid = x.uid
           /\ [x EXCEPT !.spec = s].spec = s
BY DEF QuotaObject

LEMMA BlankIsQuota ==
    BlankQuota \in QuotaObject /\ BlankQuota.exists = FALSE /\ BlankQuota.uid = 0
<1>1. Nothing \in Amounts
  BY DEF Nothing, Amount, Amounts
<1>2. <<>> \in LimitLists
  <2>1. <<>> \in [{} -> Int] /\ {} \in SUBSET Resources
    OBVIOUS
  <2> QED
    BY <2>1 DEF LimitLists
<1> QED
  BY <1>1, <1>2 DEF QuotaObject, BlankQuota

LEMMA QuotaCreated ==
    ASSUME NEW s \in QuotaSpecs \cup {NoSpec}, NEW n \in Nat
    PROVE  LET new == [BlankQuota EXCEPT !.exists = TRUE, !.uid = n, !.spec = s]
           IN  new \in QuotaObject /\ new.exists /\ new.uid = n /\ new.spec = s
BY BlankIsQuota DEF QuotaObject

LEMMA StatusReported ==
    ASSUME NEW x \in QuotaObject, NEW usage \in Amounts, NEW limits \in LimitLists
    PROVE  /\ Reported(x, usage, limits) \in QuotaObject /\ Reported(x, usage, limits).rv = x.rv
           /\ Reported(x, usage, limits).exists = x.exists
           /\ Reported(x, usage, limits).uid = x.uid
           /\ Reported(x, usage, limits).spec = x.spec
<1> DEFINE c == IF Exceeded(usage, limits) THEN "Exceeded" ELSE "Enforced"
<1>1. c \in {"Exceeded", "Enforced"}
  OBVIOUS
<1>2. Reported(x, usage, limits) =
         [x EXCEPT !.used = usage, !.limits = limits, !.conditions = x.conditions \cup {c}]
  BY DEF Reported
<1>3. x.conditions \cup {c} \in SUBSET {"Ready", "Exceeded", "Enforced"}
  BY <1>1 DEF QuotaObject
<1> HIDE DEF c
<1> DEFINE new == [x EXCEPT !.used = usage, !.limits = limits,
                            !.conditions = x.conditions \cup {c}]
<1>4. /\ new \in QuotaObject /\ new.rv = x.rv /\ new.exists = x.exists /\ new.uid = x.uid
      /\ new.spec = x.spec
  BY <1>3 DEF QuotaObject
<1> QED
  BY <1>2, <1>4

------------------------------------------------------------------------------
(* What is counted *)

LEMMA ScopeFinite ==
    ASSUME NEW spec
    PROVE  InScope(spec) \subseteq Orders /\ IsFiniteSet(InScope(spec))
<1>1. InScope(spec) \subseteq Orders
  BY DEF InScope
<1> QED
  BY <1>1, QuotaConstantsAssumption, FS_Subset

LEMMA TicketsCounted ==
    ASSUME NEW spec, NEW ts \in Tickets
    PROVE  CountTickets(spec, ts) \in Nat /\ ReservedCpu(spec, ts) \in Nat
<1> DEFINE f == [o \in Orders |-> SumFunctionOnSet(ts[o], Cpus)]
           weighted(o) == [c \in Cpus |-> c * ts[o][c]]
           g == [o \in Orders |-> SumFunctionOnSet(weighted(o), Cpus)]
<1>1. IsFiniteSet(Cpus) /\ Cpus \subseteq Nat
  BY QuotaConstantsAssumption
<1>2. \A o \in Orders : \A c \in Cpus : ts[o][c] \in Nat
  BY DEF Tickets
<1>3. ASSUME NEW o \in Orders
      PROVE  f[o] \in Nat /\ g[o] \in Nat
  <2>1. \A c \in Cpus : weighted(o)[c] \in Nat
    BY <1>1, <1>2
  <2> HIDE DEF weighted
  <2>2. SumFunctionOnSet(ts[o], Cpus) \in Nat /\ SumFunctionOnSet(weighted(o), Cpus) \in Nat
    BY <1>1, <1>2, <2>1, SumNat
  <2> QED
    BY <2>2
<1> HIDE DEF f, g
<1>4. SumFunctionOnSet(f, InScope(spec)) \in Nat /\ SumFunctionOnSet(g, InScope(spec)) \in Nat
  BY <1>3, ScopeFinite, SumNat
<1> QED
  BY <1>4 DEF CountTickets, ReservedCpu, f, g

LEMMA OrdersCounted ==
    ASSUME NEW spec, NEW os
    PROVE  CountOrders(spec, os) \in Nat
<1>1. IsFiniteSet({o \in InScope(spec) : os[o].exists})
  BY ScopeFinite, FS_Subset
<1> QED
  BY <1>1, FS_CardinalityType DEF CountOrders

LEMMA UsageCounted ==
    ASSUME NEW spec, NEW os, NEW ts \in Tickets
    PROVE  Usage(spec, os, ts) \in Amounts
BY TicketsCounted, OrdersCounted DEF Usage, Amount, Amounts

LEMMA LimitsList ==
    ASSUME NEW hard
    PROVE  IsLimits(hard) <=> hard \in LimitLists
BY DEF IsLimits, LimitLists

LEMMA LimitsCurrent ==
    ASSUME NEW spec \in QuotaSpecs \cup {NoSpec}
    PROVE  CurrentLimits(spec) \in LimitLists
<1>1. CASE spec = NoSpec
  <2>1. NoSpec.multiplier = 0 /\ NoSpec.hard = <<>>
    BY DEF NoSpec
  <2>2. BlankQuota.limits \in LimitLists /\ BlankQuota.limits = <<>>
    BY BlankIsQuota DEF QuotaObject, BlankQuota
  <2> QED
    BY <1>1, <2>1, <2>2 DEF CurrentLimits
<1>2. CASE spec \in QuotaSpecs
  <2>1. IsLimits(spec.hard) /\ spec.multiplier \in Int
    BY <1>2, QuotaConstantsAssumption
  <2>2. IsLimits([r \in DOMAIN spec.hard |-> spec.hard[r] * spec.multiplier])
    BY <2>1 DEF IsLimits
  <2>3. IsLimits(CurrentLimits(spec))
    BY <2>1, <2>2 DEF CurrentLimits
  <2> QED
    BY <2>3, LimitsList
<1> QED
  BY <1>1, <1>2

------------------------------------------------------------------------------
(* Every step *)

\* Whoever changes a quota, it is one of the writes.
LEMMA StepWrites ==
    ASSUME QuotaInv, [Next]_vars
    PROVE  UNCHANGED quotas \/ \E q \in Quotas : \E obj : Writes(q, obj)
<1>0. UNCHANGED vars => UNCHANGED quotas
  BY DEF vars, apiVars
<1>1. ASSUME NEW o \in Orders,
             \/ SubmitCreate(o) \/ SubmitUpdate(o) \/ DeleteOrder(o)
             \/ Allow(o) \/ Deny(o) \/ Persist(o) \/ Drop(o)
             \/ CreateTicket(o) \/ DeleteTicket(o)
      PROVE  UNCHANGED quotas
  BY <1>1 DEF SubmitCreate, SubmitUpdate, Submit, DeleteOrder, Allow, Deny, Persist, Drop,
              CreateTicket, DeleteTicket, apiVars
<1>2. ASSUME NEW q \in Quotas, PersistQuota(q)
      PROVE  \E obj : Writes(q, obj)
  <2> DEFINE new == [BlankQuota EXCEPT !.exists = TRUE, !.uid = quotas[q].rv + 1,
                                       !.spec = creations[q].spec]
  <2>1. creations[q].spec \in QuotaSpecs /\ quotas[q].rv + 1 \in Nat
    <3>1. creations[q] \in Creation
      BY <1>2 DEF PersistQuota, QuotaInv, CreationShapes
    <3>2. quotas[q].rv \in Nat
      BY DEF QuotaInv, QuotaShapes, QuotaObject
    <3> QED
      BY <3>1, <3>2 DEF Creation
  <2>2. /\ new \in QuotaObject /\ new.exists /\ new.uid = quotas[q].rv + 1
        /\ new.spec = creations[q].spec
    BY <2>1, QuotaCreated
  <2>3. Store(q, new) /\ ~quotas[q].exists /\ creations[q] # NoCreation
    BY <1>2 DEF PersistQuota
  <2> HIDE DEF new
  <2>4. Writes(q, new)
    BY <2>2, <2>3 DEF Writes, Begins
  <2> QED
    BY <2>4
<1>3. ASSUME NEW q \in Quotas, EditQuota(q)
      PROVE  \E obj : Writes(q, obj)
  <2>1. PICK spec \in QuotaSpecs :
           spec.type = quotas[q].spec.type /\ Store(q, [quotas[q] EXCEPT !.spec = spec])
    BY <1>3 DEF EditQuota
  <2> DEFINE new == [quotas[q] EXCEPT !.spec = spec]
  <2>2. /\ new \in QuotaObject /\ new.exists = quotas[q].exists /\ new.uid = quotas[q].uid
        /\ new.spec = spec
    BY SpecWritten DEF QuotaInv, QuotaShapes
  <2>3. quotas[q].exists
    BY <1>3 DEF EditQuota
  <2> HIDE DEF new
  <2>4. Writes(q, new)
    BY <2>1, <2>2, <2>3 DEF Writes, Keeps, new
  <2> QED
    BY <2>4
<1>4. ASSUME NEW q \in Quotas, DeleteQuota(q)
      PROVE  \E obj : Writes(q, obj)
  <2>1. CASE quotas[q].finalizer
    <3> DEFINE new == [quotas[q] EXCEPT !.deleting = TRUE]
    <3>1. /\ new \in QuotaObject /\ new.exists = quotas[q].exists /\ new.uid = quotas[q].uid
          /\ new.spec = quotas[q].spec
      BY DeletingWritten DEF QuotaInv, QuotaShapes
    <3>2. Store(q, new) /\ quotas[q].exists
      BY <1>4, <2>1 DEF DeleteQuota
    <3> HIDE DEF new
    <3>3. Writes(q, new)
      BY <3>1, <3>2 DEF Writes, Keeps
    <3> QED
      BY <3>3
  <2>2. CASE ~quotas[q].finalizer
    <3>1. Store(q, BlankQuota)
      BY <1>4, <2>2 DEF DeleteQuota
    <3> WITNESS BlankQuota
    <3> QED
      BY <3>1, BlankIsQuota DEF Writes, Ends
  <2> QED
    BY <2>1, <2>2
<1>5. ASSUME NEW q \in Quotas, Reconcile(q)
      PROVE  UNCHANGED quotas
  BY <1>5 DEF Reconcile, ReconcileGone, ReconcileDeleting, ReconcileUnfinalized,
              ReconcileFailed, ReconcileUsage, Begin, apiVars
<1>6. /\ DeliverQuotas \/ DeliverOrders \/ DeliverTickets \/ Restart \/ CallFails
         => UNCHANGED quotas
      /\ \A q \in Quotas : AllowQuota(q) => UNCHANGED quotas
  BY DEF DeliverQuotas, DeliverOrders, DeliverTickets, Restart, CallFails, AllowQuota, apiVars
<1>7. ASSUME worker.call # "idle"
      PROVE  worker.q \in Quotas /\ CopyOf(worker.obj, quotas[worker.q])
  BY <1>7 DEF QuotaInv, Copies
<1>8. ASSUME worker.call # "idle", Current(worker.q, worker.obj)
      PROVE  /\ worker.obj \in QuotaObject /\ quotas[worker.q].exists /\ worker.obj.exists
             /\ worker.obj.uid = quotas[worker.q].uid
             /\ worker.obj.spec = quotas[worker.q].spec
  BY <1>7, <1>8 DEF CopyOf, Current
<1>9. ASSUME AddFinalizer, quotas' # quotas
      PROVE  \E q \in Quotas : \E obj : Writes(q, obj)
  <2>1. worker.call # "idle" /\ Current(worker.q, worker.obj)
        /\ Store(worker.q, [worker.obj EXCEPT !.finalizer = TRUE])
    BY <1>9 DEF AddFinalizer
  <2> DEFINE new == [worker.obj EXCEPT !.finalizer = TRUE]
  <2>2. /\ new \in QuotaObject /\ new.exists = worker.obj.exists /\ new.uid = worker.obj.uid
        /\ new.spec = worker.obj.spec
    BY <1>8, <2>1, FinalizerWritten
  <2> HIDE DEF new
  <2>3. Writes(worker.q, new)
    BY <1>8, <2>1, <2>2 DEF Writes, Keeps, new
  <2> QED
    BY <1>7, <2>1, <2>3
<1>10. ASSUME UpdateStatus, quotas' # quotas
       PROVE  \E q \in Quotas : \E obj : Writes(q, obj)
  <2>1. worker.call # "idle" /\ Current(worker.q, worker.obj) /\ Store(worker.q, worker.obj)
    BY <1>10 DEF UpdateStatus
  <2>2. Writes(worker.q, worker.obj)
    BY <1>8, <2>1 DEF Writes, Keeps
  <2> QED
    BY <1>7, <2>1, <2>2
<1>11. ASSUME RemoveFinalizer, quotas' # quotas
       PROVE  \E q \in Quotas : \E obj : Writes(q, obj)
  <2>1. worker.call # "idle" /\ Store(worker.q, BlankQuota)
    BY <1>11 DEF RemoveFinalizer
  <2>2. Writes(worker.q, BlankQuota)
    BY <2>1, BlankIsQuota DEF Writes, Ends
  <2> QED
    BY <1>7, <2>1, <2>2
<1> QED
  BY <1>0, <1>1, <1>2, <1>3, <1>4, <1>5, <1>6, <1>9, <1>10, <1>11 DEF Next, WorkerStep

LEMMA QuotasAdvance ==
    ASSUME QuotaInv, [Next]_vars
    PROVE  /\ quotas' \in [Quotas -> QuotaObject] /\ Advance
           /\ \A q \in Quotas : quotas'[q].uid <= quotas'[q].rv
<1> SUFFICES quotas' \in [Quotas -> QuotaObject] /\ Advance
  BY DEF QuotaInv, QuotaShapes, Advance, Newer
<1>1. CASE UNCHANGED quotas
  BY <1>1 DEF QuotaInv, QuotaShapes, Advance, Newer
<1>2. CASE \E q \in Quotas : \E obj : Writes(q, obj)
  <2>1. PICK q \in Quotas : \E obj : Writes(q, obj)
    BY <1>2
  <2>2. PICK obj : Writes(q, obj)
    BY <2>1
  <2> QED
    BY <2>2, StoreAdvances DEF Writes, QuotaInv
<1> QED
  BY <1>1, <1>2, StepWrites

LEMMA WorkerCopies ==
    ASSUME QuotaInv, [Next]_vars
    PROVE  \/ UNCHANGED worker
           \/ worker'.call = "idle"
           \/ /\ worker'.q \in Quotas /\ CopyOf(worker'.obj, quotas[worker'.q])
              /\ UNCHANGED quotas
<1>1. ASSUME NEW q \in Quotas, Reconcile(q)
      PROVE  \/ UNCHANGED worker
             \/ /\ worker'.q \in Quotas /\ CopyOf(worker'.obj, quotas[worker'.q])
                /\ UNCHANGED quotas
  <2>1. CopyOf(quotaCache[q], quotas[q]) /\ quotaCache[q] \in QuotaObject
    BY DEF QuotaInv, Copies, CopyOf
  <2>2. CopyOf([quotaCache[q] EXCEPT !.conditions = @ \cup {"Ready"}], quotas[q])
    BY <2>1, ConditionsWritten, ZenonT(60) DEF CopyOf
  <2>3. ASSUME NEW usage \in Amounts, NEW limits \in LimitLists
        PROVE  CopyOf(Reported(quotaCache[q], usage, limits), quotas[q])
    BY <2>1, StatusReported DEF CopyOf
  <2>4. ASSUME NEW call, NEW obj, CopyOf(obj, quotas[q]), Begin(q, call, obj)
        PROVE  worker'.q \in Quotas /\ CopyOf(worker'.obj, quotas[worker'.q]) /\ UNCHANGED quotas
    BY <2>4 DEF Begin, apiVars
  <2>5. CASE ReconcileGone(q)
    BY <2>5 DEF ReconcileGone
  <2>6. CASE ReconcileDeleting(q)
    BY <2>1, <2>4, <2>6 DEF ReconcileDeleting
  <2>7. CASE ReconcileUnfinalized(q)
    BY <2>1, <2>4, <2>7 DEF ReconcileUnfinalized
  <2>8. CASE ReconcileFailed(q)
    BY <2>2, <2>4, <2>8 DEF ReconcileFailed
  <2>9. CASE ReconcileUsage(q)
    <3>1. Usage(quotaCache[q].spec, orderCache, ticketCache) \in Amounts
      BY UsageCounted DEF QuotaInv, OrderShapes
    <3>2. CurrentLimits(quotaCache[q].spec) \in LimitLists
      BY <2>1, LimitsCurrent DEF QuotaObject
    <3> QED
      BY <2>3, <2>4, <2>9, <3>1, <3>2 DEF ReconcileUsage
  <2> QED
    BY <1>1, <2>5, <2>6, <2>7, <2>8, <2>9 DEF Reconcile
<1>2. ASSUME NEW o \in Orders,
             \/ SubmitCreate(o) \/ SubmitUpdate(o) \/ DeleteOrder(o)
             \/ Allow(o) \/ Deny(o) \/ Persist(o) \/ Drop(o)
             \/ CreateTicket(o) \/ DeleteTicket(o)
      PROVE  UNCHANGED worker
  BY <1>2 DEF SubmitCreate, SubmitUpdate, Submit, DeleteOrder, Allow, Deny, Persist, Drop,
              CreateTicket, DeleteTicket, controllerVars
<1>3. ASSUME NEW q \in Quotas, AllowQuota(q) \/ PersistQuota(q) \/ EditQuota(q) \/ DeleteQuota(q)
      PROVE  UNCHANGED worker
  BY <1>3 DEF AllowQuota, PersistQuota, EditQuota, DeleteQuota, controllerVars
<1>4. DeliverQuotas \/ DeliverOrders \/ DeliverTickets => UNCHANGED worker
  BY DEF DeliverQuotas, DeliverOrders, DeliverTickets, controllerVars
<1>5. WorkerStep \/ Restart => worker'.call = "idle"
  BY DEF WorkerStep, AddFinalizer, UpdateStatus, RemoveFinalizer, CallFails, Return, Restart,
         Resting
<1>6. UNCHANGED vars => UNCHANGED worker
  BY DEF vars, controllerVars
<1> QED
  BY <1>1, <1>2, <1>3, <1>4, <1>5, <1>6 DEF Next

\* Only AllowQuota makes a request.
LEMMA CreationsStep ==
    ASSUME [Next]_vars
    PROVE  \/ UNCHANGED creations
           \/ \E q \in Quotas : creations' = [creations EXCEPT ![q] = NoCreation]
           \/ \E q \in Quotas : AllowQuota(q)
<1>1. ASSUME NEW o \in Orders,
             \/ SubmitCreate(o) \/ SubmitUpdate(o) \/ DeleteOrder(o)
             \/ Allow(o) \/ Deny(o) \/ Persist(o) \/ Drop(o)
             \/ CreateTicket(o) \/ DeleteTicket(o)
      PROVE  UNCHANGED creations
  BY <1>1 DEF SubmitCreate, SubmitUpdate, Submit, DeleteOrder, Allow, Deny, Persist, Drop,
              CreateTicket, DeleteTicket, admissionVars
<1>2. ASSUME NEW q \in Quotas, EditQuota(q) \/ DeleteQuota(q) \/ Reconcile(q)
      PROVE  UNCHANGED creations
  BY <1>2 DEF EditQuota, DeleteQuota, Reconcile, ReconcileGone, ReconcileDeleting,
              ReconcileUnfinalized, ReconcileFailed, ReconcileUsage, Begin, admissionVars
<1>3. ASSUME NEW q \in Quotas, PersistQuota(q)
      PROVE  creations' = [creations EXCEPT ![q] = NoCreation]
  BY <1>3 DEF PersistQuota
<1>4. DeliverQuotas \/ DeliverOrders \/ DeliverTickets \/ WorkerStep \/ Restart
      => UNCHANGED creations
  BY DEF DeliverQuotas, DeliverOrders, DeliverTickets, WorkerStep, AddFinalizer, UpdateStatus,
         RemoveFinalizer, CallFails, Restart, admissionVars
<1>5. UNCHANGED vars => UNCHANGED creations
  BY DEF vars, admissionVars
<1> QED
  BY <1>1, <1>2, <1>3, <1>4, <1>5 DEF Next

\* A request that is let pass conflicts with nothing on the list, nor with what has
\* become of it.
LEMMA AllowedHarmless ==
    ASSUME QuotaInv, NEW q \in Quotas, AllowQuota(q)
    PROVE  /\ UNCHANGED quotas
           /\ \E c \in Creation :
                 /\ creations' = [creations EXCEPT ![q] = c]
                 /\ \A p \in Quotas \ {q} : Harmless(c, p, quotas[p])
<1> DEFINE list == {p \in Quotas \ {q} : quotaCache[p].exists}
           lives == {<<p, quotaCache[p].uid>> : p \in list}
<1>1. PICK spec \in QuotaSpecs :
         NoConflict(q, spec) /\ creations' = [creations EXCEPT ![q] = [spec |-> spec, listed |-> lives]]
  BY DEF AllowQuota
<1> DEFINE c == [spec |-> spec, listed |-> lives]
<1>2. ASSUME NEW p \in Quotas
      PROVE  CopyOf(quotaCache[p], quotas[p])
             /\ quotaCache[p].uid \in Nat /\ quotaCache[p].uid <= quotas[p].rv
  <2>1. CopyOf(quotaCache[p], quotas[p]) /\ quotas[p] \in QuotaObject
    BY DEF QuotaInv, QuotaShapes, Copies
  <2>2. quotaCache[p].uid \in Nat /\ quotaCache[p].rv \in Nat /\ quotas[p].rv \in Nat
    BY <2>1 DEF CopyOf, QuotaObject
  <2>3. quotaCache[p].uid <= quotaCache[p].rv /\ quotaCache[p].rv <= quotas[p].rv
    BY <2>1 DEF CopyOf
  <2> QED
    BY <2>1, <2>2, <2>3
<1>3. lives \subseteq Quotas \X Nat
  BY <1>2
<1>4. ASSUME NEW p \in Quotas, NEW u, <<p, u>> \in lives
      PROVE  p \in list /\ u = quotaCache[p].uid
  BY <1>4
<1>5. c \in Creation
  BY <1>3 DEF Creation
<1>6. ASSUME NEW p \in Quotas \ {q}
      PROVE  Harmless(c, p, quotas[p])
  <2> HIDE DEF list, lives
  <2>1. \A u \in Nat : <<p, u>> \in lives => u <= quotas[p].rv
    BY <1>2, <1>4
  <2>2. ASSUME spec.type = "Cluster", quotas[p].exists, <<p, quotas[p].uid>> \in lives
        PROVE  quotas[p].spec.type # "Cluster"
    <3>1. quotaCache[p].exists /\ quotaCache[p].uid = quotas[p].uid
      BY <1>4, <2>2 DEF list
    <3>2. quotaCache[p].spec.type # "Cluster"
      BY <1>1, <2>2, <3>1 DEF NoConflict
    <3>3. quotaCache[p].spec.type = quotas[p].spec.type
      BY <1>2, <2>2, <3>1 DEF CopyOf
    <3> QED
      BY <3>2, <3>3
  <2> QED
    BY <2>1, <2>2 DEF Harmless
<1>7. UNCHANGED quotas
  BY DEF AllowQuota
<1> QED
  BY <1>1, <1>5, <1>6, <1>7

LEMMA RequestsStep ==
    ASSUME QuotaInv, [Next]_vars
    PROVE  CreationShapes' /\ Requests'
<1>1. creations \in [Quotas -> {NoCreation} \cup Creation] /\ quotas \in [Quotas -> QuotaObject]
  BY DEF QuotaInv, CreationShapes, QuotaShapes
<1>2. ASSUME NEW c, NEW p \in Quotas, Harmless(c, p, quotas[p])
      PROVE  Harmless(c, p, quotas'[p])
  BY <1>1, <1>2, QuotasAdvance, HarmlessStays DEF Advance
<1>3. ASSUME NEW p \in Quotas
      PROVE  Harmless(NoCreation, p, quotas'[p])
  BY DEF Harmless, NoCreation
<1>4. ASSUME NEW c \in {NoCreation} \cup Creation, NEW q \in Quotas,
             creations' = [creations EXCEPT ![q] = c],
             \A p \in Quotas \ {q} : Harmless(c, p, quotas'[p])
      PROVE  CreationShapes' /\ Requests'
  <2>1. creations' \in [Quotas -> {NoCreation} \cup Creation]
    BY <1>1, <1>4
  <2>2. ASSUME NEW r \in Quotas, NEW p \in Quotas \ {r}
        PROVE  Harmless(creations'[r], p, quotas'[p])
    <3>1. CASE r = q
      BY <1>1, <1>4, <3>1
    <3>2. CASE r # q
      <4>1. creations'[r] = creations[r] /\ Harmless(creations[r], p, quotas[p])
        BY <1>1, <1>4, <3>2 DEF QuotaInv, Requests
      <4> QED
        BY <1>2, <4>1
    <3> QED
      BY <3>1, <3>2
  <2> QED
    BY <2>1, <2>2 DEF CreationShapes, Requests
<1>5. CASE UNCHANGED creations
  BY <1>1, <1>2, <1>5 DEF QuotaInv, CreationShapes, Requests
<1>6. CASE \E q \in Quotas : creations' = [creations EXCEPT ![q] = NoCreation]
  BY <1>3, <1>4, <1>6
<1>7. CASE \E q \in Quotas : AllowQuota(q)
  <2>1. PICK q \in Quotas : AllowQuota(q)
    BY <1>7
  <2>2. PICK c \in Creation :
           /\ creations' = [creations EXCEPT ![q] = c]
           /\ \A p \in Quotas \ {q} : Harmless(c, p, quotas[p])
    BY <2>1, AllowedHarmless
  <2>3. UNCHANGED quotas
    BY <2>1, AllowedHarmless
  <2> QED
    BY <1>4, <2>2, <2>3
<1> QED
  BY <1>5, <1>6, <1>7, CreationsStep

LEMMA CacheCopies ==
    ASSUME [Next]_vars
    PROVE  UNCHANGED quotaCache \/ (quotaCache' = quotas /\ UNCHANGED quotas)
<1>1. ASSUME NEW o \in Orders,
             \/ SubmitCreate(o) \/ SubmitUpdate(o) \/ DeleteOrder(o)
             \/ Allow(o) \/ Deny(o) \/ Persist(o) \/ Drop(o)
             \/ CreateTicket(o) \/ DeleteTicket(o)
      PROVE  UNCHANGED quotaCache
  BY <1>1 DEF SubmitCreate, SubmitUpdate, Submit, DeleteOrder, Allow, Deny, Persist, Drop,
              CreateTicket, DeleteTicket, cacheVars
<1>2. ASSUME NEW q \in Quotas,
             AllowQuota(q) \/ PersistQuota(q) \/ EditQuota(q) \/ DeleteQuota(q) \/ Reconcile(q)
      PROVE  UNCHANGED quotaCache
  BY <1>2 DEF AllowQuota, PersistQuota, EditQuota, DeleteQuota, Reconcile, ReconcileGone, ReconcileDeleting,
              ReconcileUnfinalized, ReconcileFailed, ReconcileUsage, Begin, cacheVars
<1>3. DeliverQuotas \/ Restart => quotaCache' = quotas /\ UNCHANGED quotas
  BY DEF DeliverQuotas, Restart, apiVars
<1>4. DeliverOrders \/ DeliverTickets \/ WorkerStep => UNCHANGED quotaCache
  BY DEF DeliverOrders, DeliverTickets, WorkerStep, AddFinalizer, UpdateStatus, RemoveFinalizer,
         CallFails, cacheVars
<1>5. UNCHANGED vars => UNCHANGED quotaCache
  BY DEF vars, cacheVars
<1> QED
  BY <1>1, <1>2, <1>3, <1>4, <1>5 DEF Next

\* Only Allow lets a request pass.
LEMMA ReviewsStep ==
    ASSUME OrderShapes, [Next]_vars
    PROVE  /\ reviews' \in [Orders -> {NoReview} \cup Pending]
           /\ \A o \in Orders : reviews'[o].allowed /\ ~reviews[o].allowed => Allow(o)
<1> DEFINE Fine == /\ reviews' \in [Orders -> {NoReview} \cup Pending]
                   /\ \A o \in Orders : reviews'[o].allowed /\ ~reviews[o].allowed => Allow(o)
<1>1. reviews \in [Orders -> {NoReview} \cup Pending]
  BY DEF OrderShapes
<1>2. UNCHANGED reviews => Fine
  BY <1>1
<1>3. ASSUME NEW o \in Orders, NEW v \in {NoReview} \cup Pending, ~v.allowed,
             reviews' = [reviews EXCEPT ![o] = v]
      PROVE  Fine
  BY <1>1, <1>3
<1>4. ~NoReview.allowed
  BY DEF NoReview
<1>5. ASSUME NEW o \in Orders, NEW verb \in {"create", "update"}, Submit(o, verb)
      PROVE  Fine
  <2>1. PICK new \in OrderSpecs \ {orders[o]} :
           reviews' = [reviews EXCEPT ![o] =
              [verb |-> verb, old |-> orders[o], new |-> new, allowed |-> FALSE]]
    BY <1>5 DEF Submit
  <2> DEFINE v == [verb |-> verb, old |-> orders[o], new |-> new, allowed |-> FALSE]
  <2>2. IF verb = "create" THEN orders[o] = NoOrder ELSE orders[o] \in OrderSpecs
    <3>1. orders[o] \in OrderSpecs \cup {NoOrder}
      BY DEF OrderShapes
    <3>2. verb = IF orders[o].exists THEN "update" ELSE "create"
      BY <1>5 DEF Submit
    <3>3. ~NoOrder.exists /\ \A x \in OrderSpecs : x.exists
      BY DEF NoOrder, OrderSpecs
    <3> QED
      BY <3>1, <3>2, <3>3
  <2>3. v \in Pending /\ ~v.allowed
    BY <2>2 DEF Pending
  <2> HIDE DEF v, Fine
  <2>4. reviews' = [reviews EXCEPT ![o] = v]
    BY <2>1 DEF v
  <2> QED
    BY <1>3, <2>3, <2>4
<1>6. ASSUME NEW o \in Orders, Allow(o)
      PROVE  Fine
  <2>1. reviews[o] \in Pending
    BY <1>1, <1>6 DEF Allow
  <2>2. [reviews[o] EXCEPT !.allowed = TRUE] \in Pending
    BY <2>1 DEF Pending
  <2>3. reviews' = [reviews EXCEPT ![o] = [reviews[o] EXCEPT !.allowed = TRUE]]
    BY <1>6 DEF Allow
  <2> QED
    BY <1>1, <1>6, <2>2, <2>3
<1>7. ASSUME NEW o \in Orders, Deny(o) \/ Persist(o) \/ Drop(o)
      PROVE  Fine
  <2>1. reviews' = [reviews EXCEPT ![o] = NoReview]
    BY <1>7 DEF Deny, Persist, Drop
  <2> HIDE DEF Fine
  <2> QED
    BY <1>3, <1>4, <2>1
<1>8. ASSUME NEW o \in Orders, DeleteOrder(o) \/ CreateTicket(o) \/ DeleteTicket(o)
      PROVE  UNCHANGED reviews
  BY <1>8 DEF DeleteOrder, CreateTicket, DeleteTicket, admissionVars
<1>9. ASSUME NEW q \in Quotas,
             AllowQuota(q) \/ PersistQuota(q) \/ EditQuota(q) \/ DeleteQuota(q) \/ Reconcile(q)
      PROVE  UNCHANGED reviews
  BY <1>9 DEF AllowQuota, PersistQuota, EditQuota, DeleteQuota, Reconcile, ReconcileGone, ReconcileDeleting,
              ReconcileUnfinalized, ReconcileFailed, ReconcileUsage, Begin, admissionVars
<1>10. DeliverQuotas \/ DeliverOrders \/ DeliverTickets \/ WorkerStep => UNCHANGED reviews
  BY DEF DeliverQuotas, DeliverOrders, DeliverTickets, WorkerStep, AddFinalizer, UpdateStatus,
         RemoveFinalizer, CallFails, admissionVars
<1>11. ASSUME Restart
       PROVE  Fine
  <2>1. reviews' = [o \in Orders |-> IF reviews[o].allowed THEN reviews[o] ELSE NoReview]
    BY <1>11 DEF Restart
  <2> QED
    BY <1>1, <1>4, <2>1
<1>12. UNCHANGED vars => UNCHANGED reviews
  BY DEF vars, admissionVars
<1> HIDE DEF Fine
<1>13. ASSUME NEW o \in Orders, SubmitCreate(o) \/ SubmitUpdate(o)
       PROVE  Fine
  BY <1>5, <1>13 DEF SubmitCreate, SubmitUpdate
<1>14. Fine
  BY <1>2, <1>6, <1>7, <1>8, <1>9, <1>10, <1>11, <1>12, <1>13 DEF Next
<1> QED
  BY <1>14 DEF Fine

\* Every order that is stored has been asked for, and its tickets are counted by a
\* cpu request that it may have.
LEMMA OrdersStep ==
    ASSUME OrderShapes, [Next]_vars
    PROVE  OrderShapes'
<1> USE DEF OrderShapes
<1>1. reviews' \in [Orders -> {NoReview} \cup Pending]
  BY ReviewsStep
<1>2. MaxChanges \in Nat /\ MaxFaults \in Nat
  BY QuotaConstantsAssumption
<1>3. UNCHANGED <<changes, faults>> \/ (ByUser /\ UNCHANGED faults) \/ (Fault /\ UNCHANGED changes)
  BY DEF Next, SubmitCreate, SubmitUpdate, Submit, DeleteOrder, Allow, Deny, Persist, Drop,
         CreateTicket, DeleteTicket, AllowQuota, PersistQuota, EditQuota, DeleteQuota, Reconcile,
         ReconcileGone, ReconcileDeleting, ReconcileUnfinalized, ReconcileFailed,
         ReconcileUsage, Begin, DeliverQuotas, DeliverOrders, DeliverTickets, WorkerStep,
         AddFinalizer, UpdateStatus, RemoveFinalizer, CallFails, Restart, vars, apiVars
<1>4. changes' \in 0..MaxChanges /\ faults' \in 0..MaxFaults
  BY <1>2, <1>3 DEF ByUser, Fault
<1> DEFINE Rest == <<orders, orderCache, tickets, ticketCache>>
<1>5. ASSUME NEW o \in Orders, Persist(o)
      PROVE  orders' \in [Orders -> OrderSpecs \cup {NoOrder}] /\ UNCHANGED <<orderCache, tickets, ticketCache>>
  <2>1. reviews[o] \in Pending
    <3>1. ~NoReview.allowed
      BY DEF NoReview
    <3> QED
      BY <1>5, <3>1 DEF Persist
  <2>2. reviews[o].new \in OrderSpecs
    BY <2>1 DEF Pending
  <2> QED
    BY <1>5, <2>2 DEF Persist, cacheVars
<1>6. ASSUME NEW o \in Orders, DeleteOrder(o)
      PROVE  orders' \in [Orders -> OrderSpecs \cup {NoOrder}] /\ UNCHANGED <<orderCache, tickets, ticketCache>>
  BY <1>6 DEF DeleteOrder, cacheVars
<1>7. ASSUME NEW o \in Orders, CreateTicket(o)
      PROVE  tickets' \in Tickets /\ UNCHANGED <<orders, orderCache, ticketCache>>
  <2>1. orders[o].cpu \in Cpus
    <3>1. ~NoOrder.exists
      BY DEF NoOrder
    <3> QED
      BY <1>7, <3>1 DEF CreateTicket, OrderSpecs
  <2>2. tickets' = [tickets EXCEPT ![o] = [tickets[o] EXCEPT ![orders[o].cpu] = @ + 1]]
    BY <1>7 DEF CreateTicket
  <2>3. [tickets[o] EXCEPT ![orders[o].cpu] = @ + 1] \in [Cpus -> Nat]
    BY <2>1 DEF Tickets
  <2> QED
    BY <1>7, <2>2, <2>3 DEF CreateTicket, Tickets, cacheVars
<1>8. ASSUME NEW o \in Orders, DeleteTicket(o)
      PROVE  tickets' \in Tickets /\ UNCHANGED <<orders, orderCache, ticketCache>>
  <2>1. PICK c \in Cpus : tickets[o][c] > 0 /\ tickets' = [tickets EXCEPT ![o][c] = @ - 1]
    BY <1>8 DEF DeleteTicket
  <2>2. tickets' = [tickets EXCEPT ![o] = [tickets[o] EXCEPT ![c] = @ - 1]]
    BY <2>1
  <2>3. [tickets[o] EXCEPT ![c] = @ - 1] \in [Cpus -> Nat]
    BY <2>1 DEF Tickets
  <2> QED
    BY <1>8, <2>2, <2>3 DEF DeleteTicket, Tickets, cacheVars
<1>9. ASSUME NEW o \in Orders,
             SubmitCreate(o) \/ SubmitUpdate(o) \/ Allow(o) \/ Deny(o) \/ Drop(o)
      PROVE  UNCHANGED Rest
  BY <1>9 DEF SubmitCreate, SubmitUpdate, Submit, Allow, Deny, Drop, apiVars, cacheVars
<1>10. ASSUME NEW q \in Quotas,
              AllowQuota(q) \/ PersistQuota(q) \/ EditQuota(q) \/ DeleteQuota(q) \/ Reconcile(q)
       PROVE  UNCHANGED Rest
  BY <1>10 DEF AllowQuota, PersistQuota, EditQuota, DeleteQuota, Reconcile, ReconcileGone, ReconcileDeleting,
               ReconcileUnfinalized, ReconcileFailed, ReconcileUsage, Begin, apiVars, cacheVars
<1>11. DeliverQuotas \/ WorkerStep => UNCHANGED Rest
  BY DEF DeliverQuotas, WorkerStep, AddFinalizer, UpdateStatus, RemoveFinalizer, CallFails,
         apiVars, cacheVars
<1>12. DeliverOrders \/ DeliverTickets \/ Restart
       => /\ UNCHANGED <<orders, tickets>>
          /\ orderCache' \in {orderCache, orders} /\ ticketCache' \in {ticketCache, tickets}
  BY DEF DeliverOrders, DeliverTickets, Restart, apiVars
<1>13. UNCHANGED vars => UNCHANGED Rest
  BY DEF vars, apiVars, cacheVars
<1>14. /\ orders' \in [Orders -> OrderSpecs \cup {NoOrder}]
       /\ orderCache' \in [Orders -> OrderSpecs \cup {NoOrder}]
       /\ tickets' \in Tickets /\ ticketCache' \in Tickets
  <2> DEFINE Good == /\ orders' \in [Orders -> OrderSpecs \cup {NoOrder}]
                     /\ orderCache' \in [Orders -> OrderSpecs \cup {NoOrder}]
                     /\ tickets' \in Tickets /\ ticketCache' \in Tickets
  <2>1. UNCHANGED Rest => Good
    OBVIOUS
  <2>2. ASSUME NEW o \in Orders,
             \/ SubmitCreate(o) \/ SubmitUpdate(o) \/ DeleteOrder(o)
             \/ Allow(o) \/ Deny(o) \/ Persist(o) \/ Drop(o)
             \/ CreateTicket(o) \/ DeleteTicket(o)
        PROVE  Good
    <3>1. CASE Persist(o) \/ DeleteOrder(o)
      BY <1>5, <1>6, <3>1
    <3>2. CASE CreateTicket(o) \/ DeleteTicket(o)
      BY <1>7, <1>8, <3>2
    <3> HIDE DEF Rest, Good
    <3> QED
      BY <1>9, <2>1, <2>2, <3>1, <3>2
  <2>3. DeliverOrders \/ DeliverTickets \/ Restart => Good
    BY <1>12
  <2> HIDE DEF Rest, Good
  <2>4. Good
    BY <1>10, <1>11, <1>13, <2>1, <2>2, <2>3 DEF Next
  <2> QED
    BY <2>4 DEF Good
<1> QED
  BY <1>1, <1>4, <1>14

\* The workqueue and the worker.
LEMMA ControllerStep ==
    ASSUME QuotaInv, [Next]_vars
    PROVE  /\ queue' \subseteq Quotas
           /\ worker'.call \in {"idle", "addFinalizer", "updateStatus", "removeFinalizer"}
<1> DEFINE Calls == {"idle", "addFinalizer", "updateStatus", "removeFinalizer"}
<1>1. queue \subseteq Quotas /\ worker.call \in Calls
      /\ (worker.call # "idle" => worker.q \in Quotas)
  BY DEF QuotaInv, QuotaShapes, Copies
<1>2. ASSUME NEW o \in Orders,
             \/ SubmitCreate(o) \/ SubmitUpdate(o) \/ DeleteOrder(o)
             \/ Allow(o) \/ Deny(o) \/ Persist(o) \/ Drop(o)
             \/ CreateTicket(o) \/ DeleteTicket(o)
      PROVE  UNCHANGED <<queue, worker>>
  BY <1>2 DEF SubmitCreate, SubmitUpdate, Submit, DeleteOrder, Allow, Deny, Persist, Drop,
              CreateTicket, DeleteTicket, controllerVars
<1>3. ASSUME NEW q \in Quotas, AllowQuota(q) \/ PersistQuota(q) \/ EditQuota(q) \/ DeleteQuota(q)
      PROVE  UNCHANGED <<queue, worker>>
  BY <1>3 DEF AllowQuota, PersistQuota, EditQuota, DeleteQuota, controllerVars
<1>4. ASSUME NEW q \in Quotas, NEW call \in Calls, NEW obj, Begin(q, call, obj)
      PROVE  queue' \subseteq Quotas /\ worker'.call \in Calls
  BY <1>1, <1>4 DEF Begin
<1>5. ASSUME NEW q \in Quotas, Reconcile(q)
      PROVE  queue' \subseteq Quotas /\ worker'.call \in Calls
  <2>1. CASE ReconcileGone(q)
    BY <1>1, <2>1 DEF ReconcileGone
  <2>2. CASE \E call \in Calls : \E obj : Begin(q, call, obj)
    BY <1>4, <2>2
  <2> HIDE DEF Calls
  <2>3. {"addFinalizer", "updateStatus", "removeFinalizer"} \subseteq Calls
    BY DEF Calls
  <2> QED
    BY <1>5, <2>1, <2>2, <2>3 DEF Reconcile, ReconcileDeleting, ReconcileUnfinalized,
                                  ReconcileFailed, ReconcileUsage
<1>6. DeliverQuotas \/ DeliverOrders \/ DeliverTickets => queue' \subseteq Quotas /\ UNCHANGED worker
  BY <1>1 DEF DeliverQuotas, DeliverOrders, DeliverTickets, controllerVars
<1>7. ASSUME WorkerStep
      PROVE  queue' \subseteq Quotas /\ worker'.call = "idle"
  <2>1. worker.call # "idle"
    BY <1>7 DEF WorkerStep, AddFinalizer, UpdateStatus, RemoveFinalizer, CallFails
  <2>2. \E again : Return(again)
    BY <1>7 DEF WorkerStep, AddFinalizer, UpdateStatus, RemoveFinalizer, CallFails
  <2> QED
    BY <1>1, <2>1, <2>2 DEF Return, Resting
<1>8. Restart => queue' \subseteq Quotas /\ worker'.call = "idle"
  BY DEF Restart, Resting
<1>9. UNCHANGED vars => UNCHANGED <<queue, worker>>
  BY DEF vars, controllerVars
<1> QED
  BY <1>1, <1>2, <1>3, <1>5, <1>6, <1>7, <1>8, <1>9 DEF Next

------------------------------------------------------------------------------
(* Theorems *)

LEMMA InitQuotaInv == Init => QuotaInv
<1> SUFFICES ASSUME Init PROVE QuotaInv
  OBVIOUS
<1>1. QuotaShapes
  <2>1. BlankQuota.uid <= BlankQuota.rv
    BY DEF BlankQuota
  <2> QED
    BY <2>1, BlankIsQuota DEF Init, QuotaShapes, Resting
<1>2. OrderShapes
  BY QuotaConstantsAssumption DEF Init, OrderShapes, Tickets
<1>3. CopyOf(BlankQuota, BlankQuota)
  BY BlankIsQuota DEF CopyOf, QuotaObject
<1>4. Copies
  BY <1>3 DEF Init, Copies, Resting
<1>5. CreationShapes /\ Requests
  BY DEF Init, CreationShapes, Requests, Harmless, NoCreation
<1> QED
  BY <1>1, <1>2, <1>4, <1>5 DEF QuotaInv

LEMMA QuotaInvKept == QuotaInv /\ [Next]_vars => QuotaInv'
<1> SUFFICES ASSUME QuotaInv, [Next]_vars PROVE QuotaInv'
  OBVIOUS
<1>1. /\ quotas' \in [Quotas -> QuotaObject] /\ Advance
      /\ \A q \in Quotas : quotas'[q].uid <= quotas'[q].rv
  BY QuotasAdvance
<1>2. ASSUME NEW q \in Quotas, NEW c, CopyOf(c, quotas[q])
      PROVE  CopyOf(c, quotas'[q])
  BY <1>1, <1>2, CopyAdvances DEF Advance, QuotaInv, QuotaShapes
<1>3. ASSUME NEW q \in Quotas
      PROVE  CopyOf(quotas[q], quotas[q])
  <2>1. quotas[q] \in QuotaObject /\ quotas[q].uid <= quotas[q].rv
    BY DEF QuotaInv, QuotaShapes
  <2>2. quotas[q].rv \in Nat
    BY <2>1 DEF QuotaObject
  <2> QED
    BY <2>1, <2>2 DEF CopyOf
<1>4. quotaCache' \in [Quotas -> QuotaObject]
  BY CacheCopies DEF QuotaInv, QuotaShapes
<1>5. \A q \in Quotas : CopyOf(quotaCache'[q], quotas'[q])
  BY <1>2, <1>3, CacheCopies DEF QuotaInv, Copies
<1>6. worker'.call # "idle" => worker'.q \in Quotas /\ CopyOf(worker'.obj, quotas'[worker'.q])
  BY <1>2, WorkerCopies DEF QuotaInv, Copies
<1>7. QuotaShapes'
  BY <1>1, <1>4, ControllerStep DEF QuotaShapes
<1>8. OrderShapes'
  BY OrdersStep DEF QuotaInv
<1>9. Copies'
  BY <1>5, <1>6 DEF Copies
<1> QED
  BY <1>7, <1>8, <1>9, RequestsStep DEF QuotaInv

\* What a resourceVersion vouches for (quota_controller.go:430): whatever the
\* worker writes back with a current version has the current spec.
THEOREM QuotaInvariant == Spec => []QuotaInv
<1> QED
  BY InitQuotaInv, QuotaInvKept, PTL DEF Spec

LEMMA OrderFields ==
    ASSUME NEW x \in OrderSpecs \cup {NoOrder}
    PROVE  x \in OrderObject /\ x.replicas \in Int /\ x.cpu \in Int
<1>1. Cpus \subseteq Int /\ 0 \in 0..MaxReplicas /\ 0..MaxReplicas \subseteq Int
  BY QuotaConstantsAssumption
<1>2. CASE x \in OrderSpecs
  <2>1. x \in [exists : BOOLEAN, replicas : 0..MaxReplicas, cpu : {0} \cup Cpus]
    BY <1>2 DEF OrderSpecs
  <2> QED
    BY <1>1, <2>1 DEF OrderObject
<1>3. CASE x = NoOrder
  <2>1. NoOrder \in [exists : BOOLEAN, replicas : 0..MaxReplicas, cpu : {0} \cup Cpus]
    BY <1>1 DEF NoOrder
  <2> QED
    BY <1>1, <1>3, <2>1 DEF OrderObject
<1> QED
  BY <1>2, <1>3

LEMMA ObjectOK ==
    ASSUME NEW x \in QuotaObject
    PROVE  QuotaOK(x)
BY LimitsList DEF QuotaObject, QuotaOK

\* Types: the controller never reports a usage that is no number, however the
\* caches mix old and new lists, and a ticket is never removed that was not there.
THEOREM QuotaTypeCorrect == Spec => []TypeOK
<1>1. QuotaInv => TypeOK
  <2> SUFFICES ASSUME QuotaInv PROVE TypeOK
    OBVIOUS
  <2>1. \A q \in Quotas : QuotaOK(quotas[q]) /\ QuotaOK(quotaCache[q])
    BY ObjectOK DEF QuotaInv, QuotaShapes
  <2>2. worker.call # "idle" => worker.q \in Quotas /\ QuotaOK(worker.obj)
    BY ObjectOK DEF QuotaInv, Copies, CopyOf
  <2>3. OrderSpecs \subseteq OrderObject /\ NoOrder \in OrderObject
    BY OrderFields
  <2>4. Pending \subseteq Review
    BY <2>3 DEF Pending, Review
  <2>5. /\ orders \in [Orders -> OrderObject] /\ orderCache \in [Orders -> OrderObject]
        /\ reviews \in [Orders -> {NoReview} \cup Review]
    BY <2>3, <2>4 DEF QuotaInv, OrderShapes
  <2>6. ASSUME NEW q \in Quotas, creations[q] # NoCreation
        PROVE  creations[q].spec \in QuotaSpecs /\ creations[q].listed \subseteq Quotas \X Nat
    BY <2>6 DEF QuotaInv, CreationShapes, Creation
  <2> QED
    BY <2>1, <2>2, <2>5, <2>6 DEF TypeOK, QuotaInv, QuotaShapes, OrderShapes, Tickets
<1> QED
  BY <1>1, QuotaInvariant, PTL

LEMMA ClusterAdded ==
    ASSUME QuotaInv, [Next]_vars, NEW q \in ClusterQuotas' \ ClusterQuotas
    PROVE  creations[q] # NoCreation /\ creations[q].spec.type = "Cluster"
<1>1. q \in Quotas /\ quotas'[q].exists /\ quotas'[q].spec.type = "Cluster"
      /\ ~(quotas[q].exists /\ quotas[q].spec.type = "Cluster")
  BY DEF ClusterQuotas
<1>2. quotas'[q] # quotas[q]
  BY <1>1
<1>3. PICK r \in Quotas : \E obj : Writes(r, obj)
  BY <1>2, StepWrites
<1>4. PICK obj : Writes(r, obj)
  BY <1>3
<1>5. /\ \A p \in Quotas \ {r} : quotas'[p] = quotas[p]
      /\ quotas'[r].exists = obj.exists /\ quotas'[r].spec = obj.spec
  BY <1>4, StoreAdvances DEF QuotaInv
<1>6. q = r
  BY <1>1, <1>2, <1>5
<1>7. ~Keeps(q, obj) /\ ~Ends(obj)
  BY <1>1, <1>5, <1>6 DEF Keeps, Ends
<1>8. Begins(q, obj)
  BY <1>4, <1>6, <1>7 DEF Writes
<1> QED
  BY <1>1, <1>5, <1>6, <1>8 DEF Begins

\* Whatever users edit, delete and create again and the controller writes back, two
\* quotas of scope Cluster come about in one way only: the later one was let pass on
\* a list that did not show the other (quota_webhook.go:304).
THEOREM ClusterRaced == Spec => OnlyStaleListsAdd
<1> DEFINE Raced ==
      \A q \in ClusterQuotas' \ ClusterQuotas : \A p \in ClusterQuotas \ {q} :
          creations[q] # NoCreation /\ <<p, quotas[p].uid>> \notin creations[q].listed
<1>1. ASSUME QuotaInv, [Next]_vars
      PROVE  Raced
  <2> SUFFICES ASSUME NEW q \in ClusterQuotas' \ ClusterQuotas, NEW p \in ClusterQuotas \ {q}
               PROVE  creations[q] # NoCreation
                      /\ <<p, quotas[p].uid>> \notin creations[q].listed
    OBVIOUS
  <2>1. creations[q] # NoCreation /\ creations[q].spec.type = "Cluster"
    BY <1>1, ClusterAdded
  <2>2. /\ q \in Quotas /\ p \in Quotas \ {q}
        /\ quotas[p].exists /\ quotas[p].spec.type = "Cluster"
    BY DEF ClusterQuotas
  <2>3. Harmless(creations[q], p, quotas[p])
    BY <1>1, <2>2 DEF QuotaInv, Requests
  <2> QED
    BY <2>1, <2>2, <2>3 DEF Harmless
<1>2. QuotaInv /\ [Next]_vars => [Raced]_vars
  BY <1>1
<1> QED
  BY <1>2, QuotaInvariant, PTL DEF Spec, OnlyStaleListsAdd

LEMMA LimitInt ==
    ASSUME QuotaInv, NEW q \in Quotas, quotas[q].spec.type \in {"Cluster", "NamespaceList"},
           NEW r \in DOMAIN quotas[q].spec.hard
    PROVE  quotas[q].spec.hard[r] \in Int
<1> DEFINE spec == quotas[q].spec
<1>1. spec \in QuotaSpecs
  <2>1. spec \in QuotaSpecs \cup {NoSpec}
    BY DEF QuotaInv, QuotaShapes, QuotaObject
  <2>2. NoSpec.type = ""
    BY DEF NoSpec
  <2> QED
    BY <2>1, <2>2
<1>2. spec.hard \in [DOMAIN spec.hard -> Int]
  BY <1>1, QuotaConstantsAssumption DEF IsLimits
<1> QED
  BY <1>2

LEMMA AllowedWithin ==
    ASSUME QuotaInv, NEW o \in Orders, Allow(o), reviews[o].verb = "create",
           quotaCache = quotas, orderCache = orders,
           NEW q \in Quotas, quotas[q].exists, "orders" \in DOMAIN quotas[q].spec.hard,
           quotas[q].spec.type \in {"Cluster", "NamespaceList"}, o \in InScope(quotas[q].spec)
    PROVE  Cardinality({p \in InScope(quotas[q].spec) : orders[p].exists \/ p = o})
              <= quotas[q].spec.hard["orders"]
<1> DEFINE spec    == quotas[q].spec
           request == Request(reviews[o].new)
           counted == {p \in InScope(spec) : orders[p].exists}
<1>1. spec.hard["orders"] \in Int
  BY LimitInt
<1>2. Applies(spec, o)
  BY DEF Applies, InScope
<1>3. ~Exceeded(Plus(WebhookUsage(spec), request), spec.hard)
  BY <1>2 DEF Allow, Admissible, Complies
<1>4. ~(Plus(WebhookUsage(spec), request)["orders"] > spec.hard["orders"])
  BY <1>3 DEF Exceeded
<1>5. Plus(WebhookUsage(spec), request)["orders"] = Cardinality(counted) + 1
  <2>1. WebhookUsage(spec)["orders"] = Cardinality(counted)
    BY DEF WebhookUsage, Amount, Resources, CountOrders
  <2>2. request["orders"] = 1
    BY DEF Request, Amount, Resources
  <2> HIDE DEF request, counted
  <2> QED
    BY <2>1, <2>2 DEF Plus, Resources
<1>6. IsFiniteSet(counted) /\ Cardinality(counted) \in Nat
  <2>1. counted \subseteq Orders
    BY DEF InScope
  <2> QED
    BY <2>1, QuotaConstantsAssumption, FS_Subset, FS_CardinalityType
<1>7. {p \in InScope(spec) : orders[p].exists \/ p = o} = counted \cup {o}
  OBVIOUS
<1>8. Cardinality(counted \cup {o}) \in Nat /\ Cardinality(counted \cup {o}) <= Cardinality(counted) + 1
  <2> HIDE DEF counted
  <2>1. /\ IsFiniteSet(counted \cup {o})
        /\ Cardinality(counted \cup {o}) =
              IF o \in counted THEN Cardinality(counted) ELSE Cardinality(counted) + 1
    BY <1>6, FS_AddElement
  <2> QED
    BY <1>6, <2>1
<1> HIDE DEF counted, spec, request
<1>9. Cardinality(counted \cup {o}) <= spec.hard["orders"]
  BY <1>1, <1>4, <1>5, <1>6, <1>8
<1> QED
  BY <1>7, <1>9 DEF spec

\* A limit on orders holds whenever admissions do not overlap: the rest of the
\* system, the controller's writes included, takes no part in it
\* (order_webhook.go:366).
THEOREM AdmissionSerial == Spec => SerialAdmission
<1> DEFINE Within ==
      \A o \in Orders :
          /\ reviews'[o].allowed /\ ~reviews[o].allowed /\ reviews[o].verb = "create"
          /\ quotaCache = quotas /\ orderCache = orders
          /\ \A p \in Orders : ~reviews[p].allowed
          => \A q \in Quotas :
                /\ quotas[q].exists /\ "orders" \in DOMAIN quotas[q].spec.hard
                /\ quotas[q].spec.type \in {"Cluster", "NamespaceList"}
                /\ o \in InScope(quotas[q].spec)
                => Cardinality({p \in InScope(quotas[q].spec) : orders[p].exists \/ p = o})
                      <= quotas[q].spec.hard["orders"]
<1>1. ASSUME QuotaInv, [Next]_vars
      PROVE  Within
  BY <1>1, ReviewsStep, AllowedWithin DEF QuotaInv
<1>2. QuotaInv /\ [Next]_vars => [Within]_vars
  BY <1>1
<1> QED
  BY <1>2, QuotaInvariant, PTL DEF Spec, SerialAdmission

------------------------------------------------------------------------------
(* Tickets: what orders promise, against what the webhook counts *)

LEMMA PromisedAfter ==
    ASSUME NEW spec, NEW os \in [Orders -> OrderSpecs \cup {NoOrder}],
           NEW o \in InScope(spec), NEW new \in OrderSpecs
    PROVE  /\ Promised(spec, os) \in Int
           /\ os[o].replicas \in Int /\ new.replicas \in Int
           /\ Promised(spec, [os EXCEPT ![o] = new])
                 = Promised(spec, os) - os[o].replicas + new.replicas
<1> DEFINE after == [os EXCEPT ![o] = new]
           f == [p \in Orders |-> os[p].replicas]
           g == [p \in Orders |-> after[p].replicas]
<1>1. o \in Orders /\ InScope(spec) \subseteq Orders /\ IsFiniteSet(InScope(spec))
  BY ScopeFinite
<1>2. \A x \in OrderSpecs \cup {NoOrder} : x.replicas \in Int
  BY OrderFields
<1>3. \A p \in Orders : f[p] \in Int /\ g[p] \in Int /\ (p # o => f[p] = g[p])
  BY <1>1, <1>2
<1>4. f[o] = os[o].replicas /\ g[o] = new.replicas
  BY <1>1
<1>5. Promised(spec, os) = SumFunctionOnSet(f, InScope(spec))
      /\ Promised(spec, after) = SumFunctionOnSet(g, InScope(spec))
  BY DEF Promised
<1> HIDE DEF f, g, after
<1>6. SumFunctionOnSet(f, InScope(spec)) \in Int
  BY <1>1, <1>3, SumInt
<1>7. SumFunctionOnSet(g, InScope(spec)) = SumFunctionOnSet(f, InScope(spec)) - f[o] + g[o]
  BY <1>1, <1>3, SumChanged
<1> QED
  BY <1>1, <1>3, <1>4, <1>5, <1>6, <1>7 DEF after

\* Once the order controller has caught up, the webhook counts what is promised.
LEMMA PromisedCounted ==
    ASSUME NEW spec, \A p \in Orders : TicketsOf(p) = orders[p].replicas
    PROVE  CountTickets(spec, tickets) = Promised(spec, orders)
<1> DEFINE f == [p \in Orders |-> SumFunctionOnSet(tickets[p], Cpus)]
           g == [p \in Orders |-> orders[p].replicas]
<1>1. \A p \in InScope(spec) : f[p] = g[p]
  BY ScopeFinite DEF TicketsOf
<1> HIDE DEF f, g
<1>2. SumFunctionOnSet(f, InScope(spec)) = SumFunctionOnSet(g, InScope(spec))
  BY <1>1, ScopeFinite, SumSame
<1> QED
  BY <1>2 DEF CountTickets, Promised, f, g

LEMMA CheckedTickets ==
    ASSUME NEW o \in Orders, NEW q \in Quotas, NEW amount \in Amounts,
           quotaCache = quotas, ticketCache = tickets, quotas[q].exists,
           quotas[q].spec.type \in {"Cluster", "NamespaceList"}, o \in InScope(quotas[q].spec),
           "tickets" \in DOMAIN quotas[q].spec.hard, Complies(o, amount)
    PROVE  ~(CountTickets(quotas[q].spec, tickets) + amount["tickets"]
                > quotas[q].spec.hard["tickets"])
<1> DEFINE spec == quotas[q].spec
<1>1. Applies(spec, o)
  BY DEF Applies, InScope
<1>2. ~Exceeded(Plus(WebhookUsage(spec), amount), spec.hard)
  BY <1>1 DEF Complies
<1>3. Plus(WebhookUsage(spec), amount)["tickets"] = CountTickets(spec, tickets) + amount["tickets"]
  <2>1. WebhookUsage(spec)["tickets"] = CountTickets(spec, tickets)
    BY DEF WebhookUsage, Amount, Resources
  <2> QED
    BY <2>1 DEF Plus, Resources
<1> QED
  BY <1>2, <1>3 DEF Exceeded

LEMMA RequestAmount ==
    ASSUME NEW x \in OrderSpecs \cup {NoOrder}
    PROVE  Request(x) \in Amounts /\ Request(x)["tickets"] = x.replicas
<1>1. x.replicas \in Int /\ x.cpu \in Int
  BY OrderFields
<1>2. x.cpu * x.replicas \in Int
  BY <1>1
<1> QED
  BY <1>1, <1>2 DEF Request, Amount, Amounts, Resources

LEMMA DeltaAmount ==
    ASSUME NEW review \in Pending
    PROVE  /\ Delta(review) \in Amounts
           /\ Delta(review)["tickets"] = review.new.replicas - review.old.replicas
<1>1. review.new \in OrderSpecs \cup {NoOrder} /\ review.old \in OrderSpecs \cup {NoOrder}
  BY DEF Pending
<1>2. /\ Request(review.new) \in Amounts /\ Request(review.new)["tickets"] = review.new.replicas
      /\ Request(review.old) \in Amounts /\ Request(review.old)["tickets"] = review.old.replicas
  BY <1>1, RequestAmount
<1> QED
  BY <1>2 DEF Delta, Amounts, Resources

LEMMA PromisedThen ==
    ASSUME OrderShapes, NEW spec, NEW o \in InScope(spec), NEW review \in Pending,
           orders[o] = review.old
    PROVE  /\ Promised(spec, orders) \in Int
           /\ review.old.replicas \in Int /\ review.new.replicas \in Int
           /\ Promised(spec, [orders EXCEPT ![o] = review.new])
                 = Promised(spec, orders) - review.old.replicas + review.new.replicas
<1> DEFINE os == orders
           new == review.new
<1>1. new \in OrderSpecs /\ os \in [Orders -> OrderSpecs \cup {NoOrder}]
  BY DEF Pending, OrderShapes
<1> HIDE DEF os, new
<1>2. /\ Promised(spec, os) \in Int /\ os[o].replicas \in Int /\ new.replicas \in Int
      /\ Promised(spec, [os EXCEPT ![o] = new]) = Promised(spec, os) - os[o].replicas + new.replicas
  BY <1>1, PromisedAfter
<1> QED
  BY <1>2 DEF os, new

LEMMA AllowedPromise ==
    ASSUME QuotaInv, NEW o \in Orders, Allow(o), orders[o] = reviews[o].old,
           quotaCache = quotas, ticketCache = tickets,
           \A p \in Orders : TicketsOf(p) = orders[p].replicas,
           NEW q \in Quotas, quotas[q].exists, "tickets" \in DOMAIN quotas[q].spec.hard,
           quotas[q].spec.type \in {"Cluster", "NamespaceList"}, o \in InScope(quotas[q].spec)
    PROVE  LET spec  == quotas[q].spec
               after == Promised(spec, [orders EXCEPT ![o] = reviews[o].new])
           IN  after <= spec.hard["tickets"] \/ after <= Promised(spec, orders)
<1> DEFINE spec   == quotas[q].spec
           review == reviews[o]
           before == Promised(spec, orders)
           after  == Promised(spec, [orders EXCEPT ![o] = review.new])
           limit  == spec.hard["tickets"]
<1>1. review \in Pending
  BY DEF Allow, QuotaInv, OrderShapes
<1>2. /\ before \in Int /\ review.old.replicas \in Int /\ review.new.replicas \in Int
      /\ after = before - review.old.replicas + review.new.replicas
  BY <1>1, PromisedThen DEF QuotaInv
<1>3. limit \in Int
  BY LimitInt
<1>4. ASSUME NEW amount \in Amounts, Complies(o, amount)
      PROVE  before + amount["tickets"] <= limit
  <2>1. CountTickets(spec, tickets) = before
    BY PromisedCounted
  <2>2. amount["tickets"] \in Int
    BY DEF Amounts, Resources
  <2>3. ~(CountTickets(spec, tickets) + amount["tickets"] > limit)
    BY <1>4, CheckedTickets
  <2> HIDE DEF before, limit
  <2> QED
    BY <1>2, <1>3, <2>1, <2>2, <2>3
<1>5. CASE review.verb = "create"
  <2>1. Complies(o, Request(review.new))
    BY <1>5 DEF Allow, Admissible
  <2>2. /\ Request(review.new) \in Amounts
        /\ Request(review.new)["tickets"] = review.new.replicas /\ review.old.replicas = 0
    <3>1. review.new \in OrderSpecs /\ review.old = NoOrder
      BY <1>1, <1>5 DEF Pending
    <3> QED
      BY <3>1, RequestAmount DEF NoOrder
  <2>3. before + review.new.replicas <= limit
    BY <1>4, <2>1, <2>2
  <2> HIDE DEF before, after, limit, review
  <2>4. after <= limit
    BY <1>2, <2>2, <2>3
  <2> QED
    BY <2>4 DEF after, limit, review
<1>6. CASE review.verb # "create"
  <2>1. Delta(review) \in Amounts
        /\ Delta(review)["tickets"] = review.new.replicas - review.old.replicas
    BY <1>1, DeltaAmount
  <2>2. CASE Delta(review)["tickets"] > 0
    <3>1. Complies(o, Delta(review))
      BY <1>6, <2>2 DEF Allow, Admissible, Resources
    <3>2. before + Delta(review)["tickets"] <= limit
      BY <1>4, <2>1, <3>1
    <3> HIDE DEF before, after, limit, review
    <3>3. after <= limit
      BY <1>2, <1>3, <2>1, <3>2
    <3> QED
      BY <3>3 DEF after, limit, review
  <2>3. CASE ~(Delta(review)["tickets"] > 0)
    <3> HIDE DEF before, after, review
    <3>1. after <= before
      BY <1>2, <2>1, <2>3
    <3> QED
      BY <3>1 DEF after, before, review
  <2> QED
    BY <2>2, <2>3
<1> QED
  BY <1>5, <1>6

\* What orders promise stays within a limit on tickets when admissions do not
\* overlap and the order controller keeps up, though an update is checked by its
\* difference alone (order_webhook.go:320).
THEOREM AdmissionSettled == Spec => SettledAdmission
<1> DEFINE Within ==
      \A o \in Orders :
          /\ reviews'[o].allowed /\ ~reviews[o].allowed /\ orders[o] = reviews[o].old
          /\ quotaCache = quotas /\ orderCache = orders /\ ticketCache = tickets
          /\ \A p \in Orders : ~reviews[p].allowed /\ TicketsOf(p) = orders[p].replicas
          => \A q \in Quotas :
                LET spec  == quotas[q].spec
                    after == Promised(spec, [orders EXCEPT ![o] = reviews[o].new])
                IN  /\ quotas[q].exists /\ "tickets" \in DOMAIN spec.hard
                    /\ spec.type \in {"Cluster", "NamespaceList"} /\ o \in InScope(spec)
                    => after <= spec.hard["tickets"] \/ after <= Promised(spec, orders)
<1>1. ASSUME QuotaInv, [Next]_vars
      PROVE  Within
  BY <1>1, ReviewsStep, AllowedPromise DEF QuotaInv
<1>2. QuotaInv /\ [Next]_vars => [Within]_vars
  BY <1>1
<1> QED
  BY <1>2, QuotaInvariant, PTL DEF Spec, SettledAdmission
====
