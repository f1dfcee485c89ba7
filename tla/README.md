# Formal model of korder

korder reserves capacity on Kubernetes nodes: an *Order* keeps a number of
*Tickets*, a ticket holds capacity with a low-priority *guardian* pod, a business
pod *claims* a ready ticket and takes its guardian's place, and *Quotas* limit
orders and tickets.  This directory holds TLA+ modules of the controllers and
webhooks, TLC instances of them, and TLAPS proofs about each of them.

## 1. The system

All components run in one manager process (`cmd/main.go`).  They share no memory
but one informer cache: they read from it, and write to the API server.  What
connects them is therefore objects, their `resourceVersion`s, and watch events.

| Component | State it keeps | Operations | What makes it correct |
|---|---|---|---|
| Ticket controller (`internal/controller/ticket_controller.go`) | Ticket status, finalizer, guardian pod | handlers for new/pending, ready, claimed, expired and deleted tickets | a claim is never undone; capacity is given back; every ticket becomes usable |
| Pod webhook (`internal/webhook/v1/pod_webhook.go`) | ticket status, pod's node and annotations | find, bind, validate | a ticket goes to one pod; the pod's annotations are true |
| Order controller (`internal/controller/order_controller.go`) | Tickets of an order, order status, finalizer | create missing tickets, delete excess ones, clean up, report | number of tickets = replicas; nothing left behind |
| Order, ticket and quota webhooks (`internal/webhook/v1alpha1/`) | none | defaults, validation, immutability, quota admission | what is let pass can be carried out, and written back by the controllers; usage stays within quotas |
| Quota controller (`internal/controller/quota_controller.go`) | Quota status, finalizer | usage, limits, conditions | status shows the real usage |
| Cron scheduler (`internal/scheduler/cron.go`) | none | validation and matching of schedules | a validated schedule is due at no moment that cron format does not name; nothing calls it yet |
| Metrics, API types, flags and certificates | counters, generated code | – | – |

Who calls whom: users and the order controller create tickets; the ticket
controller creates and deletes guardian pods; admission of a business pod runs
the pod webhook, which writes the ticket's status *while the request is still
undecided*; watch events of tickets reach the ticket and the order controller,
those of guardians the ticket controller, those of orders the order controller;
nothing but the quotas themselves and a timer reaches the quota controller.

The hard part is the same everywhere: a handler reads a cached object or list,
does several API calls that may fail one by one, and everything may have changed
in between.  `PROJECT.json` lists these hazards line by line.

## 2. Modules

    TicketPhases       the phases of a ticket and the moves between them
    KorderApi          API server objects, caches, cluster around the tickets
      TicketController   EXTENDS KorderApi
      PodWebhook         EXTENDS KorderApi
        TicketSystem       both, restarts, fairness, properties; EXTENDS TicketPhases
          -> Reservation     the abstract contract, as a refinement
          MCTicketSystem     TLC instances
          TicketSystemProofs <- TicketClaimProofs <- ReservationProofs <- GuardianProofs
    OrderController    the order controller; EXTENDS TicketPhases
      MCOrderController, OrderProofs
    QuotaSystem        quota admission and the quota controller
      MCQuotaSystem, QuotaProofs <- SumLemmas (finite sums)
    Cron               the matcher of schedules
      Admission          defaults, validation and immutability of the three webhooks
        MCAdmission, AdmissionProofs

The ticket and the order side are composed by what one assumes and the other
guarantees.  `OrderController` lets the phase of a ticket make any move in
`TicketPhases!PhaseMoves` at any time, and lets a deleted ticket with a phase linger
until its finalizer goes.  `TicketSystem` has to keep to that: `PhaseContract` (it
makes no other move), `PhaseNeedsFinalizer` (a ticket with a phase has the
finalizer) and `DeletionContract` (such a ticket goes only after it has been marked
deleted, and the mark is never taken back: `TicketDeleted`, then `FinishTicket`) are
checked and proved.  The product of both state spaces is never built.

How they correspond to the code:

* A controller's `Reconcile` is one step from taking an object of the workqueue up
  to the first API call (`ReconcilePending`, `ReconcileMissing`, ...), and one
  step for every API call after that (`CreateGuardian`, `UpdateStatus`,
  `RemoveFinalizer`, ...).  `worker` holds the next call and the handler's own
  copy of the object, as it has edited it so far.  Users, webhooks and watch
  events interleave between any two of these steps.
* `Update` and `Status().Update` succeed when the copy's `resourceVersion` is still
  the current one, and otherwise return a conflict; a write that changes nothing
  gives no new version.  `Create` fails when the name is in use, `Delete` carries no
  precondition.  Deleting an object with finalizers only marks it.  These rules
  and those of scheduler, kubelet and garbage collector are not in the repository;
  they are marked external in the map.
* A cache holds, for every object (`KorderApi`) or every kind (`OrderController`,
  `QuotaSystem`), some earlier version.  A watch event replaces it by the newest one
  and enqueues what `SetupWithManager` says.  That an event arrives later than a
  newer version exists appears as a later, single event; that the cache steps
  through versions in between while yet newer ones exist is abstracted away.
* The worker is one goroutine per controller (`MaxConcurrentReconciles` is not
  set), the manager is one process, and a workqueue is a set.  The 5 minutes of
  `RequeueAfter` are "some time later".
* `KorderApi!WindowElapses` is the clock: it may end any ticket's window once the
  expiration time has been set.
* A pod's request annotation is the set `Wants` of the tickets it matches, `ByName`
  marks the form `name:`, which fails unless its ticket is available.
* In `PodWebhook` an admission is in steps: *find* (`SubmitCreate`, `SubmitUpdate`,
  `SubmitDryRun`), *bind* (`Bind`, `BindFails`) and *decide* (`Decide`), and the API server
  may give up in the middle (`TimeOut`).  `pods[p].bound` is a history variable
  for the properties.
* A pod in `Malformed` has a selector with a part that is not `key=value`: the search
  passes over that part, and the validating webhook rejects the pod once it is bound.
* In `OrderController`, names are indices.  `status` and `conditions` are written as
  the code does, sticky conditions included.  `twin` is a history variable of a
  ticket: it was created under a name that the cached list still shows as taken, so
  the controller may take it for the ticket it knows.
* In `QuotaSystem`, a user's request for an order, or for a new quota, is allowed or
  denied from the cache and stored in a later step (`Allow`, `Persist`; `AllowQuota`,
  `PersistQuota`).  `creations` holds the requests for quotas that have been let pass,
  with the list they were judged by; it is a history variable but for the spec.  `uid`
  tells the lives of a quota's name apart.  Orders and tickets are counted only.
* `Admission` follows one object from its creation to its deletion.  A spec is a record
  of what the webhooks look at; a string that is parsed is one of "malformed", "positive"
  and so on; a quantity is an integer number of tenths, so that `Quantity.Value()`, which
  rounds up to whole units, is modelled by what it does, and `OrderRequest` multiplies
  modulo the width of an int64.  `IssueTicket` is what connects orders and tickets.
  `owner` is the template's label with the order's UID, which `OrderDefault` writes: empty
  at the creation (`OrderCreated`), since the API server gives the UID only after the
  webhooks, and the UID from the next update on (`OrderUpdated`).  `FinalizeOrder` is the
  controller's write that adds the finalizer, as a rule the first such update.
* `Cron` takes a schedule apart in the order in which the code looks for `-`, `/` and `,`.
  `Matches` and `IsTimeToRun` are the code; `Meaning` and `Names` say independently of it
  which moments cron format names, where a day and a weekday that are both restricted
  are alternatives.

Operators that a comment calls *mutant* are not part of the specification.  Each
is a plausible bug in the definition that follows it; substituting it must violate
the property that `PROJECT.json` names.

## 3. Runs

Deadlock is checked in `admission` only.  In the other runs users and faults are
bounded, and a cluster in which they have done what the bounds allow and every object
is settled really stops.

Ticket side (`MCTicketSystem`):

| Run | Instance | Shows |
|---|---|---|
| `race` | one ticket, two pods, node chosen by the scheduler | `TypeOK`, `Coherence`, `ExclusiveBinding`, `BindRecorded`, `ClaimIrrevocable`, `PhaseNeedsFinalizer`: however claims, stale copies and status updates interleave, one pod gets the ticket and keeps it, and without faults no claim is wasted on a pod that is never admitted (`ClaimHasPod`) |
| `crash` | one pod, one fault of any kind, policy Delete with TTL 0, fairness | the system implements `Reservation` and keeps to `PhaseContract` and `DeletionContract`; a guardian never comes back behind a claim (`ClaimedReleased`); no wake-up is lost: a ticket that is neither queued nor handled, and of which there is no news, needs nothing more (`NothingForgotten`); claim, deletion and end of window give the capacity back |
| `reuse` | one ticket name with two lives, request by name, policy Delete with TTL 0, no faults, fairness | `GuardianIsOwn`: a guardian of the first life never counts for the second; `Activated`: each life becomes claimable all the same |
| `claim_conflict` | two pods | violates `AnnotationMeansClaimed` |
| `ttl` | policy Delete with a TTL, fairness | violates `ExpiredDeleted` |
| `lost_guardian` | one fault, fairness | violates `Activated` |

Order side (`MCOrderController`), quotas (`MCQuotaSystem`) and admission (`MCAdmission`):

| Run | Instance | Shows |
|---|---|---|
| `order_replenish` | up to 2 replicas, policy Never, 2 changes (scale, pause, a ticket moves or expires; none is deleted), 1 fault | `TypeOK`; `NeverTooMany`: never more active tickets than any version of the order asked for, although the list is stale; `ReplicasReached`: all of them in the end |
| `order_cleanup` | policies Always and OnClaim, up to 1 replica, 2 changes of any kind, two lives of the order's name, from the beginning or from an order whose ticket is claimed | `ClaimableKept`: OnClaim takes no claimable ticket away, twins excepted; `NothingForgotten`: only a paused order rests, and its status counts its tickets; `DeletionCascades`, `StatusSettles` |
| `order_collision` | 2 replicas, one ticket is deleted | violates `ReplicasReached` |
| `quota` | two quotas, five specs, two orders in two namespaces, 3 requests, 1 fault | `TypeOK`; `SerialAdmission` (orders) and `SettledAdmission` (tickets): an admission on current lists keeps the limits; `OnlyStaleListsAdd`: a second Cluster quota gets in only by a request that was let pass on a list without the first, never by an edit, a controller's write or a reused name; `StatusSettles` |
| `quota_race` | one quota that is there first, two orders | violates `QuotaRespected` |
| `admission` | specs that differ from a plain one in one group of fields, quantities -0.5 to 4 units, a largest integer of 127, all kinds of schedules | `TypeOK`; `WritesAdmitted`: the controllers' own writes always pass, and change no spec but for an order's UID label; `TicketsFollow`: a validated order gets its tickets; `OrderCoversTickets`: they cost no more than the order was charged for; `SchedulesMean`: an accepted schedule is due only when cron format says so, and misses no such moment unless it restricts both day and weekday or steps through days or months |

### Bounds

Every hazard here needs one object with at most two lives, two actors that want it
and one disturbance between two steps; the runs have these.  The bounds by name:

* `Mortal` (tickets that are deleted or lapse), `MaxUid` (lives of a name),
  `MaxFaults` (evictions, failed pods, failing or lost calls, timeouts, dry runs,
  edits and restarts, one budget for all), `MaxChanges` (what users and other
  components do to an order or ask of a quota), `MaxReplicas`.
* `resourceVersion`s are not bounded: writes that change nothing give no new
  one, so finitely many changes lead to finitely many versions.
* `PinnedNode`: with `AllPinned` the guardian's node is known from the beginning,
  with `NotPinned` a ticket may be ready with an empty node name, as in the code.
* `MCOrderController!Settled`: an order with a claimed ticket is several changes away
  from the beginning; to start from it as well keeps `MaxChanges` at 2.
* `MCAdmission`: the webhooks judge groups of fields one by one, so no two groups need
  to vary together; a schedule varies in one field, or in two with the others fixed.
  `MaxInt` 127 lets 40 replicas of 4 units overflow.  The proofs have none of these bounds.
* `OrderController!Index` is the highest index the code can reach within the bounds;
  `TypeOK` checks that it is not left.

### Fairness

`FairSpec` assumes that watch events arrive and informers resync
(controller-runtime's defaults), that a workqueue serves an object which is in it
again and again (strong fairness: it is a queue, and one worker empties it), that a
running handler or webhook call goes on (the client has timeouts), and that
scheduler, kubelet and garbage collector work.  For orders and quotas, users and the
clock are bounded, so "in the end" means after the last of their changes.  Nothing
is assumed of users, faults, the clock, or of a successful call: a failing call is a
fault and counts against the bound, a conflict is retried only because the code or
the next event does so.

## 4. Disagreements that the violation runs show

* `claim_conflict`: `bindPodToTicket` sets node and annotation of the pod before the
  claim; when the claim fails with a conflict, `Default` swallows the error and the
  pod is admitted as if it owned the ticket (`pod_webhook.go:443`, `:381`).
* `ttl`: the deletion time is computed from *now* at every reconciliation, so an expired
  ticket with a TTL, which is the default, is never deleted (`ticket_controller.go:254`).
* `lost_guardian`: once the guardian exists but the status does not refer to it (lost
  reply, failed status update, restart), the ticket stays Pending (`ticket_controller.go:165`).
* `order_collision`: names come from the length of the list; after a deletion in the
  middle `Create` hits an existing name for ever (`order_controller.go:160`).
* `quota_race`: orders are admitted against cached counts, nothing is reserved
  (`order_webhook.go:366`).

Seen in the models and not made a run of their own: a dry run claims a ticket although
the webhook declares `sideEffects=None` (`pod_webhook.go:335`); a pod that is rejected after the
claim, as every request by name whose cache is already up to date is, or one whose selector does
not parse or match, leaves the ticket claimed;
a ticket is Ready before its guardian runs, and may be claimed with an empty node name
(`pod_webhook.go:282`); an update of a bound pod may claim a second ticket (`:503`); a claimed
ticket under policy Retain keeps the guardian's name in its status after expiry
(`ticket_controller.go:274`); the start time of a window is documented as the activation time,
which `handlePendingTicket` ignores; finalizers go while guardians or tickets still terminate; a scaled
down order deletes another ticket while the first still terminates, since it counts as
active; under OnClaim a claimed ticket is never replaced before it expires, contrary to
`README.md:358`; a True condition of an order or a quota is never taken back; reserved
resources are checked for each order alone, updates by their difference only; the
quota webhooks ignore selectors and time windows; two Cluster quotas, each let pass on a list
that lacks the other, are both stored, contrary to `docs/quota.yaml:8` (`quota_webhook.go:304`);
the UID label of an order's template is empty until the next update, so the controller's write of
a finalizer changes the spec too (`order_webhook.go:101`).

Outside the models: their pods have names.  For a pod with a `generateName` the webhook runs
before the API server makes the name, so the annotation that says which pod has claimed the
ticket holds an empty name (`pod_webhook.go:439`).

Found while the properties were stated: a ticket that was created under the name of one which a
stale list still shows as claimed is deleted in its place, since `Delete` has no precondition on the
uid (`order_controller.go:203`), which `ClaimableKept` excepts; after a deletion, a list that shows
neither the deleted ticket nor its successor lets one ticket too many be created
(`order_controller.go:160`), which is why `order_replenish` deletes none; an update of an order is
not validated, so its template may be one that the ticket webhook refuses for ever
(`order_webhook.go:178`), as may a nonpositive duration or a negative quantity of a new order,
which `TicketsFollow` excepts; tickets of a template without resources get default requests that
the order was not charged for; the node of a ticket can be changed by unsetting it first
(`ticket_webhook.go:292`); a step of a schedule counts from zero also in days and months
(`cron.go:110`), and a schedule with both a day and a weekday is due only when both match, where
cron format (`quota_types.go:62`) is content with either (`cron.go:72`); the quota
webhook does not validate schedules at all.

## 5. Proofs

The theorems hold for any sets of tickets, pods, nodes, quotas, orders and specs, and any
bounds, under the named assumptions on constants only (`...Assumption` in the modules that
declare them), which TLC evaluates in every run.

Ticket side, each module on the previous one:

* `TicketSystemProofs!Typing`: `Spec => []TypeOK`.
* `TicketClaimProofs!CoherenceInvariant`: `Spec => []Coherence`.  `ExclusiveBinding` is not
  inductive: one has to know what a copy whose `resourceVersion` is still current says about the
  object.  `Coherence` says it of each of the three kinds of copies (cache, worker,
  webhook call).  Its proof has two halves: every step only *advances* the objects
  (`NextAdvances`: a changed object has a new version), so a copy that was true remains
  true (`CopyKept`); and every copy that is made is made of a coherent one (`CacheStep`,
  `WorkerStepCoherent`, `AdmissionStepCoherent`).  From it follow `ClaimSafety`
  (`Spec => ClaimIrrevocable`, at the update that writes), `BindingExclusive` and
  `BindingRecorded`; the latter need the inductive `BindingsHeld /\ BindingsDisjoint`, which
  relates the history of successful claims to the versions of the tickets.
* `ReservationProofs`: `Finalized` (`PhaseNeedsFinalizer`), `PhasesContracted`
  (`Spec => PhaseContract`), `DeletionsMarked` (`Spec => DeletionContract`) and `Implements`
  (`Spec => ReservationContract`, the refinement).  The invariant `LifeInv` adds to
  `Coherence` that a free name carries nothing (`Vacant`) and what the worker, between two
  calls, may be about to write, with which deletion mark (`WorkerPlan`).  Then every write
  is a transition of the phase that a *current* copy has, hence of the ticket's own, and
  every step of the system is one of the contract or a stutter.
* `GuardianProofs`: `GuardianOwned` (`GuardianIsOwn`) and `CapacityReleased`
  (`ClaimedReleased`).  `GuardianInv` orders the lives of a name: the owner of a guardian is
  no newer than the worker's copy, that no newer than the cache, that no newer than the ticket
  (`Uids`); says which guardian a status may refer to (`Refs`); and that once the
  guardian of a claimed ticket is recorded as deleted, the ticket and the cache are
  claimed or past that, and the worker is not about to create another one (`Releases`).
  `ClaimKeepsPod` (`ClaimHasPod`, without faults) rests on `ClaimInv`: a claim was made by
  the call that is still to be decided or has admitted its pod, and while it is, the
  cache in which the validating webhook looks is never behind the copy the claim was
  made with.  `WakeUpsKept` (`NothingForgotten`) rests on `RestInv`: a ticket that is not in the
  queue is being handled from the cached copy, or has been handled as that copy
  demands, or has changed since in a way of which the cache still has to learn; the
  event that brings the change to the cache puts the ticket into the queue.

Order side, `OrderProofs`:

* `Typing`: also that the names in use stay within `Index`, which needs that the list
  from which a name is made has at most as many tickets as the cluster had.
* `TicketsBounded`: `Spec => []NeverTooMany` if nobody deletes tickets and no policy
  replaces them (`KeepsTickets`).  `Limit`, the largest number of replicas plus the expired
  tickets, bounds all names: a stale list is shorter, so the name made from it is taken.
* `ClaimableSpared`: `Spec => ClaimableKept`.  `HonestInv` says that a ticket which the cached
  list, or the worker's copy of it, shows as claimed is claimed or past that in the
  cluster, gone, or a twin.
* `WakeUpsKept`: `Spec => []NothingForgotten`.  The only reconciliation that does not end in
  another one is that of a paused order (`order_controller.go:92`).  `AwakeInv` says that an
  order which rests, and of which there is no news, is a paused one whose status counts the
  cached list, and that the report under way for a paused order counts that list, or the
  order is queued again.

Webhooks:

* `QuotaProofs`: `QuotaTypeCorrect` (`Spec => []TypeOK`), `ClusterRaced` (`Spec =>
  OnlyStaleListsAdd`), `AdmissionSerial` (`Spec => SerialAdmission`) and `AdmissionSettled`
  (`Spec => SettledAdmission`), from `QuotaInv`: a cached quota or a worker's copy that has the
  current version has the current spec, and is of the current life of its name, so that a write
  neither changes the scope of a quota nor brings an old life back; and where a request for a
  Cluster quota has been let pass, no quota on the list it was judged by is, in that life, a
  Cluster quota.  Tickets and cpus are counted by a fold over a finite set.  `SumLemmas` shows
  what such a sum is worth (`SumSplit`: any element may be taken out first) by the smallest
  subset for which it fails, since the induction theorems of the library take an operator.
  Needed of the constants: cpus are finitely many natural numbers, limits are a function from
  resources to numbers.
* `AdmissionProofs`: `Typing`, `Admitted` (`WritesAdmitted`: each stored object passes its own
  validation again, and the defaults leave it alone but for the label of an order), `Followed`
  (`TicketsFollow`), `Covered` (`OrderCoversTickets`, with the arithmetic of rounding and of
  the int64) and `Scheduled` (`SchedulesMean`, for every schedule and moment: due only when
  named by cron format, and conversely unless day and weekday are both restricted).

Every safety property of a passing run is thus proved.  Only model-checked: all liveness
(`Activated`, `ReplicasReached` and the others that need fairness), since TLAPS does not do
`ENABLED`; what `NothingForgotten` says is the part of it that is an invariant, that the
controllers are awake while there is something to do.  That a woken controller gets it done is
left to TLC, and the disagreements of section 4 are TLC's counterexamples.

## 6. Not modelled

* Metrics, flags, certificates, health probes, registration and generated code: they change
  no object and nothing reads them back.
* Of the cron scheduler: `NextRunTime`, which returns the time in a minute whatever the
  schedule says (`cron.go:100`), `ParseSchedule` and the wrappers; nothing calls them.
* `ValidateDelete` of the webhooks, which only warns and is not registered.
* Several managers at once: leader election is off by default (`main.go`), and two
  replicas would run two workers and two caches.
* `QuotaReconciler.ValidateQuota` (no caller); `DaemonOrder` and `CronOrder`, which
  `quota_controller.go` lists but `api/v1alpha1` does not define.
* The fractional part of a time window's multiplier.
* Duplicate namespaces in a quota's list, which the code counts twice.

## 7. Plan

1. Done: ticket side, its contract and all its safety proofs; order controller with its
   proofs; quotas; defaults and validation; the cron matcher.
2. Left: more exact caches, which step through every version (today a cache jumps to the
   newest); several managers with leader election; a property about the conditions of an
   order, once the project says how they relate.
3. Left to prove: that `TicketSystem`, seen by the order controller, is a behaviour of the
   tickets that `OrderController` assumes, as one refinement instead of three contracts.
