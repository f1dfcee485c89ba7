----------------------------- MODULE TicketSystem -----------------------------
(***************************************************************************)
(* The ticket side of korder as one system: the ticket controller, the pod *)
(* webhooks and the cluster around them, sharing the API server and one    *)
(* informer cache, in a manager process that may restart at any time.      *)
(***************************************************************************)
EXTENDS TicketController, PodWebhook

vars == <<apiVars, controllerVars, podVars>>

TypeOK == ApiTypeOK /\ ControllerTypeOK /\ PodTypeOK

Init == ApiInit /\ ControllerInit /\ PodInit

(***************************************************************************)
(* The manager process ends and starts again: the reconciliation and the   *)
(* webhook calls it was running are lost, its caches are listed anew, and  *)
(* every ticket is enqueued.                                               *)
(***************************************************************************)
Restart ==
    /\ Fault
    /\ ticketCache' = tickets
    /\ guardianCache' = guardians
    /\ worker' = Resting
    /\ queue' = {t \in Tickets : tickets[t].exists}
    /\ admissions' = [p \in Pods |-> NoAdmission]
    /\ UNCHANGED <<tickets, guardians, pastWindow, pods>>

Next ==
    \/ \E t \in Tickets : EnvTicketStep(t) /\ UNCHANGED <<controllerVars, podVars>>
    \/ ControllerStep /\ UNCHANGED podVars
    \/ \E p \in Pods : PodStep(p) /\ UNCHANGED controllerVars
    \/ Restart

Spec == Init /\ [][Next]_vars

(***************************************************************************)
(* Watch events arrive, the workqueue is served in turn (a ticket that is  *)
(* enqueued again and again is taken again and again), the periodic resync *)
(* happens, a reconciliation and a webhook call run to their end, and so   *)
(* do scheduler, kubelet and garbage collector.  Users, faults and the     *)
(* clock owe nothing.                                                      *)
(***************************************************************************)
Fairness ==
    /\ \A t \in Tickets :
        /\ WF_vars(DeliverTicket(t) /\ UNCHANGED podVars)
        /\ WF_vars(DeliverGuardian(t) /\ UNCHANGED podVars)
        /\ WF_vars(Resync(t) /\ UNCHANGED podVars)
        /\ SF_vars(ReconcileStart(t) /\ UNCHANGED podVars)
        /\ WF_vars((\E n \in Nodes : ScheduleGuardian(t, n))
                     /\ UNCHANGED <<controllerVars, podVars>>)
        /\ WF_vars(StartGuardian(t) /\ UNCHANGED <<controllerVars, podVars>>)
        /\ WF_vars(FinishGuardian(t) /\ UNCHANGED <<controllerVars, podVars>>)
        /\ WF_vars(CollectGuardian(t) /\ UNCHANGED <<controllerVars, podVars>>)
    /\ WF_vars(WorkerStep /\ UNCHANGED podVars)
    /\ \A p \in Pods :
        WF_vars((Bind(p) \/ BindFails(p) \/ Decide(p)) /\ UNCHANGED controllerVars)

FairSpec == Spec /\ Fairness

------------------------------------------------------------------------------
(* Safety *)

GuardianLive(t) == GuardianExists(guardians[t]) /\ ~guardians[t].terminating

GuardianOf(t) == GuardianLive(t) /\ guardians[t].owner = tickets[t].uid

\* A copy of t that was read at some moment: never ahead of the API server, and
\* equal to its object while that still has the same resourceVersion.
ReadCopy(t, copy) ==
    /\ copy.rv <= tickets[t].rv
    /\ copy.rv = tickets[t].rv => copy = tickets[t]

\* A ticket that names a pod is past the phases in which it could be claimed.
Settled(obj) == obj.claimedPod # "nil" => obj.phase \in {"Claimed", "Expired"}

\* The worker's copy: the handler has edited it, but neither its identity nor
\* the claim, and a handler that makes the ticket ready works on an unclaimed one.
WorkerCopy ==
    worker.call # "idle" =>
        /\ Obj.exists /\ Settled(Obj)
        /\ Obj.rv <= tickets[Wt].rv
        /\ Obj.rv = tickets[Wt].rv =>
              /\ tickets[Wt].exists
              /\ Obj.uid = tickets[Wt].uid
              /\ Obj.claimedPod = tickets[Wt].claimedPod
        /\ worker.call \in {"createGuardian", "checkGuardian"} =>
              Obj.phase \in {"", "Pending", "Ready"}

\* The copy a webhook call is about to claim is one it has read as Ready.
AdmissionCopy ==
    \A p \in Pods : admissions[p].step = "bind" =>
        /\ ReadCopy(admissions[p].t, admissions[p].copy)
        /\ admissions[p].copy.phase = "Ready"
        /\ Settled(admissions[p].copy)

\* The resourceVersion of every copy in the process, in the cache or in a
\* handler, vouches for what the optimistic updates rely on.  A handler that
\* edits a cached object in place, or a cache that goes back, breaks it.
Coherence ==
    /\ \A t \in Tickets :
        /\ Settled(tickets[t]) /\ Settled(ticketCache[t])
        /\ ReadCopy(t, ticketCache[t])
    /\ WorkerCopy
    /\ AdmissionCopy

\* No ticket is handed to two pods: bindPodToTicket never succeeds for two
\* admitted pods on the same ticket object.
ExclusiveBinding ==
    \A p, q \in Pods : p # q => pods[p].bound \cap pods[q].bound = {}

\* A pod whose binding succeeded is the one its ticket names for as long as that
\* ticket object exists, whatever stale copy the controller writes.
BindRecorded ==
    \A p \in Pods : \A t \in Tickets :
        /\ <<t, tickets[t].uid>> \in pods[p].bound
        /\ tickets[t].exists
        => tickets[t].claimedPod = p /\ tickets[t].phase \in {"Claimed", "Expired"}

\* Without faults no claim is wasted: the pod that a ticket names exists, or its
\* admission is still being decided.  That the validating webhook accepts what
\* the mutating one has done takes a request that is well formed and not by name.
ClaimHasPod ==
    \A p \in Pods \ (ByName \cup Malformed) : \A t \in Tickets :
        faults = 0 /\ tickets[t].exists /\ tickets[t].claimedPod = p
        => pods[p].exists \/ admissions[p].step = "decide"

\* Capacity is never held twice: once the controller has recorded that the
\* guardian of a claimed ticket is deleted, none of that ticket is left running,
\* and no reconciliation from a stale copy brings one back.
ClaimedReleased ==
    \A t \in Tickets :
        tickets[t].exists /\ tickets[t].phase = "Claimed" /\ ~tickets[t].guardianRef
        => ~GuardianOf(t)

\* A guardian that a Ready ticket refers to is its own: names are reused by
\* later tickets, guardians are not.
GuardianIsOwn ==
    \A t \in Tickets :
        tickets[t].exists /\ tickets[t].phase = "Ready" /\ GuardianLive(t)
            => guardians[t].owner = tickets[t].uid

SameTicket(t) == tickets[t].exists /\ tickets'[t].exists /\ tickets'[t].uid = tickets[t].uid

\* A claim is for life: whatever the controller, the webhook and users do, a
\* ticket that has been claimed keeps its pod and never becomes claimable again.
ClaimForLife ==
    \A t \in Tickets :
        SameTicket(t) /\ tickets[t].claimedPod # "nil"
        => /\ tickets'[t].claimedPod = tickets[t].claimedPod
           /\ tickets'[t].phase \in {"Claimed", "Expired"}

ClaimIrrevocable == [][ClaimForLife]_vars

\* What the order side relies on (OrderController!MoveTicket): from one step to the
\* next the phase of a ticket makes one of the PhaseMoves, whichever stale copies
\* the webhook and the worker write.
PhaseContract ==
    [][\A t \in Tickets :
          SameTicket(t) => \/ tickets'[t].phase = tickets[t].phase
                           \/ <<tickets[t].phase, tickets'[t].phase>> \in PhaseMoves]_vars

\* And (OrderController!TicketDeleted): a ticket that has a phase has the
\* finalizer of the controller, so its deletion waits for the guardian's.
PhaseNeedsFinalizer ==
    \A t \in Tickets : tickets[t].exists /\ tickets[t].phase # "" => tickets[t].finalizer

\* And that the deletion of such a ticket is marked before the ticket goes, and the
\* mark never taken back: the worker removes the finalizer, and writes its status,
\* from copies that may be older than the mark.
DeletionContract ==
    [][\A t \in Tickets :
          /\ tickets[t].exists /\ tickets[t].phase # "" /\ ~SameTicket(t) => tickets[t].deleting
          /\ SameTicket(t) /\ tickets[t].deleting => tickets'[t].deleting]_vars

\* Nobody is about to look at t, and there is no news of it.
AtRest(t) ==
    /\ t \notin queue /\ ~(worker.call # "idle" /\ worker.t = t)
    /\ ticketCache[t] = tickets[t]

\* No wake-up is lost: when t rests its handlers have done what there was to do.
\* A change that comes while a handler works on an older copy, and is not enqueued
\* or enqueued for that copy, would be forgotten until the next resync.
NothingForgotten ==
    \A t \in Tickets :
        tickets[t].exists /\ AtRest(t) =>
            /\ tickets[t].finalizer /\ ~tickets[t].deleting /\ tickets[t].phase # ""
            /\ tickets[t].phase = "Claimed" => ~GuardianOf(t)
            /\ tickets[t].phase = "Expired" => CleanupPolicy = "Retain"

------------------------------------------------------------------------------
(* Liveness, for FairSpec *)

\* A new ticket gets its guardian and becomes claimable, or its life ends first.
Activated ==
    \A t \in Tickets :
        tickets[t].exists /\ tickets[t].phase \in {"", "Pending"}
        ~> \/ ~tickets[t].exists \/ tickets[t].deleting
           \/ tickets[t].phase \in {"Ready", "Claimed", "Expired"}

\* The capacity held for a claimed ticket is given back.
ClaimReturnsCapacity ==
    \A t \in Tickets :
        tickets[t].exists /\ tickets[t].phase = "Claimed" ~> ~GuardianExists(guardians[t])

\* The deletion of a ticket ends, and gives the capacity back, even when the
\* guardian was created behind the back of the copy that is cleaned up.
DeletionReturnsCapacity ==
    \A t \in Tickets :
        tickets[t].exists /\ tickets[t].deleting
        ~> ~tickets[t].exists /\ ~GuardianExists(guardians[t])

\* A ticket whose window is over expires, though nothing is scheduled for that
\* moment, and its guardian goes.
ExpiryReturnsCapacity ==
    \A t \in Tickets :
        tickets[t].exists /\ <<t, tickets[t].uid>> \in pastWindow
        ~> \/ ~tickets[t].exists
           \/ tickets[t].phase = "Expired" /\ ~GuardianExists(guardians[t])

------------------------------------------------------------------------------
(* What comments and documents say of the program, and the code does not do *)

\* pod_webhook.go:52, "TicketClaimedAnnotation is set when a pod claims a
\* ticket": the ticket that an admitted pod carries as claimed is claimed for it.
AnnotationMeansClaimed ==
    \A p \in Pods : \A t \in Tickets :
        pods[p].exists /\ pods[p].claimed = t /\ tickets[t].exists
        => tickets[t].claimedPod = p

\* README.md:372, "Automatic cleanup of expired tickets": under the policy Delete
\* an expired ticket is deleted in the end.
ExpiredDeleted ==
    \A t \in Tickets :
        tickets[t].exists /\ tickets[t].phase = "Expired" ~> ~tickets[t].exists

------------------------------------------------------------------------------
(* The contract that the system implements *)

StageOf(obj) ==
    CASE ~obj.exists -> "absent"
      [] obj.exists /\ obj.phase \in {"", "Pending"} -> "new"
      [] obj.exists /\ obj.phase = "Ready" -> "ready"
      [] obj.exists /\ obj.phase = "Claimed" -> "claimed"
      [] OTHER -> "lapsed"

Contract == INSTANCE Reservation WITH
    stage  <- [t \in Tickets |-> StageOf(tickets[t])],
    holder <- [t \in Tickets |-> tickets[t].claimedPod]

ReservationContract == Contract!Spec
==============================================================================
