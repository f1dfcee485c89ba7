--------------------------- MODULE TicketController ---------------------------
(***************************************************************************)
(* The TicketReconciler: a workqueue filled by watch events, and the one   *)
(* worker that takes a ticket from it, reads the ticket from the informer  *)
(* cache and runs the handler of its state.  Reconcile is one step up to   *)
(* its first API call, and every API call of a handler is a step of its    *)
(* own, so that users, webhooks and watch events interleave with it.       *)
(***************************************************************************)
EXTENDS KorderApi

CONSTANTS
    CleanupPolicy,  \* spec.lifecycle.cleanupPolicy
    TTLSeconds      \* spec.lifecycle.ttlSecondsAfterFinished; -1 when not set

ASSUME PolicyAssumption == CleanupPolicy \in {"Delete", "Retain"}
ASSUME TTLAssumption    == TTLSeconds \in Nat \cup {-1}

VARIABLES
    queue,  \* tickets waiting in the workqueue, now or after a delay
    worker  \* the running reconciliation: its next API call and its copy

controllerVars == <<queue, worker>>

\* The API call the worker makes next.
Calls == {"addFinalizer", "createGuardian", "checkGuardian", "updateStatus",
          "deleteGuardian", "deleteTicket", "removeFinalizer"}

Resting == [call |-> "idle", t |-> "none", obj |-> BlankTicket]

WorkerState == {Resting} \cup [call : Calls, t : Tickets, obj : TicketObject]

Idle == worker.call = "idle"

ControllerTypeOK == queue \subseteq Tickets /\ worker \in WorkerState

ControllerInit == queue = {} /\ worker = Resting

------------------------------------------------------------------------------
(* Watch events *)

\* Mutant: an event that only changes the status does not enqueue the ticket.
DeliverTicketBySpec(t) ==
    /\ ticketCache[t] # tickets[t]
    /\ ticketCache' = [ticketCache EXCEPT ![t] = tickets[t]]
    /\ queue' = IF /\ ticketCache[t].exists = tickets[t].exists
                   /\ ticketCache[t].deleting = tickets[t].deleting
                THEN queue ELSE queue \cup {t}
    /\ UNCHANGED <<tickets, guardians, guardianCache, pastWindow, faults, worker>>

\* The informer applies the newest version of the ticket and enqueues it.  That
\* a worker may read it from the cache before it is enqueued is a Resync.
DeliverTicket(t) ==
    /\ ticketCache[t] # tickets[t]
    /\ ticketCache' = [ticketCache EXCEPT ![t] = tickets[t]]
    /\ queue' = queue \cup {t}
    /\ UNCHANGED <<tickets, guardians, guardianCache, pastWindow, faults, worker>>

\* Owns(&corev1.Pod{}): an event of the guardian enqueues its ticket.
DeliverGuardian(t) ==
    /\ guardianCache[t] # guardians[t]
    /\ guardianCache' = [guardianCache EXCEPT ![t] = guardians[t]]
    /\ queue' = queue \cup {t}
    /\ UNCHANGED <<tickets, ticketCache, guardians, pastWindow, faults, worker>>

\* The periodic resync replays every object of the cache.
Resync(t) ==
    /\ ticketCache[t].exists /\ t \notin queue
    /\ queue' = queue \cup {t}
    /\ UNCHANGED <<apiVars, worker>>

------------------------------------------------------------------------------
(* Control of the worker *)

\* The worker's next API call, for a local copy edited to obj.
Proceed(call, obj) ==
    /\ worker' = [worker EXCEPT !.call = call, !.obj = obj]
    /\ UNCHANGED queue

\* Reconcile returns without asking to be called again.
Return ==
    /\ worker' = Resting
    /\ UNCHANGED queue

\* Reconcile returns an error, Requeue or RequeueAfter.
Requeue ==
    /\ worker' = Resting
    /\ queue' = queue \cup {worker.t}

\* handlePendingTicket up to its first call: activation and expiration times
\* are set on the local copy only.
Activating(obj) == [obj EXCEPT !.expiry = TRUE]

\* Mutant: phase and note in each other's place.
WithStatusSwapped(obj, phase, note) == [obj EXCEPT !.phase = note, !.note = phase]

\* updateTicketStatus up to its call.
WithStatus(obj, phase, note) == [obj EXCEPT !.phase = phase, !.note = note]

------------------------------------------------------------------------------
(* Reconcile, up to the first API call of the handler it dispatches to *)

\* The worker takes t from the queue; its next call works on the copy obj.
Begin(t, call, obj) ==
    /\ Idle /\ t \in queue
    /\ queue' = queue \ {t}
    /\ worker' = [call |-> call, t |-> t, obj |-> obj]
    /\ UNCHANGED apiVars

\* Mutant: the handlers do not wait for the finalizer.
LiveUnfinalized(obj) == obj.exists /\ ~obj.deleting

Live(obj) == obj.exists /\ ~obj.deleting /\ obj.finalizer

ReconcileGone(t) ==
    /\ Idle /\ t \in queue /\ ~ticketCache[t].exists
    /\ queue' = queue \ {t}
    /\ UNCHANGED <<apiVars, worker>>

\* Mutant: only tickets that refer to a guardian are cleaned up.
ReconcileDeletingReferred(t) ==
    /\ ticketCache[t].exists /\ ticketCache[t].deleting /\ ticketCache[t].guardianRef
    /\ Begin(t, "deleteGuardian", ticketCache[t])

ReconcileDeleting(t) ==
    /\ ticketCache[t].exists /\ ticketCache[t].deleting
    /\ Begin(t, "deleteGuardian", ticketCache[t])

ReconcileUnfinalized(t) ==
    /\ ticketCache[t].exists /\ ~ticketCache[t].deleting
    /\ ~ticketCache[t].finalizer
    /\ Begin(t, "addFinalizer", [ticketCache[t] EXCEPT !.finalizer = TRUE])

\* Mutant: only a ready ticket expires.
ReconcileExpiringReady(t) ==
    /\ Live(ticketCache[t]) /\ WindowOver(t, ticketCache[t])
    /\ ticketCache[t].phase = "Ready"
    /\ Begin(t, "updateStatus",
             WithStatus(ticketCache[t], "Expired", "DurationExceeded"))

\* The window is over, whatever the phase: the ticket expires.
ReconcileExpiring(t) ==
    /\ Live(ticketCache[t]) /\ WindowOver(t, ticketCache[t])
    /\ ticketCache[t].phase # "Expired"
    /\ Begin(t, "updateStatus",
             WithStatus(ticketCache[t], "Expired", "DurationExceeded"))

\* Mutant: the times are set on the cached object itself, without a copy.
ReconcilePendingInPlace(t) ==
    /\ Idle /\ t \in queue
    /\ Live(ticketCache[t]) /\ ~WindowOver(t, ticketCache[t])
    /\ ticketCache[t].phase \in {"", "Pending"}
    /\ ticketCache' = [ticketCache EXCEPT ![t] = Activating(@)]
    /\ queue' = queue \ {t}
    /\ worker' = [call |-> "createGuardian", t |-> t, obj |-> Activating(ticketCache[t])]
    /\ UNCHANGED <<tickets, guardians, guardianCache, pastWindow, faults>>

\* Mutant: a ticket without a phase is not taken for a pending one.
ReconcilePendingNamed(t) ==
    /\ Live(ticketCache[t]) /\ ~WindowOver(t, ticketCache[t])
    /\ ticketCache[t].phase = "Pending"
    /\ Begin(t, "createGuardian", Activating(ticketCache[t]))

ReconcilePending(t) ==
    /\ Live(ticketCache[t]) /\ ~WindowOver(t, ticketCache[t])
    /\ ticketCache[t].phase \in {"", "Pending"}
    /\ Begin(t, "createGuardian", Activating(ticketCache[t]))

\* Mutant: the case of Claimed falls through to that of Ready.
ReconcileReadyOrClaimed(t) ==
    /\ Live(ticketCache[t]) /\ ~WindowOver(t, ticketCache[t])
    /\ ticketCache[t].phase \in {"Ready", "Claimed"} /\ ticketCache[t].guardianRef
    /\ Begin(t, "checkGuardian", ticketCache[t])

\* Without a reference to a guardian handleReadyTicket only asks to be called
\* again, which leaves t in the queue.
ReconcileReady(t) ==
    /\ Live(ticketCache[t]) /\ ~WindowOver(t, ticketCache[t])
    /\ ticketCache[t].phase = "Ready" /\ ticketCache[t].guardianRef
    /\ Begin(t, "checkGuardian", ticketCache[t])

ReconcileClaimed(t) ==
    /\ Live(ticketCache[t]) /\ ~WindowOver(t, ticketCache[t])
    /\ ticketCache[t].phase = "Claimed"
    /\ Begin(t, "deleteGuardian", ticketCache[t])

ReconcileExpired(t) ==
    /\ Live(ticketCache[t]) /\ ticketCache[t].phase = "Expired"
    /\ Begin(t, "deleteGuardian", ticketCache[t])

ReconcileStart(t) ==
    \/ ReconcileGone(t)
    \/ ReconcileDeleting(t)
    \/ ReconcileUnfinalized(t)
    \/ ReconcileExpiring(t)
    \/ ReconcilePending(t)
    \/ ReconcileReady(t)
    \/ ReconcileClaimed(t)
    \/ ReconcileExpired(t)

------------------------------------------------------------------------------
(* The API calls of the handlers; t and obj are those of the worker *)

Wt == worker.t
Obj == worker.obj

\* Update with the finalizer added: requeued whether it succeeds or not.
AddFinalizer ==
    /\ worker.call = "addFinalizer"
    /\ IF Current(Wt, Obj) THEN Store(Wt, Obj) ELSE UNCHANGED tickets
    /\ Requeue
    /\ UNCHANGED <<ticketCache, guardians, guardianCache, pastWindow, faults>>

\* The pod that createGuardianPod builds for the worker's copy.
NewGuardian ==
    [owner |-> Obj.uid, node |-> PinnedNode[Wt], terminating |-> FALSE,
     phase |-> "Pending"]

\* Mutant: the status does not record the guardian.
ActivatedUnreferred(obj) ==
    [WithStatus(obj, "Ready", "Activated") EXCEPT !.node = PinnedNode[Wt]]

ActivatedStatus(obj) ==
    [WithStatus(obj, "Ready", "Activated") EXCEPT
        !.guardianRef = TRUE, !.node = PinnedNode[Wt]]

\* createGuardianPod succeeds; what is left is to record it in the status.
CreateGuardian ==
    /\ worker.call = "createGuardian"
    /\ ~GuardianExists(guardians[Wt])
    /\ guardians' = [guardians EXCEPT ![Wt] = NewGuardian]
    /\ Proceed("updateStatus", ActivatedStatus(Obj))
    /\ UNCHANGED <<tickets, ticketCache, guardianCache, pastWindow, faults>>

\* Mutant: a pod of that name is taken for the ticket's own.
GuardianAdopted ==
    /\ worker.call = "createGuardian"
    /\ GuardianExists(guardians[Wt])
    /\ Proceed("updateStatus", ActivatedStatus(Obj))
    /\ UNCHANGED apiVars

\* A pod of that name exists: handlePendingTicket goes on as handleReadyTicket,
\* which without a reference to a guardian only asks to be called again.
GuardianAlreadyExists ==
    /\ worker.call = "createGuardian"
    /\ GuardianExists(guardians[Wt])
    /\ IF Obj.guardianRef THEN Proceed("checkGuardian", Obj) ELSE Requeue
    /\ UNCHANGED apiVars

\* Mutant: the failure takes the phase back.
GuardianCreateFailsReset ==
    /\ worker.call = "createGuardian"
    /\ \/ UNCHANGED guardians
       \/ /\ ~GuardianExists(guardians[Wt])
          /\ guardians' = [guardians EXCEPT ![Wt] = NewGuardian]
    /\ Fault
    /\ Proceed("updateStatus", WithStatus(Obj, "", "CreateFailed"))
    /\ UNCHANGED <<tickets, ticketCache, guardianCache, pastWindow>>

\* Create returns another error; the pod was refused, or it was made and only
\* the reply was lost.
GuardianCreateFails ==
    /\ worker.call = "createGuardian"
    /\ \/ UNCHANGED guardians
       \/ /\ ~GuardianExists(guardians[Wt])
          /\ guardians' = [guardians EXCEPT ![Wt] = NewGuardian]
    /\ Fault
    /\ Proceed("updateStatus", WithStatus(Obj, "Pending", "CreateFailed"))
    /\ UNCHANGED <<tickets, ticketCache, guardianCache, pastWindow>>

\* handleReadyTicket finds no guardian and goes on as handlePendingTicket.
GuardianNotFound ==
    /\ worker.call = "checkGuardian"
    /\ ~GuardianExists(guardianCache[Wt])
    /\ Proceed("createGuardian", Activating(Obj))
    /\ UNCHANGED apiVars

\* handleReadyTicket copies the node and, once the pod runs, the status.
GuardianFound ==
    LET pod == guardianCache[Wt]
        seen == IF pod.node # "" THEN [Obj EXCEPT !.node = pod.node] ELSE Obj
    IN  /\ worker.call = "checkGuardian" /\ GuardianExists(pod)
        /\ IF pod.phase = "Running"
           THEN Proceed("updateStatus", WithStatus(seen, "Ready", "Running"))
           ELSE Requeue
        /\ UNCHANGED apiVars

\* Mutant: a patch that does not carry the resourceVersion.
UpdateStatusPatched ==
    /\ worker.call = "updateStatus" /\ tickets[Wt].exists
    /\ Store(Wt, Obj)
    /\ Return
    /\ UNCHANGED <<ticketCache, guardians, guardianCache, pastWindow, faults>>

\* Status().Update of the worker's copy succeeds.
UpdateStatus ==
    /\ worker.call = "updateStatus" /\ Current(Wt, Obj)
    /\ Store(Wt, Obj)
    /\ Return
    /\ UNCHANGED <<ticketCache, guardians, guardianCache, pastWindow, faults>>

\* A conflict, or a ticket that is gone.
UpdateStatusConflict ==
    /\ worker.call = "updateStatus" /\ ~Current(Wt, Obj)
    /\ Requeue
    /\ UNCHANGED apiVars

\* Mutant: a pod that the cache does not know is not deleted.
GuardianDeletionCached ==
    /\ worker.call = "deleteGuardian"
    /\ guardians' = IF Obj.guardianRef /\ GuardianExists(guardianCache[Wt])
                    THEN [guardians EXCEPT ![Wt] = PodDeleted(@)]
                    ELSE guardians
    /\ UNCHANGED <<tickets, ticketCache, guardianCache, pastWindow, faults>>

\* deleteGuardianPod, by name and only through the status reference.
GuardianDeletion ==
    /\ worker.call = "deleteGuardian"
    /\ guardians' = IF Obj.guardianRef
                    THEN [guardians EXCEPT ![Wt] = PodDeleted(@)]
                    ELSE guardians
    /\ UNCHANGED <<tickets, ticketCache, guardianCache, pastWindow, faults>>

DeleteForDeletion ==
    /\ GuardianDeletion /\ Obj.deleting
    /\ Proceed("removeFinalizer", [Obj EXCEPT !.finalizer = FALSE])

DeleteForClaimed ==
    /\ GuardianDeletion /\ ~Obj.deleting /\ Obj.phase = "Claimed"
    /\ Proceed("updateStatus",
               WithStatus([Obj EXCEPT !.guardianRef = FALSE], "Claimed", "Claimed"))

\* A TTL that is not zero is counted from now, so now is never after it.
DeleteForExpired ==
    /\ GuardianDeletion /\ ~Obj.deleting /\ Obj.phase = "Expired"
    /\ \/ CleanupPolicy = "Delete" /\ TTLSeconds \in {-1, 0}
          /\ Proceed("deleteTicket", Obj)
       \/ CleanupPolicy = "Delete" /\ TTLSeconds \notin {-1, 0} /\ Requeue
       \/ CleanupPolicy = "Retain"
          /\ Proceed("updateStatus", WithStatus(Obj, "Expired", "Retained"))

\* handleExpiredTicket deletes the ticket by name; NotFound is ignored.
DeleteExpiredTicket ==
    /\ worker.call = "deleteTicket"
    /\ IF tickets[Wt].exists THEN Store(Wt, MarkDeleted(tickets[Wt]))
       ELSE UNCHANGED tickets
    /\ Return
    /\ UNCHANGED <<ticketCache, guardians, guardianCache, pastWindow, faults>>

\* Update without the finalizer: the API server drops the deleted ticket.
RemoveFinalizer ==
    /\ worker.call = "removeFinalizer"
    /\ \/ Current(Wt, Obj) /\ Store(Wt, Removed(Obj)) /\ Return
       \/ ~tickets[Wt].exists /\ UNCHANGED tickets /\ Return
       \/ tickets[Wt].exists /\ ~Current(Wt, Obj) /\ UNCHANGED tickets /\ Requeue
    /\ UNCHANGED <<ticketCache, guardians, guardianCache, pastWindow, faults>>

\* Any other call returns an error before it has had an effect: the handler
\* returns that error.
CallFails ==
    /\ worker.call \notin {"idle", "createGuardian"}
    /\ worker.call = "deleteGuardian" => Obj.guardianRef
    /\ Fault
    /\ Requeue
    /\ UNCHANGED <<tickets, ticketCache, guardians, guardianCache, pastWindow>>

WorkerStep ==
    \/ AddFinalizer
    \/ CreateGuardian
    \/ GuardianAlreadyExists
    \/ GuardianCreateFails
    \/ GuardianNotFound
    \/ GuardianFound
    \/ UpdateStatus
    \/ UpdateStatusConflict
    \/ DeleteForDeletion
    \/ DeleteForClaimed
    \/ DeleteForExpired
    \/ DeleteExpiredTicket
    \/ RemoveFinalizer
    \/ CallFails

ControllerStep ==
    \/ \E t \in Tickets :
          DeliverTicket(t) \/ DeliverGuardian(t) \/ Resync(t) \/ ReconcileStart(t)
    \/ WorkerStep
==============================================================================
