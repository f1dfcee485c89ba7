--------------------------- MODULE ReservationProofs ---------------------------
(***************************************************************************)
(* Why the ticket side keeps its promises: the Reservation contract, and   *)
(* what the order side relies on (PhaseContract, PhaseNeedsFinalizer,      *)
(* DeletionContract).  The handlers are summarised first, by what they do  *)
(* to the worker's copy and to the guardian; then follows what a write of  *)
(* a current copy can do to a ticket.                                      *)
(***************************************************************************)
EXTENDS TicketClaimProofs

------------------------------------------------------------------------------
(* Summary of the handlers *)

\* obj is copy with some fields edited, none of which identifies the ticket, tells
\* who has claimed it or marks its deletion.
Edited(copy, obj) ==
    /\ obj \in TicketObject
    /\ obj.exists = copy.exists /\ obj.rv = copy.rv /\ obj.uid = copy.uid
    /\ obj.claimedPod = copy.claimedPod /\ obj.deleting = copy.deleting

\* A reconciliation of t starts with a call on an edited copy of the cached ticket.
Starts(t, call, obj) ==
    /\ Begin(t, call, obj)
    /\ ticketCache[t].exists /\ Edited(ticketCache[t], obj)
    /\ obj.guardianRef = ticketCache[t].guardianRef
    /\ call # "updateStatus" => obj.phase = ticketCache[t].phase
    /\ \/ call = "deleteGuardian" /\ (~obj.deleting => obj.finalizer)
          /\ (obj.deleting \/ obj.phase \in {"Claimed", "Expired"})
       \/ /\ ~obj.deleting /\ obj.finalizer
          /\ \/ call = "addFinalizer"
             \/ call = "updateStatus"
                /\ ticketCache[t].phase # "Expired" /\ obj.phase = "Expired"
             \/ call = "createGuardian" /\ obj.phase \in {"", "Pending"}
             \/ call = "checkGuardian" /\ obj.phase = "Ready" /\ obj.guardianRef

GuardianMade ==
    /\ ~GuardianExists(guardians[Wt])
    /\ guardians' = [guardians EXCEPT ![Wt] = NewGuardian]

GuardianDropped ==
    guardians' = IF Obj.guardianRef
                 THEN [guardians EXCEPT ![Wt] = PodDeleted(@)] ELSE guardians

\* A handler goes on with a call on obj.
Continues(call, obj) ==
    /\ Proceed(call, obj)
    /\ Edited(Obj, obj)
    /\ UNCHANGED <<tickets, ticketCache>>
    /\ call # "removeFinalizer" => obj.finalizer = Obj.finalizer
    /\ call # "updateStatus" => obj.phase = Obj.phase /\ obj.guardianRef = Obj.guardianRef
    /\ \/ /\ worker.call = "createGuardian" /\ call = "updateStatus"
          /\ \/ GuardianMade /\ obj.phase = "Ready" /\ obj.guardianRef
             \/ /\ GuardianMade \/ UNCHANGED guardians
                /\ obj.phase = "Pending" /\ obj.guardianRef = Obj.guardianRef
       \/ /\ worker.call = "createGuardian" /\ call = "checkGuardian"
          /\ obj.guardianRef /\ UNCHANGED guardians
       \/ /\ worker.call = "checkGuardian" /\ call = "createGuardian"
          /\ UNCHANGED guardians
       \/ /\ worker.call = "checkGuardian" /\ call = "updateStatus"
          /\ obj.phase = "Ready" /\ obj.guardianRef = Obj.guardianRef /\ UNCHANGED guardians
       \/ /\ worker.call = "deleteGuardian" /\ call = "removeFinalizer"
          /\ Obj.deleting /\ GuardianDropped
       \/ /\ worker.call = "deleteGuardian" /\ call = "updateStatus" /\ ~Obj.deleting
          /\ Obj.phase = "Claimed" /\ obj.phase = "Claimed" /\ ~obj.guardianRef
          /\ GuardianDropped
       \/ /\ worker.call = "deleteGuardian" /\ call \in {"updateStatus", "deleteTicket"}
          /\ ~Obj.deleting
          /\ Obj.phase = "Expired" /\ obj.phase = "Expired"
          /\ obj.guardianRef = Obj.guardianRef
          /\ call = "updateStatus" => CleanupPolicy = "Retain"
          /\ GuardianDropped

\* A handler ends.
Ends ==
    /\ worker' = Resting
    /\ UNCHANGED ticketCache
    /\ \/ UNCHANGED guardians
       \/ worker.call = "deleteGuardian" /\ GuardianDropped /\ UNCHANGED tickets

\* What the worker writes to the API server when it makes its call.
Writes ==
    \/ UNCHANGED tickets
    \/ worker.call \in {"addFinalizer", "updateStatus"}
       /\ Current(Wt, Obj) /\ Store(Wt, Obj)
    \/ worker.call = "deleteTicket"
       /\ tickets[Wt].exists /\ Store(Wt, MarkDeleted(tickets[Wt]))
    \/ worker.call = "removeFinalizer"
       /\ Current(Wt, Obj) /\ Store(Wt, Removed(Obj))

\* What a status update leaves alone, the guardian's reference and the finalizer included.
LEMMA StatusEdits ==
  ASSUME NEW obj \in TicketObject, NEW phase \in Phases, NEW note \in Notes
  PROVE  /\ Edited(obj, WithStatus(obj, phase, note))
         /\ WithStatus(obj, phase, note).phase = phase
         /\ WithStatus(obj, phase, note).finalizer = obj.finalizer
         /\ WithStatus(obj, phase, note).guardianRef = obj.guardianRef
<1>1. WithStatus(obj, phase, note) \in TicketObject
  BY StatusTyped
<1> QED
  BY <1>1 DEF WithStatus, TicketObject, Edited

LEMMA StartSummary ==
  ASSUME TypeOK, NEW t \in Tickets, ReconcileStart(t), ~ReconcileGone(t)
  PROVE  \E call \in Calls, obj \in TicketObject : Starts(t, call, obj)
<1>1. ticketCache[t] \in TicketObject
  BY DEF TypeOK, ApiTypeOK
<1>2. CASE ReconcileDeleting(t)
  <2>1. Starts(t, "deleteGuardian", ticketCache[t])
    BY <1>1, <1>2 DEF ReconcileDeleting, Starts, Edited
  <2> QED
    BY <1>1, <2>1 DEF Calls
<1>3. CASE ReconcileUnfinalized(t)
  <2> DEFINE obj == [ticketCache[t] EXCEPT !.finalizer = TRUE]
  <2>1. /\ Edited(ticketCache[t], obj) /\ obj.phase = ticketCache[t].phase /\ obj.finalizer
        /\ obj.guardianRef = ticketCache[t].guardianRef
    BY <1>1, EditsTyped DEF TicketObject, Edited
  <2>2. Begin(t, "addFinalizer", obj) /\ ticketCache[t].exists /\ ~ticketCache[t].deleting
    BY <1>3 DEF ReconcileUnfinalized
  <2> HIDE DEF obj
  <2>3. Starts(t, "addFinalizer", obj) /\ obj \in TicketObject
    BY <2>1, <2>2 DEF Starts, Edited
  <2> QED
    BY <2>3 DEF Calls
<1>4. CASE ReconcileExpiring(t)
  <2> DEFINE obj == WithStatus(ticketCache[t], "Expired", "DurationExceeded")
  <2>1. /\ Edited(ticketCache[t], obj) /\ obj.phase = "Expired"
        /\ obj.finalizer = ticketCache[t].finalizer
        /\ obj.guardianRef = ticketCache[t].guardianRef
    BY <1>1, StatusEdits, ZenonT(60) DEF Phases, Notes
  <2>2. /\ Begin(t, "updateStatus", obj) /\ ticketCache[t].exists
        /\ ~ticketCache[t].deleting /\ ticketCache[t].finalizer
        /\ ticketCache[t].phase # "Expired"
    BY <1>4 DEF ReconcileExpiring, Live
  <2> HIDE DEF obj
  <2>3. Starts(t, "updateStatus", obj) /\ obj \in TicketObject
    BY <2>1, <2>2 DEF Starts, Edited
  <2> QED
    BY <2>3 DEF Calls
<1>5. CASE ReconcilePending(t)
  <2> DEFINE obj == Activating(ticketCache[t])
  <2>1. /\ Edited(ticketCache[t], obj) /\ obj.phase = ticketCache[t].phase
        /\ obj.finalizer = ticketCache[t].finalizer
        /\ obj.guardianRef = ticketCache[t].guardianRef
    BY <1>1, EditsTyped DEF TicketObject, Activating, Edited
  <2>2. /\ Begin(t, "createGuardian", obj) /\ ticketCache[t].exists
        /\ ~ticketCache[t].deleting /\ ticketCache[t].finalizer
        /\ ticketCache[t].phase \in {"", "Pending"}
    BY <1>5 DEF ReconcilePending, Live
  <2> HIDE DEF obj
  <2>3. Starts(t, "createGuardian", obj) /\ obj \in TicketObject
    BY <2>1, <2>2 DEF Starts, Edited
  <2> QED
    BY <2>3 DEF Calls
<1>6. CASE ReconcileReady(t)
  <2>1. Starts(t, "checkGuardian", ticketCache[t])
    BY <1>1, <1>6 DEF ReconcileReady, Live, Starts, Edited
  <2> QED
    BY <1>1, <2>1 DEF Calls
<1>7. CASE ReconcileClaimed(t) \/ ReconcileExpired(t)
  <2>1. Starts(t, "deleteGuardian", ticketCache[t])
    BY <1>1, <1>7 DEF ReconcileClaimed, ReconcileExpired, Live, Starts, Edited
  <2> QED
    BY <1>1, <2>1 DEF Calls
<1> QED
  BY <1>2, <1>3, <1>4, <1>5, <1>6, <1>7 DEF ReconcileStart

LEMMA WorkerSummary ==
  ASSUME TypeOK, WorkerStep
  PROVE  /\ worker.call # "idle"
         /\ Writes
         /\ Ends \/ \E call \in Calls, obj \in TicketObject : Continues(call, obj)
<1>1. worker.call # "idle"
  BY DEF WorkerStep, AddFinalizer, CreateGuardian, GuardianAlreadyExists,
         GuardianCreateFails, GuardianNotFound, GuardianFound, UpdateStatus,
         UpdateStatusConflict, DeleteForDeletion, DeleteForClaimed, DeleteForExpired,
         GuardianDeletion, DeleteExpiredTicket, RemoveFinalizer, CallFails
<1>2. Wt \in Tickets /\ Obj \in TicketObject
  BY <1>1, WorkerTyped
<1>3. /\ {"Pending", "Ready", "Claimed", "Expired"} \subseteq Phases
      /\ {"Activated", "CreateFailed", "Running", "Claimed", "Retained"} \subseteq Notes
  BY DEF Phases, Notes
<1> DEFINE Goal == /\ Writes
                   /\ Ends \/ \E call \in Calls, obj \in TicketObject : Continues(call, obj)
<1>4. ASSUME NEW call \in Calls, NEW obj, Continues(call, obj) PROVE Goal
  BY <1>4 DEF Continues, Edited, Writes
<1>5. ASSUME Return \/ Requeue, Writes, UNCHANGED <<ticketCache, guardians>> PROVE Goal
  BY <1>5 DEF Return, Requeue, Ends
<1> HIDE DEF Goal
<1> SUFFICES Goal
  BY <1>1 DEF Goal
<1>6. CASE AddFinalizer
  BY <1>5, <1>6 DEF AddFinalizer, Writes
<1>7. CASE CreateGuardian
  <2> DEFINE st == WithStatus(Obj, "Ready", "Activated")
             obj == ActivatedStatus(Obj)
  <2>1. Edited(Obj, st) /\ st.phase = "Ready" /\ st.finalizer = Obj.finalizer
    BY <1>2, <1>3, StatusEdits
  <2> HIDE DEF st
  <2>2. obj = [st EXCEPT !.guardianRef = TRUE, !.node = PinnedNode[Wt]]
    BY DEF ActivatedStatus, st
  <2>3. Edited(Obj, obj) /\ obj.phase = "Ready" /\ obj.finalizer = Obj.finalizer /\ obj.guardianRef
    BY <1>2, <2>1, <2>2, PinAssumption, ZenonT(60) DEF TicketObject, Edited
  <2> HIDE DEF obj
  <2>4. /\ worker.call = "createGuardian" /\ GuardianMade /\ Proceed("updateStatus", obj)
        /\ UNCHANGED <<tickets, ticketCache>>
    BY <1>7 DEF CreateGuardian, GuardianMade, obj
  <2>5. Continues("updateStatus", obj)
    BY <2>3, <2>4 DEF Continues
  <2> QED
    BY <1>4, <2>5 DEF Calls
<1>8. CASE GuardianAlreadyExists
  <2>1. CASE Requeue
    BY <1>5, <1>8, <2>1 DEF GuardianAlreadyExists, apiVars, Writes
  <2>2. CASE Obj.guardianRef /\ Proceed("checkGuardian", Obj)
    <3>1. Continues("checkGuardian", Obj)
      BY <1>2, <1>8, <2>2 DEF GuardianAlreadyExists, apiVars, Continues, Edited
    <3> QED
      BY <1>4, <3>1 DEF Calls
  <2> QED
    BY <1>8, <2>1, <2>2 DEF GuardianAlreadyExists
<1>9. CASE GuardianCreateFails
  <2> DEFINE obj == WithStatus(Obj, "Pending", "CreateFailed")
  <2>1. /\ Edited(Obj, obj) /\ obj.phase = "Pending" /\ obj.finalizer = Obj.finalizer
        /\ obj.guardianRef = Obj.guardianRef
    BY <1>2, <1>3, StatusEdits
  <2>2. /\ worker.call = "createGuardian" /\ (GuardianMade \/ UNCHANGED guardians)
        /\ Proceed("updateStatus", obj) /\ UNCHANGED <<tickets, ticketCache>>
    BY <1>9 DEF GuardianCreateFails, GuardianMade
  <2> HIDE DEF obj
  <2>3. Continues("updateStatus", obj)
    BY <2>1, <2>2 DEF Continues
  <2> QED
    BY <1>4, <2>3 DEF Calls
<1>10. CASE GuardianNotFound
  <2> DEFINE obj == Activating(Obj)
  <2>1. /\ Edited(Obj, obj) /\ obj.phase = Obj.phase /\ obj.finalizer = Obj.finalizer
        /\ obj.guardianRef = Obj.guardianRef
    BY <1>2, EditsTyped DEF Edited, Activating, TicketObject
  <2>2. /\ worker.call = "checkGuardian" /\ Proceed("createGuardian", obj)
        /\ UNCHANGED <<tickets, ticketCache, guardians>>
    BY <1>10 DEF GuardianNotFound, apiVars
  <2> HIDE DEF obj
  <2>3. Continues("createGuardian", obj)
    BY <2>1, <2>2 DEF Continues
  <2> QED
    BY <1>4, <2>3 DEF Calls
<1>11. CASE GuardianFound
  <2> DEFINE pod == guardianCache[Wt]
             seen == IF pod.node # "" THEN [Obj EXCEPT !.node = pod.node] ELSE Obj
             obj == WithStatus(seen, "Ready", "Running")
  <2>1. pod.node \in Nodes \cup {""}
    BY <1>2 DEF TypeOK, ApiTypeOK, GuardianObject
  <2>2. /\ Edited(Obj, seen) /\ seen.finalizer = Obj.finalizer
        /\ seen.guardianRef = Obj.guardianRef
    BY <1>2, <2>1 DEF TicketObject, Edited
  <2>3. /\ worker.call = "checkGuardian" /\ (Requeue \/ Proceed("updateStatus", obj))
        /\ UNCHANGED <<tickets, ticketCache, guardians>>
    BY <1>11 DEF GuardianFound, apiVars
  <2> HIDE DEF seen
  <2>4. /\ Edited(seen, obj) /\ obj.phase = "Ready" /\ obj.finalizer = seen.finalizer
        /\ obj.guardianRef = seen.guardianRef
    BY <1>3, <2>2, StatusEdits DEF Edited
  <2> HIDE DEF obj
  <2>5. CASE Requeue
    BY <1>5, <2>3, <2>5 DEF Writes
  <2>6. CASE Proceed("updateStatus", obj)
    <3>1. Continues("updateStatus", obj)
      BY <2>2, <2>3, <2>4, <2>6 DEF Continues, Edited
    <3> QED
      BY <1>4, <3>1 DEF Calls
  <2> QED
    BY <2>3, <2>5, <2>6
<1>12. CASE UpdateStatus
  BY <1>5, <1>12 DEF UpdateStatus, Writes
<1>13. CASE UpdateStatusConflict
  BY <1>5, <1>13 DEF UpdateStatusConflict, apiVars, Writes
<1>14. ASSUME GuardianDeletion
       PROVE  /\ worker.call = "deleteGuardian" /\ GuardianDropped
              /\ UNCHANGED <<tickets, ticketCache>>
  BY <1>14 DEF GuardianDeletion, GuardianDropped
<1>15. CASE DeleteForDeletion
  <2> DEFINE obj == [Obj EXCEPT !.finalizer = FALSE]
  <2>1. Edited(Obj, obj) /\ obj.phase = Obj.phase /\ obj.guardianRef = Obj.guardianRef
    BY <1>2, EditsTyped DEF TicketObject, Edited
  <2>2. Proceed("removeFinalizer", obj) /\ GuardianDeletion /\ Obj.deleting
    BY <1>15 DEF DeleteForDeletion
  <2> HIDE DEF obj
  <2>3. Continues("removeFinalizer", obj)
    BY <1>14, <2>1, <2>2 DEF Continues
  <2> QED
    BY <1>4, <2>3 DEF Calls
<1>16. CASE DeleteForClaimed
  <2> DEFINE released == [Obj EXCEPT !.guardianRef = FALSE]
             obj == WithStatus(released, "Claimed", "Claimed")
  <2>1. /\ Edited(Obj, released) /\ released.finalizer = Obj.finalizer
        /\ released \in TicketObject /\ ~released.guardianRef
    BY <1>2, EditsTyped, ZenonT(60) DEF TicketObject, Edited
  <2>2. /\ Proceed("updateStatus", obj) /\ GuardianDeletion
        /\ ~Obj.deleting /\ Obj.phase = "Claimed"
    BY <1>16 DEF DeleteForClaimed
  <2> HIDE DEF released
  <2>3. /\ Edited(released, obj) /\ obj.phase = "Claimed" /\ ~obj.guardianRef
        /\ obj.finalizer = released.finalizer
    BY <1>3, <2>1, StatusEdits
  <2> HIDE DEF obj
  <2>4. Continues("updateStatus", obj)
    BY <1>14, <2>1, <2>2, <2>3 DEF Continues, Edited
  <2> QED
    BY <1>4, <2>4 DEF Calls
<1>17. CASE DeleteForExpired
  <2> DEFINE obj == WithStatus(Obj, "Expired", "Retained")
  <2>1. /\ Edited(Obj, obj) /\ obj.phase = "Expired" /\ obj.finalizer = Obj.finalizer
        /\ obj.guardianRef = Obj.guardianRef
    BY <1>2, <1>3, StatusEdits
  <2>2. /\ ~Obj.deleting /\ Obj.phase = "Expired" /\ GuardianDeletion
        /\ \/ Requeue
           \/ Proceed("deleteTicket", Obj)
           \/ CleanupPolicy = "Retain" /\ Proceed("updateStatus", obj)
    BY <1>17 DEF DeleteForExpired
  <2> HIDE DEF obj
  <2>3. CASE Requeue
    BY <1>14, <2>2, <2>3 DEF Requeue, Ends, Writes, Goal
  <2>4. CASE Proceed("deleteTicket", Obj)
    <3>1. Continues("deleteTicket", Obj)
      BY <1>2, <1>14, <2>2, <2>4 DEF Continues, Edited
    <3> QED
      BY <1>4, <3>1 DEF Calls
  <2>5. CASE CleanupPolicy = "Retain" /\ Proceed("updateStatus", obj)
    <3>1. Continues("updateStatus", obj)
      BY <1>14, <2>1, <2>2, <2>5 DEF Continues
    <3> QED
      BY <1>4, <3>1 DEF Calls
  <2> QED
    BY <2>2, <2>3, <2>4, <2>5
<1>18. CASE DeleteExpiredTicket
  BY <1>5, <1>18 DEF DeleteExpiredTicket, Writes
<1>19. CASE RemoveFinalizer
  BY <1>5, <1>19 DEF RemoveFinalizer, Writes
<1>20. CASE CallFails
  BY <1>5, <1>20 DEF CallFails, Writes
<1> QED
  BY <1>1, <1>6, <1>7, <1>8, <1>9, <1>10, <1>11, <1>12, <1>13, <1>15, <1>16, <1>17,
     <1>18, <1>19, <1>20
  DEF WorkerStep

\* Who else does a step: the environment and the webhooks, which leave worker and
\* cache alone, or the informer, which does not write.
LEMMA StepSummary ==
  ASSUME TypeOK, [Next]_vars
  PROVE  \/ UNCHANGED vars
         \/ \E t \in Tickets : EnvTicketStep(t) /\ UNCHANGED <<worker, ticketCache>>
         \/ \E p \in Pods : PodStep(p) /\ UNCHANGED <<worker, ticketCache, guardians>>
         \/ /\ UNCHANGED <<tickets, guardians, worker>>
            /\ \/ UNCHANGED ticketCache
               \/ \E t \in Tickets : ticketCache' = [ticketCache EXCEPT ![t] = tickets[t]]
         \/ /\ UNCHANGED <<tickets, guardians>>
            /\ ticketCache' = tickets /\ worker' = Resting
         \/ \E t \in Tickets, call \in Calls, obj \in TicketObject : Starts(t, call, obj)
         \/ WorkerStep
<1>1. CASE \E t \in Tickets : EnvTicketStep(t) /\ UNCHANGED <<controllerVars, podVars>>
  <2>1. PICK t \in Tickets : EnvTicketStep(t) /\ UNCHANGED <<controllerVars, podVars>>
    BY <1>1
  <2>2. UNCHANGED <<worker, ticketCache>>
    BY <2>1
    DEF EnvTicketStep, CreateTicket, DeleteTicket, EditTicket, WindowElapses,
        GuardianStep, ScheduleGuardian, StartGuardian, EvictGuardian, FailGuardian,
        FinishGuardian, CollectGuardian, controllerVars
  <2> QED
    BY <2>1, <2>2
<1>2. CASE \E p \in Pods : PodStep(p) /\ UNCHANGED controllerVars
  <2>1. PICK p \in Pods : PodStep(p) /\ UNCHANGED controllerVars
    BY <1>2
  <2>2. UNCHANGED <<worker, ticketCache, guardians>>
    BY <2>1
    DEF PodStep, SubmitCreate, SubmitDryRun, SubmitUpdate, Find, Bind, BindFails,
        Decide, TimeOut, SchedulePod, DeletePod, apiVars, controllerVars
  <2> QED
    BY <2>1, <2>2
<1>3. CASE Restart
  BY <1>3 DEF Restart
<1>4. ASSUME NEW t \in Tickets, DeliverTicket(t)
      PROVE  /\ UNCHANGED <<tickets, guardians, worker>>
             /\ ticketCache' = [ticketCache EXCEPT ![t] = tickets[t]]
  BY <1>4 DEF DeliverTicket
<1>5. ASSUME NEW t \in Tickets, DeliverGuardian(t) \/ Resync(t) \/ ReconcileGone(t)
      PROVE  UNCHANGED <<tickets, guardians, worker, ticketCache>>
  BY <1>5 DEF DeliverGuardian, Resync, ReconcileGone, apiVars
<1>6. ASSUME NEW t \in Tickets, ReconcileStart(t), ~ReconcileGone(t)
      PROVE  \E call \in Calls, obj \in TicketObject : Starts(t, call, obj)
  BY <1>6, StartSummary
<1>7. CASE ControllerStep
  BY <1>4, <1>5, <1>6, <1>7 DEF ControllerStep
<1> QED
  BY <1>1, <1>2, <1>3, <1>7 DEF Next

------------------------------------------------------------------------------
(* What a write does to a ticket *)

\* The phases that the controller writes over one.
Follows(from, to) ==
    from = to \/ <<from, to>> \in PhaseMoves \ {<<"Ready", "Claimed">>}

\* The life of a ticket, write by write: it is created, removed once nothing keeps
\* it, taken on by the controller, or claimed by a pod.
Transition(old, new) ==
    \/ ~old.exists /\ new.exists /\ new.phase = "" /\ new.claimedPod = "nil"
    \/ old.exists /\ ~new.exists /\ new.claimedPod = "nil" /\ (old.finalizer => old.deleting)
    \/ /\ old.exists /\ new.exists /\ new.uid = old.uid
       /\ new.phase # "" => new.finalizer
       /\ old.deleting => new.deleting
       /\ \/ Follows(old.phase, new.phase) /\ new.claimedPod = old.claimedPod
          \/ /\ old.phase = "Ready" /\ new.phase = "Claimed"
             /\ old.claimedPod = "nil" /\ new.claimedPod \in Pods

\* What the worker is about to write: its copy has the finalizer until the ticket is
\* to be deleted, and as long as it is current the phase of the copy follows that of
\* the ticket and the mark of deletion is the ticket's.
WorkerPlan ==
    worker.call # "idle" =>
        /\ worker.call \in {"addFinalizer", "createGuardian", "checkGuardian", "updateStatus"}
              => Obj.finalizer /\ ~Obj.deleting
        /\ worker.call = "deleteGuardian" /\ ~Obj.deleting => Obj.finalizer
        /\ worker.call = "deleteTicket" => ~Obj.deleting
        /\ worker.call = "removeFinalizer" => Obj.deleting
        /\ Obj.rv = tickets[Wt].rv =>
           /\ Obj.deleting = tickets[Wt].deleting
           /\ IF worker.call = "updateStatus" THEN Follows(tickets[Wt].phase, Obj.phase)
              ELSE Obj.phase = tickets[Wt].phase

\* A name that is not in use has no claim.
Vacant == \A t \in Tickets : ~tickets[t].exists => tickets[t].claimedPod = "nil"

LifeInv == PhaseNeedsFinalizer /\ Vacant /\ WorkerPlan

\* What the API server stores is the object it is given, but for its resourceVersion.
LEMMA StoreTransition ==
  ASSUME TypeOK, NEW t \in Tickets, NEW obj \in TicketObject, Store(t, obj),
         Transition(tickets[t], obj)
  PROVE  \E new \in TicketObject :
            tickets' = [tickets EXCEPT ![t] = new] /\ Transition(tickets[t], new)
<1> DEFINE new == [obj EXCEPT !.rv = NextRv(t, obj)]
<1>1. NextRv(t, obj) \in Nat
  <2>1. tickets[t].rv + 1 \in Nat
    BY VersionsTyped
  <2> QED
    BY <2>1, VersionsTyped DEF NextRv
<1>2. /\ new \in TicketObject /\ new.exists = obj.exists /\ new.uid = obj.uid
      /\ new.phase = obj.phase /\ new.finalizer = obj.finalizer
      /\ new.claimedPod = obj.claimedPod /\ new.deleting = obj.deleting
  BY <1>1 DEF TicketObject
<1>3. tickets' = [tickets EXCEPT ![t] = new]
  BY DEF Store
<1> HIDE DEF new
<1> QED
  BY <1>2, <1>3 DEF Transition

LEMMA DeletionTransition ==
  ASSUME TypeOK, LifeInv, NEW t \in Tickets, tickets[t].exists
  PROVE  /\ MarkDeleted(tickets[t]) \in TicketObject
         /\ Transition(tickets[t], MarkDeleted(tickets[t]))
<1>1. tickets[t] \in TicketObject
  BY VersionsTyped
<1> DEFINE obj == MarkDeleted(tickets[t])
<1>2. obj \in TicketObject
  BY <1>1, EditsTyped
<1>3. CASE tickets[t].finalizer
  <2>1. /\ obj.exists = tickets[t].exists /\ obj.uid = tickets[t].uid
        /\ obj.phase = tickets[t].phase /\ obj.finalizer = tickets[t].finalizer
        /\ obj.claimedPod = tickets[t].claimedPod /\ obj.deleting
    BY <1>1, <1>3 DEF MarkDeleted, TicketObject
  <2> QED
    BY <1>2, <1>3, <2>1 DEF Transition, Follows
<1>4. CASE ~tickets[t].finalizer
  <2>1. ~obj.exists /\ obj.claimedPod = "nil"
    BY <1>4 DEF MarkDeleted, Removed, BlankTicket
  <2> QED
    BY <1>2, <1>4, <2>1 DEF Transition
<1> QED
  BY <1>3, <1>4

\* Every step writes one ticket at most, and that ticket lives on in one of these ways.
LEMMA TicketLife ==
  ASSUME TypeOK, Coherence, LifeInv, [Next]_vars
  PROVE  \/ UNCHANGED tickets
         \/ \E t \in Tickets, new \in TicketObject :
               tickets' = [tickets EXCEPT ![t] = new] /\ Transition(tickets[t], new)
<1> DEFINE Goal == \/ UNCHANGED tickets
                   \/ \E t \in Tickets, new \in TicketObject :
                         tickets' = [tickets EXCEPT ![t] = new] /\ Transition(tickets[t], new)
<1> HIDE DEF Goal
<1> SUFFICES Goal
  BY DEF Goal
<1>1. ASSUME UNCHANGED tickets PROVE Goal
  BY <1>1 DEF Goal
<1>2. ASSUME NEW t \in Tickets, NEW obj \in TicketObject, Store(t, obj),
             Transition(tickets[t], obj)
      PROVE  Goal
  BY <1>2, StoreTransition DEF Goal
<1>3. ASSUME NEW t \in Tickets, tickets[t].exists, Store(t, MarkDeleted(tickets[t]))
      PROVE  Goal
  BY <1>2, <1>3, DeletionTransition
<1>4. ASSUME NEW t \in Tickets, EnvTicketStep(t) PROVE Goal
  <2>1. tickets[t] \in TicketObject /\ tickets[t].rv \in Nat /\ tickets[t].uid \in Nat
    BY VersionsTyped
  <2>2. CASE CreateTicket(t)
    <3> DEFINE obj == [BlankTicket EXCEPT !.exists = TRUE, !.uid = tickets[t].uid + 1]
    <3>1. obj \in TicketObject
      <4>1. tickets[t].uid + 1 \in Nat
        BY <2>1
      <4> QED
        BY <4>1, BlankTyped DEF TicketObject
    <3>2. obj.exists /\ obj.phase = "" /\ obj.claimedPod = "nil"
      BY DEF BlankTicket
    <3>3. Store(t, obj) /\ ~tickets[t].exists
      BY <2>2 DEF CreateTicket
    <3> HIDE DEF obj
    <3> QED
      BY <1>2, <3>1, <3>2, <3>3 DEF Transition
  <2>3. CASE DeleteTicket(t)
    BY <1>3, <2>3 DEF DeleteTicket
  <2>4. CASE EditTicket(t)
    <3> DEFINE new == [tickets[t] EXCEPT !.rv = @ + 1]
    <3>1. tickets' = [tickets EXCEPT ![t] = new] /\ tickets[t].exists
      BY <2>4 DEF EditTicket
    <3>2. /\ new \in TicketObject /\ new.exists = tickets[t].exists
          /\ new.uid = tickets[t].uid /\ new.phase = tickets[t].phase
          /\ new.finalizer = tickets[t].finalizer /\ new.claimedPod = tickets[t].claimedPod
          /\ new.deleting = tickets[t].deleting
      <4>1. tickets[t].rv + 1 \in Nat
        BY <2>1
      <4> QED
        BY <2>1, <4>1 DEF TicketObject
    <3> HIDE DEF new
    <3>3. Transition(tickets[t], new)
      BY <3>1, <3>2 DEF Transition, Follows, LifeInv, PhaseNeedsFinalizer
    <3> QED
      BY <3>1, <3>2, <3>3 DEF Goal
  <2> QED
    BY <1>1, <1>4, <2>2, <2>3, <2>4
    DEF EnvTicketStep, WindowElapses, GuardianStep, ScheduleGuardian, StartGuardian,
        EvictGuardian, FailGuardian, FinishGuardian, CollectGuardian
<1>5. ASSUME NEW p \in Pods, PodStep(p) PROVE Goal
  <2> DEFINE a == admissions[p]
  <2>1. CASE Bind(p)
    <3>1. /\ a.t \in Tickets /\ a.copy \in TicketObject
          /\ Store(a.t, Claimed(a.copy, p)) /\ Current(a.t, a.copy)
      BY <2>1 DEF Bind, TypeOK, PodTypeOK, Admission
    <3>2. a.copy = tickets[a.t] /\ a.copy.phase = "Ready" /\ Settled(a.copy)
      BY <2>1, <3>1 DEF Bind, Current, Coherence, AdmissionCopy, ReadCopy
    <3>3. a.copy.exists /\ a.copy.finalizer /\ a.copy.claimedPod = "nil"
      BY <3>1, <3>2 DEF Current, LifeInv, PhaseNeedsFinalizer, Settled
    <3> DEFINE obj == Claimed(a.copy, p)
    <3>4. /\ obj \in TicketObject /\ obj.exists = a.copy.exists /\ obj.uid = a.copy.uid
          /\ obj.phase = "Claimed" /\ obj.finalizer = a.copy.finalizer /\ obj.claimedPod = p
          /\ obj.deleting = a.copy.deleting
      BY <3>1 DEF Claimed, TicketObject, Phases
    <3> HIDE DEF obj
    <3>5. Transition(tickets[a.t], obj)
      BY <3>2, <3>3, <3>4 DEF Transition
    <3> QED
      BY <1>2, <3>1, <3>4, <3>5 DEF obj
  <2>2. CASE UNCHANGED tickets
    BY <1>1, <2>2
  <2> QED
    BY <1>5, <2>1, <2>2
    DEF PodStep, SubmitCreate, SubmitDryRun, SubmitUpdate, Find, BindFails, Decide,
        TimeOut, SchedulePod, DeletePod, apiVars
<1>6. ASSUME WorkerStep PROVE Goal
  <2>1. worker.call # "idle" /\ Writes
    BY <1>6, WorkerSummary
  <2>2. Wt \in Tickets /\ Obj \in TicketObject
    BY <2>1, WorkerTyped
  <2>3. CASE /\ worker.call \in {"addFinalizer", "updateStatus"}
             /\ Current(Wt, Obj) /\ Store(Wt, Obj)
    <3>1. /\ tickets[Wt].exists /\ Obj.exists /\ Obj.uid = tickets[Wt].uid
          /\ Obj.claimedPod = tickets[Wt].claimedPod
      BY <2>1, <2>3 DEF Current, Coherence, WorkerCopy
    <3>2. /\ Obj.finalizer /\ Obj.deleting = tickets[Wt].deleting
          /\ Follows(tickets[Wt].phase, Obj.phase)
      BY <2>1, <2>3 DEF Current, LifeInv, WorkerPlan, Follows
    <3>3. Transition(tickets[Wt], Obj)
      BY <3>1, <3>2 DEF Transition
    <3> QED
      BY <1>2, <2>2, <2>3, <3>3
  <2>4. CASE /\ worker.call = "removeFinalizer"
             /\ Current(Wt, Obj) /\ Store(Wt, Removed(Obj))
    <3>1. Removed(Obj) \in TicketObject
      BY <2>2, EditsTyped
    <3>2. ~Removed(Obj).exists /\ Removed(Obj).claimedPod = "nil"
      BY DEF Removed, BlankTicket
    <3>3. tickets[Wt].deleting
      BY <2>1, <2>4 DEF Current, LifeInv, WorkerPlan
    <3>4. Transition(tickets[Wt], Removed(Obj))
      BY <2>4, <3>2, <3>3 DEF Transition, Current
    <3> QED
      BY <1>2, <2>2, <2>4, <3>1, <3>4
  <2> QED
    BY <1>1, <1>3, <2>1, <2>2, <2>3, <2>4 DEF Writes
<1> QED
  BY <1>1, <1>4, <1>5, <1>6, StepSummary DEF Starts, Begin, apiVars, vars

------------------------------------------------------------------------------
(* The strengthening is inductive *)

\* A ticket that a step writes keeps what LifeInv says of it.
LEMMA TicketsLive ==
  ASSUME TypeOK, Coherence, LifeInv, [Next]_vars
  PROVE  PhaseNeedsFinalizer' /\ Vacant'
<1>1. CASE UNCHANGED tickets
  BY <1>1 DEF LifeInv, PhaseNeedsFinalizer, Vacant
<1>2. ASSUME NEW t \in Tickets, NEW new \in TicketObject,
             tickets' = [tickets EXCEPT ![t] = new], Transition(tickets[t], new)
      PROVE  PhaseNeedsFinalizer' /\ Vacant'
  <2>1. tickets'[t] = new /\ \A u \in Tickets \ {t} : tickets'[u] = tickets[u]
    BY <1>2 DEF TypeOK, ApiTypeOK
  <2>2. /\ new.exists /\ new.phase # "" => new.finalizer
        /\ ~new.exists => new.claimedPod = "nil"
    BY <1>2 DEF Transition
  <2>3. PhaseNeedsFinalizer /\ Vacant
    BY DEF LifeInv
  <2>4. PhaseNeedsFinalizer'
    BY <2>1, <2>2, <2>3 DEF PhaseNeedsFinalizer
  <2>5. Vacant'
    BY <2>1, <2>2, <2>3 DEF Vacant
  <2> QED
    BY <2>4, <2>5
<1> QED
  BY <1>1, <1>2, TicketLife

\* While the worker rests between two calls its copy ages.
LEMMA PlanAges ==
  ASSUME TypeOK, TypeOK', Coherence, LifeInv, [Next]_vars, UNCHANGED worker
  PROVE  WorkerPlan'
<1> SUFFICES ASSUME worker.call # "idle" PROVE WorkerPlan'
  BY DEF WorkerPlan
<1>1. Wt \in Tickets /\ Obj \in TicketObject
  BY WorkerTyped
<1>2. Obj.rv \in Nat /\ tickets[Wt].rv \in Nat /\ tickets'[Wt].rv \in Nat
  BY <1>1 DEF TicketObject, TypeOK, ApiTypeOK
<1>3. Advances(Wt) /\ Obj.rv <= tickets[Wt].rv
  BY <1>1, NextAdvances DEF Coherence, WorkerCopy
<1>4. Obj.rv = tickets'[Wt].rv => tickets'[Wt] = tickets[Wt]
  <2>1. tickets'[Wt] = tickets[Wt] \/ tickets'[Wt].rv > tickets[Wt].rv
    BY <1>3 DEF Advances
  <2> QED
    BY <1>2, <1>3, <2>1
<1>5. Wt' = Wt /\ Obj' = Obj
  BY DEF Wt, Obj
<1> QED
  BY <1>4, <1>5 DEF LifeInv, WorkerPlan

LEMMA PlanKept ==
  ASSUME TypeOK, TypeOK', Coherence, LifeInv, [Next]_vars
  PROVE  WorkerPlan'
<1>1. CASE UNCHANGED worker
  BY <1>1, PlanAges
<1>2. CASE worker' = Resting
  BY <1>2 DEF WorkerPlan, Resting
<1>3. ASSUME NEW t \in Tickets, NEW call \in Calls, NEW obj \in TicketObject,
             Starts(t, call, obj)
      PROVE  WorkerPlan'
  <2>1. Wt' = t /\ Obj' = obj /\ worker'.call = call /\ UNCHANGED tickets
    BY <1>3 DEF Starts, Begin, Wt, Obj, apiVars
  <2>2. obj.rv = tickets[t].rv => ticketCache[t] = tickets[t]
    BY <1>3 DEF Starts, Edited, Coherence, ReadCopy
  <2>3. call = "updateStatus" => Follows(ticketCache[t].phase, obj.phase)
    <3>1. ticketCache[t].phase \in Phases
      BY DEF TypeOK, ApiTypeOK, TicketObject
    <3> QED
      BY <1>3, <3>1 DEF Starts, Follows, PhaseMoves
  <2>4. call # "updateStatus" => obj.phase = ticketCache[t].phase
    BY <1>3 DEF Starts
  <2>5. /\ call \in {"addFinalizer", "createGuardian", "checkGuardian", "updateStatus"}
             => obj.finalizer /\ ~obj.deleting
        /\ call = "deleteGuardian" /\ ~obj.deleting => obj.finalizer
        /\ call \notin {"deleteTicket", "removeFinalizer"}
        /\ obj.deleting = ticketCache[t].deleting
    BY <1>3 DEF Starts, Edited
  <2> QED
    BY <2>1, <2>2, <2>3, <2>4, <2>5 DEF WorkerPlan
<1>4. ASSUME NEW call \in Calls, NEW obj \in TicketObject, Continues(call, obj),
             worker.call # "idle"
      PROVE  WorkerPlan'
  <2>1. worker \in [call : Calls, t : Tickets, obj : TicketObject]
    BY <1>4, WorkerTyped
  <2>2. Wt' = Wt /\ Obj' = obj /\ worker'.call = call /\ UNCHANGED tickets
    BY <1>4, <2>1 DEF Continues, Proceed, Wt, Obj
  <2>3. /\ worker.call \in {"createGuardian", "checkGuardian"}
             => Obj.finalizer /\ ~Obj.deleting /\ Obj.phase \in {"", "Pending", "Ready"}
        /\ worker.call = "deleteGuardian" /\ ~Obj.deleting => Obj.finalizer
        /\ worker.call # "updateStatus" /\ Obj.rv = tickets[Wt].rv
             => Obj.phase = tickets[Wt].phase /\ Obj.deleting = tickets[Wt].deleting
    BY <1>4 DEF LifeInv, WorkerPlan, Coherence, WorkerCopy
  <2>4. /\ worker.call \in {"createGuardian", "checkGuardian", "deleteGuardian"}
        /\ obj.rv = Obj.rv /\ obj.deleting = Obj.deleting
        /\ call \in {"addFinalizer", "createGuardian", "checkGuardian", "updateStatus"}
             => obj.finalizer /\ ~obj.deleting
        /\ call # "deleteGuardian"
        /\ call = "deleteTicket" => ~obj.deleting
        /\ call = "removeFinalizer" => obj.deleting
    BY <1>4, <2>3 DEF Continues, Edited
  <2>5. call # "updateStatus" => obj.phase = Obj.phase
    BY <1>4 DEF Continues
  <2>6. call = "updateStatus" => Follows(Obj.phase, obj.phase)
    BY <1>4, <2>3 DEF Continues, Follows, PhaseMoves
  <2> QED
    BY <2>2, <2>3, <2>4, <2>5, <2>6 DEF WorkerPlan
<1> QED
  BY <1>1, <1>2, <1>3, <1>4, StepSummary, WorkerSummary DEF vars, controllerVars, Ends

LEMMA LifeInvariant == Spec => []LifeInv
<1>1. Init => LifeInv
  <2> SUFFICES ASSUME Init PROVE LifeInv
    OBVIOUS
  <2>1. BlankTicket.phase = "" /\ BlankTicket.claimedPod = "nil"
    BY DEF BlankTicket
  <2> QED
    BY <2>1
    DEF Init, ApiInit, ControllerInit, Resting, LifeInv, PhaseNeedsFinalizer, Vacant,
        WorkerPlan
<1>2. TypeOK /\ TypeOK' /\ Coherence /\ LifeInv /\ [Next]_vars => LifeInv'
  BY TicketsLive, PlanKept DEF LifeInv
<1> QED
  BY <1>1, <1>2, Typing, CoherenceInvariant, PTL DEF Spec

------------------------------------------------------------------------------
(* What follows for the users of a ticket, and for the order side *)

\* A ticket with a phase has the finalizer, whichever copy the phase was written
\* from: no deletion leaves the guardian to itself.
THEOREM Finalized == Spec => []PhaseNeedsFinalizer
<1>1. LifeInv => PhaseNeedsFinalizer
  BY DEF LifeInv
<1> QED
  BY <1>1, LifeInvariant, PTL

\* No interleaving moves the phase of a ticket but by the PhaseMoves, which is all
\* that OrderController assumes of its tickets.
THEOREM PhasesContracted == Spec => PhaseContract
<1> DEFINE Moves == \A t \in Tickets :
                      SameTicket(t) => \/ tickets'[t].phase = tickets[t].phase
                                       \/ <<tickets[t].phase, tickets'[t].phase>> \in PhaseMoves
<1>1. TypeOK /\ Coherence /\ LifeInv /\ [Next]_vars => [Moves]_vars
  <2> SUFFICES ASSUME TypeOK, Coherence, LifeInv, [Next]_vars PROVE Moves
    OBVIOUS
  <2>1. CASE UNCHANGED tickets
    BY <2>1
  <2>2. ASSUME NEW t \in Tickets, NEW new \in TicketObject,
               tickets' = [tickets EXCEPT ![t] = new], Transition(tickets[t], new)
        PROVE  Moves
    <3>1. tickets'[t] = new /\ \A u \in Tickets \ {t} : tickets'[u] = tickets[u]
      BY <2>2 DEF TypeOK, ApiTypeOK
    <3>2. tickets[t].exists /\ new.exists
            => new.phase = tickets[t].phase \/ <<tickets[t].phase, new.phase>> \in PhaseMoves
      <4>1. <<"Ready", "Claimed">> \in PhaseMoves
        BY DEF PhaseMoves
      <4> QED
        BY <2>2, <4>1 DEF Transition, Follows
    <3> QED
      BY <3>1, <3>2 DEF SameTicket
  <2> QED
    BY <2>1, <2>2, TicketLife
<1> QED
  BY <1>1, Typing, CoherenceInvariant, LifeInvariant, PTL DEF Spec, PhaseContract

\* The deletion of a ticket with a phase is marked before it goes, and the mark stays,
\* though the worker drops the finalizer, and writes the status, from old copies.
THEOREM DeletionsMarked == Spec => DeletionContract
<1> DEFINE Marks == \A t \in Tickets :
             /\ tickets[t].exists /\ tickets[t].phase # "" /\ ~SameTicket(t) => tickets[t].deleting
             /\ SameTicket(t) /\ tickets[t].deleting => tickets'[t].deleting
<1>1. TypeOK /\ Coherence /\ LifeInv /\ [Next]_vars => [Marks]_vars
  <2> SUFFICES ASSUME TypeOK, Coherence, LifeInv, [Next]_vars PROVE Marks
    OBVIOUS
  <2>1. CASE UNCHANGED tickets
    BY <2>1 DEF SameTicket
  <2>2. ASSUME NEW t \in Tickets, NEW new \in TicketObject,
               tickets' = [tickets EXCEPT ![t] = new], Transition(tickets[t], new)
        PROVE  Marks
    <3>1. tickets'[t] = new /\ \A u \in Tickets \ {t} : tickets'[u] = tickets[u]
      BY <2>2 DEF TypeOK, ApiTypeOK
    <3> QED
      BY <2>2, <3>1 DEF Transition, SameTicket, LifeInv, PhaseNeedsFinalizer
  <2> QED
    BY <2>1, <2>2, TicketLife
<1> QED
  BY <1>1, Typing, CoherenceInvariant, LifeInvariant, PTL DEF Spec, DeletionContract

\* The ticket side implements the contract: for any number of tickets, pods and
\* faults, what its users see is a behaviour of Reservation.
THEOREM Implements == Spec => ReservationContract
<1>1. Init => Contract!Init
  <2> SUFFICES ASSUME Init PROVE Contract!Init
    OBVIOUS
  <2>1. StageOf(BlankTicket) = "absent" /\ BlankTicket.claimedPod = "nil"
    BY DEF StageOf, BlankTicket
  <2> QED
    BY <2>1 DEF Init, ApiInit, Contract!Init
<1>2. TypeOK /\ Coherence /\ LifeInv /\ [Next]_vars => [Contract!Next]_(Contract!vars)
  <2> SUFFICES ASSUME TypeOK, Coherence, LifeInv, [Next]_vars
               PROVE  [Contract!Next]_(Contract!vars)
    OBVIOUS
  <2>1. CASE UNCHANGED tickets
    BY <2>1 DEF Contract!vars
  <2>2. ASSUME NEW t \in Tickets, NEW new \in TicketObject,
               tickets' = [tickets EXCEPT ![t] = new], Transition(tickets[t], new)
        PROVE  [Contract!Next]_(Contract!vars)
    <3> DEFINE stage == [u \in Tickets |-> StageOf(tickets[u])]
               holder == [u \in Tickets |-> tickets[u].claimedPod]
    <3>1. tickets' = [u \in Tickets |-> IF u = t THEN new ELSE tickets[u]]
      BY <2>2 DEF TypeOK, ApiTypeOK
    <3>2. /\ stage' = [stage EXCEPT ![t] = StageOf(new)]
          /\ holder' = [holder EXCEPT ![t] = new.claimedPod]
      BY <3>1
    <3>3. tickets[t] \in TicketObject /\ stage[t] = StageOf(tickets[t])
          /\ holder[t] = tickets[t].claimedPod
      BY VersionsTyped
    <3>4. ~tickets[t].exists => tickets[t].claimedPod = "nil"
      BY DEF LifeInv, Vacant
    <3>5. ASSUME new.claimedPod = tickets[t].claimedPod PROVE holder' = holder
      BY <3>2, <3>5
    <3>6. ASSUME StageOf(new) = StageOf(tickets[t]) PROVE stage' = stage
      BY <3>2, <3>6
    <3>7. CASE ~tickets[t].exists
      <4>1. StageOf(tickets[t]) = "absent" /\ StageOf(new) = "new"
        BY <2>2, <3>7 DEF Transition, StageOf
      <4>2. Contract!Issue(t)
        BY <2>2, <3>2, <3>3, <3>4, <3>5, <3>7, <4>1
        DEF Transition, Contract!Issue, Contract!Move
      <4> QED
        BY <4>2 DEF Contract!Next
    <3>8. CASE tickets[t].exists /\ ~new.exists
      <4>1. StageOf(new) = "absent" /\ StageOf(tickets[t]) \in Contract!Stages \ {"absent"}
        BY <3>8 DEF StageOf, Contract!Stages
      <4>2. Contract!Withdraw(t)
        BY <2>2, <3>2, <3>3, <3>8, <4>1
        DEF Transition, Contract!Withdraw, Contract!Move
      <4> QED
        BY <4>2 DEF Contract!Next
    <3>9. CASE /\ tickets[t].exists /\ new.exists
               /\ tickets[t].phase = "Ready" /\ new.phase = "Claimed"
      <4>1. StageOf(tickets[t]) = "ready" /\ StageOf(new) = "claimed"
        BY <3>9 DEF StageOf
      <4>2. new.claimedPod \in Pods
        BY <2>2, <3>9 DEF Transition, Follows
      <4>3. Contract!Claim(t, new.claimedPod)
        BY <3>2, <3>3, <4>1 DEF Contract!Claim, Contract!Move
      <4> QED
        BY <4>2, <4>3 DEF Contract!Next
    <3>10. CASE /\ tickets[t].exists /\ new.exists
                /\ ~(tickets[t].phase = "Ready" /\ new.phase = "Claimed")
      <4>1. /\ Follows(tickets[t].phase, new.phase)
            /\ new.claimedPod = tickets[t].claimedPod
        BY <2>2, <3>10 DEF Transition
      <4>2. \/ StageOf(new) = StageOf(tickets[t])
            \/ StageOf(tickets[t]) = "new" /\ StageOf(new) = "ready"
            \/ StageOf(tickets[t]) = "ready" /\ StageOf(new) = "new"
            \/ /\ StageOf(tickets[t]) \in {"new", "ready", "claimed"}
               /\ StageOf(new) = "lapsed"
        BY <3>3, <3>10, <4>1 DEF Follows, PhaseMoves, Phases, StageOf
      <4>3. holder' = holder
        BY <3>5, <4>1
      <4>4. CASE StageOf(new) = StageOf(tickets[t])
        BY <3>6, <4>3, <4>4 DEF Contract!vars
      <4>5. CASE StageOf(tickets[t]) = "new" /\ StageOf(new) = "ready"
        BY <3>2, <3>3, <4>3, <4>5 DEF Contract!Next, Contract!Activate, Contract!Move
      <4>6. CASE StageOf(tickets[t]) = "ready" /\ StageOf(new) = "new"
        BY <3>2, <3>3, <4>3, <4>6 DEF Contract!Next, Contract!Suspend, Contract!Move
      <4>7. CASE /\ StageOf(tickets[t]) \in {"new", "ready", "claimed"}
                 /\ StageOf(new) = "lapsed"
        BY <3>2, <3>3, <4>3, <4>7 DEF Contract!Next, Contract!Lapse, Contract!Move
      <4> QED
        BY <4>2, <4>4, <4>5, <4>6, <4>7
    <3> QED
      BY <3>7, <3>8, <3>9, <3>10
  <2> QED
    BY <2>1, <2>2, TicketLife
<1> QED
  BY <1>1, <1>2, Typing, CoherenceInvariant, LifeInvariant, PTL
  DEF Spec, ReservationContract, Contract!Spec
==============================================================================
