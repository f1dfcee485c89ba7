-------------------------- MODULE TicketSystemProofs --------------------------
(***************************************************************************)
(* Theorems about TicketSystem, for any set of tickets, pods and nodes and *)
(* any bounds.                                                             *)
(***************************************************************************)
EXTENDS TicketSystem, TLAPS

------------------------------------------------------------------------------
(* Typing *)

\* The object that stands for an unused ticket name is a ticket object.
LEMMA BlankTyped == BlankTicket \in TicketObject
  BY DEF BlankTicket, TicketObject, Phases, Notes

\* Every way the handlers edit a copy of a ticket keeps its type.
LEMMA EditsTyped ==
  ASSUME NEW obj \in TicketObject
  PROVE  /\ Removed(obj) \in TicketObject
         /\ MarkDeleted(obj) \in TicketObject
         /\ Activating(obj) \in TicketObject
         /\ [obj EXCEPT !.finalizer = TRUE] \in TicketObject
         /\ [obj EXCEPT !.finalizer = FALSE] \in TicketObject
         /\ [obj EXCEPT !.guardianRef = FALSE] \in TicketObject
  BY DEF Removed, MarkDeleted, Activating, BlankTicket, TicketObject, Phases, Notes

LEMMA StatusTyped ==
  ASSUME NEW obj \in TicketObject, NEW phase \in Phases, NEW note \in Notes
  PROVE  WithStatus(obj, phase, note) \in TicketObject
  BY DEF WithStatus, TicketObject

\* What a status update leaves alone.
LEMMA StatusKeeps ==
  ASSUME NEW obj \in TicketObject, NEW phase \in Phases, NEW note \in Notes
  PROVE  /\ WithStatus(obj, phase, note) \in TicketObject
         /\ WithStatus(obj, phase, note).exists = obj.exists
         /\ WithStatus(obj, phase, note).rv = obj.rv
         /\ WithStatus(obj, phase, note).uid = obj.uid
         /\ WithStatus(obj, phase, note).claimedPod = obj.claimedPod
         /\ WithStatus(obj, phase, note).phase = phase
<1>1. WithStatus(obj, phase, note) \in TicketObject
  BY StatusTyped
<1> QED
  BY <1>1 DEF WithStatus, TicketObject

\* A worker that is not idle works on a ticket.
LEMMA WorkerTyped ==
  ASSUME TypeOK, worker.call # "idle"
  PROVE  /\ worker \in [call : Calls, t : Tickets, obj : TicketObject]
         /\ Wt \in Tickets /\ Obj \in TicketObject
<1>1. worker \in [call : Calls, t : Tickets, obj : TicketObject]
  BY DEF TypeOK, ControllerTypeOK, WorkerState, Resting
<1> QED
  BY <1>1 DEF Wt, Obj

\* A write to the API server keeps the type of the stored tickets.
LEMMA StoreTyped ==
  ASSUME ApiTypeOK, NEW t \in Tickets, NEW obj \in TicketObject, Store(t, obj)
  PROVE  tickets' \in [Tickets -> TicketObject]
<1>1. NextRv(t, obj) \in Nat
  <2>1. tickets[t].rv \in Nat
    BY DEF ApiTypeOK, TicketObject
  <2> QED
    BY <2>1 DEF NextRv
<1>2. [obj EXCEPT !.rv = NextRv(t, obj)] \in TicketObject
  BY <1>1 DEF TicketObject
<1> QED
  BY <1>2 DEF ApiTypeOK, Store

LEMMA GuardianTyped ==
  ASSUME NEW g \in GuardianObject
  PROVE  PodDeleted(g) \in GuardianObject
  BY DEF PodDeleted, GuardianObject, NoGuardian

LEMMA FaultTyped == ASSUME ApiTypeOK, Fault PROVE faults' \in 0..MaxFaults
<1>1. faults \in 0..MaxFaults
  BY DEF ApiTypeOK
<1> QED
  BY <1>1, BoundAssumption DEF Fault

\* The environment keeps the API server well typed.
LEMMA EnvTyped ==
  ASSUME TypeOK, NEW t \in Tickets, EnvTicketStep(t),
         UNCHANGED <<controllerVars, podVars>>
  PROVE  TypeOK'
<1>1. tickets[t] \in TicketObject /\ guardians[t] \in GuardianObject
  BY DEF TypeOK, ApiTypeOK
<1>2. ControllerTypeOK' /\ PodTypeOK'
  BY DEF TypeOK, ControllerTypeOK, PodTypeOK, controllerVars, podVars
<1>3. ASSUME Fault PROVE faults' \in 0..MaxFaults
  BY <1>3, FaultTyped DEF TypeOK
<1>4. CASE CreateTicket(t)
  <2>1. tickets[t].uid + 1 \in Nat
    <3>1. tickets[t].uid \in Nat
      BY <1>1 DEF TicketObject
    <3> QED
      BY <3>1
  <2>2. [BlankTicket EXCEPT !.exists = TRUE, !.uid = tickets[t].uid + 1] \in TicketObject
    BY <2>1, BlankTyped DEF TicketObject
  <2> QED
    BY <1>2, <1>4, <2>2, StoreTyped DEF CreateTicket, TypeOK, ApiTypeOK
<1>5. CASE DeleteTicket(t)
  BY <1>1, <1>2, <1>5, StoreTyped, EditsTyped DEF DeleteTicket, TypeOK, ApiTypeOK
<1>6. CASE EditTicket(t)
  <2>1. [tickets[t] EXCEPT !.rv = @ + 1] \in TicketObject
    <3>1. tickets[t].rv \in Nat
      BY <1>1 DEF TicketObject
    <3>2. tickets[t].rv + 1 \in Nat
      BY <3>1
    <3> QED
      BY <1>1, <3>2 DEF TicketObject
  <2> QED
    BY <1>2, <1>3, <1>6, <2>1 DEF EditTicket, TypeOK, ApiTypeOK
<1>7. CASE WindowElapses(t)
  <2>1. tickets[t].uid \in Nat
    BY <1>1 DEF TicketObject
  <2> QED
    BY <1>2, <1>7, <2>1 DEF WindowElapses, TypeOK, ApiTypeOK
<1>8. ASSUME NEW g \in GuardianObject, GuardianStep(t, g), faults' \in 0..MaxFaults
      PROVE  TypeOK'
  BY <1>2, <1>8 DEF GuardianStep, TypeOK, ApiTypeOK
<1>9. faults \in 0..MaxFaults
  BY DEF TypeOK, ApiTypeOK
<1>10. ASSUME NEW n \in Nodes, ScheduleGuardian(t, n) PROVE TypeOK'
  <2>1. [guardians[t] EXCEPT !.node = n] \in GuardianObject
    BY <1>1 DEF GuardianObject
  <2> QED
    BY <1>8, <1>9, <1>10, <2>1 DEF ScheduleGuardian
<1>11. CASE StartGuardian(t)
  <2>1. [guardians[t] EXCEPT !.phase = "Running"] \in GuardianObject
    BY <1>1 DEF GuardianObject
  <2> QED
    BY <1>8, <1>9, <1>11, <2>1 DEF StartGuardian
<1>12. CASE EvictGuardian(t)
  BY <1>1, <1>3, <1>8, <1>12, GuardianTyped DEF EvictGuardian
<1>13. CASE FailGuardian(t)
  <2>1. [guardians[t] EXCEPT !.phase = "Failed"] \in GuardianObject
    BY <1>1 DEF GuardianObject
  <2> QED
    BY <1>3, <1>8, <1>13, <2>1 DEF FailGuardian
<1>14. CASE FinishGuardian(t)
  <2>1. NoGuardian \in GuardianObject
    BY DEF NoGuardian, GuardianObject
  <2> QED
    BY <1>8, <1>9, <1>14, <2>1 DEF FinishGuardian
<1>15. CASE CollectGuardian(t)
  BY <1>1, <1>8, <1>9, <1>15, GuardianTyped DEF CollectGuardian
<1> QED
  BY <1>4, <1>5, <1>6, <1>7, <1>10, <1>11, <1>12, <1>13, <1>14, <1>15
  DEF EnvTicketStep

\* Reading the caches and calling the API server, the controller keeps every
\* type.
LEMMA ControllerTyped ==
  ASSUME TypeOK, ControllerStep, UNCHANGED podVars
  PROVE  TypeOK'
<1>1. PodTypeOK'
  BY DEF TypeOK, PodTypeOK, podVars
<1>2. ASSUME UNCHANGED apiVars PROVE ApiTypeOK'
  BY <1>2 DEF TypeOK, ApiTypeOK, apiVars
<1>3. ASSUME NEW t \in Tickets, NEW call \in Calls, NEW obj \in TicketObject,
             Begin(t, call, obj)
      PROVE  TypeOK'
  BY <1>1, <1>2, <1>3 DEF Begin, TypeOK, ControllerTypeOK, WorkerState
<1>4. ASSUME worker.call # "idle", Requeue PROVE ControllerTypeOK'
  BY <1>4 DEF Requeue, TypeOK, ControllerTypeOK, WorkerState, Resting
<1>5. ASSUME Return PROVE ControllerTypeOK'
  BY <1>5 DEF Return, TypeOK, ControllerTypeOK, WorkerState
<1>6. ASSUME worker.call # "idle", NEW call \in Calls, NEW obj \in TicketObject,
             Proceed(call, obj)
      PROVE  ControllerTypeOK'
  <2>1. worker \in [call : Calls, t : Tickets, obj : TicketObject]
    BY <1>6 DEF TypeOK, ControllerTypeOK, WorkerState, Resting
  <2>2. worker' \in [call : Calls, t : Tickets, obj : TicketObject]
    BY <1>6, <2>1 DEF Proceed
  <2> QED
    BY <1>6, <2>2 DEF Proceed, TypeOK, ControllerTypeOK, WorkerState
<1>7. ASSUME worker.call # "idle" PROVE Wt \in Tickets /\ Obj \in TicketObject
  BY <1>7 DEF TypeOK, ControllerTypeOK, WorkerState, Resting, Wt, Obj
<1>8. ASSUME NEW t \in Tickets
      PROVE  /\ ticketCache[t] \in TicketObject /\ guardianCache[t] \in GuardianObject
             /\ tickets[t] \in TicketObject /\ guardians[t] \in GuardianObject
  BY DEF TypeOK, ApiTypeOK
<1>9. ASSUME NEW t \in Tickets, DeliverTicket(t) \/ DeliverGuardian(t) \/ Resync(t)
      PROVE  TypeOK'
  <2>1. CASE DeliverTicket(t)
    BY <1>1, <1>8, <2>1 DEF DeliverTicket, TypeOK, ApiTypeOK, ControllerTypeOK
  <2>2. CASE DeliverGuardian(t)
    BY <1>1, <1>8, <2>2 DEF DeliverGuardian, TypeOK, ApiTypeOK, ControllerTypeOK
  <2>3. CASE Resync(t)
    BY <1>1, <1>2, <2>3 DEF Resync, TypeOK, ControllerTypeOK
  <2> QED
    BY <1>9, <2>1, <2>2, <2>3
<1>10. ASSUME NEW t \in Tickets, ReconcileStart(t) PROVE TypeOK'
  <2>1. CASE ReconcileGone(t)
    BY <1>1, <1>2, <2>1 DEF ReconcileGone, TypeOK, ControllerTypeOK
  <2>2. CASE ReconcileDeleting(t)
    BY <1>3, <1>8, <2>2 DEF ReconcileDeleting, Calls
  <2>3. CASE ReconcileUnfinalized(t)
    BY <1>3, <1>8, <2>3, EditsTyped DEF ReconcileUnfinalized, Calls
  <2>4. CASE ReconcileExpiring(t)
    BY <1>3, <1>8, <2>4, StatusTyped DEF ReconcileExpiring, Calls, Phases, Notes
  <2>5. CASE ReconcilePending(t)
    BY <1>3, <1>8, <2>5, EditsTyped DEF ReconcilePending, Calls
  <2>6. CASE ReconcileReady(t)
    BY <1>3, <1>8, <2>6 DEF ReconcileReady, Calls
  <2>7. CASE ReconcileClaimed(t)
    BY <1>3, <1>8, <2>7 DEF ReconcileClaimed, Calls
  <2>8. CASE ReconcileExpired(t)
    BY <1>3, <1>8, <2>8 DEF ReconcileExpired, Calls
  <2> QED
    BY <1>10, <2>1, <2>2, <2>3, <2>4, <2>5, <2>6, <2>7, <2>8 DEF ReconcileStart
<1>11. ASSUME WorkerStep PROVE TypeOK'
  <2>1. worker.call # "idle" /\ Wt \in Tickets /\ Obj \in TicketObject
    BY <1>7, <1>11
    DEF WorkerStep, AddFinalizer, CreateGuardian, GuardianAlreadyExists,
        GuardianCreateFails, GuardianNotFound, GuardianFound, UpdateStatus,
        UpdateStatusConflict, DeleteForDeletion, DeleteForClaimed,
        DeleteForExpired, GuardianDeletion, DeleteExpiredTicket,
        RemoveFinalizer, CallFails
  <2>2. NewGuardian \in GuardianObject
    BY <2>1, PinAssumption DEF NewGuardian, GuardianObject, TicketObject
  <2>3. ActivatedStatus(Obj) \in TicketObject
    <3>1. WithStatus(Obj, "Ready", "Activated") \in TicketObject
      BY <2>1, StatusTyped DEF Phases, Notes
    <3> QED
      BY <2>1, <3>1, PinAssumption DEF ActivatedStatus, TicketObject
  <2>4. ASSUME NEW obj \in TicketObject, Store(Wt, obj)
        PROVE  tickets' \in [Tickets -> TicketObject]
    BY <2>1, <2>4, StoreTyped DEF TypeOK
  <2>5. ASSUME GuardianDeletion PROVE ApiTypeOK'
    BY <1>8, <2>1, <2>5, GuardianTyped DEF GuardianDeletion, TypeOK, ApiTypeOK
  <2>6. CASE AddFinalizer
    BY <1>1, <1>4, <2>1, <2>4, <2>6 DEF AddFinalizer, TypeOK, ApiTypeOK
  <2>7. CASE CreateGuardian
    BY <1>1, <1>6, <2>1, <2>2, <2>3, <2>7 DEF CreateGuardian, TypeOK, ApiTypeOK, Calls
  <2>8. CASE GuardianAlreadyExists
    BY <1>1, <1>2, <1>4, <1>6, <2>1, <2>8 DEF GuardianAlreadyExists, TypeOK, Calls
  <2>9. CASE GuardianCreateFails
    <3>1. WithStatus(Obj, "Pending", "CreateFailed") \in TicketObject
      BY <2>1, StatusTyped DEF Phases, Notes
    <3>2. ControllerTypeOK'
      BY <1>6, <2>1, <2>9, <3>1 DEF GuardianCreateFails, Calls
    <3>3. faults' \in 0..MaxFaults
      BY <2>9, FaultTyped DEF GuardianCreateFails, TypeOK
    <3> QED
      BY <1>1, <2>1, <2>2, <2>9, <3>2, <3>3 DEF GuardianCreateFails, TypeOK, ApiTypeOK
  <2>10. CASE GuardianNotFound
    BY <1>1, <1>2, <1>6, <2>1, <2>10, EditsTyped DEF GuardianNotFound, TypeOK, Calls
  <2>11. CASE GuardianFound
    <3> DEFINE pod == guardianCache[Wt]
               seen == IF pod.node # "" THEN [Obj EXCEPT !.node = pod.node] ELSE Obj
    <3>1. pod.node \in Nodes \cup {""}
      BY <1>8, <2>1 DEF GuardianObject
    <3>2. seen \in TicketObject
      BY <2>1, <3>1 DEF TicketObject
    <3>3. WithStatus(seen, "Ready", "Running") \in TicketObject
      BY <3>2, StatusTyped DEF Phases, Notes
    <3> QED
      BY <1>1, <1>2, <1>4, <1>6, <2>1, <2>11, <3>3 DEF GuardianFound, TypeOK, Calls
  <2>12. CASE UpdateStatus
    BY <1>1, <1>5, <2>1, <2>4, <2>12 DEF UpdateStatus, TypeOK, ApiTypeOK
  <2>13. CASE UpdateStatusConflict
    BY <1>1, <1>2, <1>4, <2>1, <2>13 DEF UpdateStatusConflict, TypeOK
  <2>14. CASE DeleteForDeletion
    BY <1>1, <1>6, <2>1, <2>5, <2>14, EditsTyped DEF DeleteForDeletion, TypeOK, Calls
  <2>15. CASE DeleteForClaimed
    <3>1. WithStatus([Obj EXCEPT !.guardianRef = FALSE], "Claimed", "Claimed") \in TicketObject
      BY <2>1, EditsTyped, StatusTyped DEF Phases, Notes
    <3> QED
      BY <1>1, <1>6, <2>1, <2>5, <2>15, <3>1 DEF DeleteForClaimed, TypeOK, Calls
  <2>16. CASE DeleteForExpired
    <3>1. WithStatus(Obj, "Expired", "Retained") \in TicketObject
      BY <2>1, StatusTyped DEF Phases, Notes
    <3> QED
      BY <1>1, <1>4, <1>6, <2>1, <2>5, <2>16, <3>1 DEF DeleteForExpired, TypeOK, Calls
  <2>17. CASE DeleteExpiredTicket
    BY <1>1, <1>5, <1>8, <2>1, <2>4, <2>17, EditsTyped
    DEF DeleteExpiredTicket, TypeOK, ApiTypeOK
  <2>18. CASE RemoveFinalizer
    BY <1>1, <1>4, <1>5, <2>1, <2>4, <2>18, EditsTyped
    DEF RemoveFinalizer, TypeOK, ApiTypeOK
  <2>19. CASE CallFails
    <3>1. faults' \in 0..MaxFaults
      BY <2>19, FaultTyped DEF CallFails, TypeOK
    <3> QED
      BY <1>1, <1>4, <2>1, <2>19, <3>1 DEF CallFails, TypeOK, ApiTypeOK
  <2> QED
    BY <1>11, <2>6, <2>7, <2>8, <2>9, <2>10, <2>11, <2>12, <2>13, <2>14, <2>15,
       <2>16, <2>17, <2>18, <2>19
    DEF WorkerStep
<1> QED
  BY <1>9, <1>10, <1>11 DEF ControllerStep

\* The webhooks, the API server's decision and the pods' users keep every type.
LEMMA PodTyped ==
  ASSUME TypeOK, NEW p \in Pods, PodStep(p), UNCHANGED controllerVars
  PROVE  TypeOK'
<1>1. ControllerTypeOK'
  BY DEF TypeOK, ControllerTypeOK, controllerVars
<1>2. ASSUME UNCHANGED apiVars PROVE ApiTypeOK'
  BY <1>2 DEF TypeOK, ApiTypeOK, apiVars
<1>3. ASSUME Fault \/ UNCHANGED faults,
             UNCHANGED <<tickets, ticketCache, guardians, guardianCache, pastWindow>>
      PROVE  ApiTypeOK'
  <2>1. faults' \in 0..MaxFaults
    BY <1>3, FaultTyped DEF TypeOK, ApiTypeOK
  <2> QED
    BY <1>3, <2>1 DEF TypeOK, ApiTypeOK
<1>4. /\ pods[p] \in PodObject /\ admissions[p] \in Admission
      /\ NoAdmission \in Admission /\ BlankPod \in PodObject
  BY BlankTyped DEF TypeOK, PodTypeOK, NoAdmission, BlankPod, Admission, PodObject, NoTicket
<1>5. ASSUME NEW a \in Admission, admissions' = [admissions EXCEPT ![p] = a],
             UNCHANGED pods
      PROVE  PodTypeOK'
  BY <1>5 DEF TypeOK, PodTypeOK
<1>6. ASSUME NEW op \in {"create", "update", "discard"}, NEW pod \in PodObject,
             Find(p, op, pod)
      PROVE  PodTypeOK'
  <2>1. CASE BestTickets(p) = {} /\ admissions' = [admissions EXCEPT ![p] =
                [NoAdmission EXCEPT !.step = "decide", !.op = op, !.pod = pod]]
    <3>1. [NoAdmission EXCEPT !.step = "decide", !.op = op, !.pod = pod] \in Admission
      BY <1>4 DEF Admission
    <3> QED
      BY <1>5, <1>6, <2>1, <3>1 DEF Find
  <2>2. ASSUME NEW t \in BestTickets(p),
               admissions' = [admissions EXCEPT ![p] =
                [step |-> "bind", op |-> op, pod |-> pod, t |-> t,
                 copy |-> ticketCache[t]]]
        PROVE  PodTypeOK'
    <3>1. t \in Tickets /\ ticketCache[t].node # "nil"
      BY <2>2, WantsAssumption DEF BestTickets, Matching, Available
    <3>2. [step |-> "bind", op |-> op, pod |-> pod, t |-> t,
           copy |-> ticketCache[t]] \in Admission
      BY <3>1 DEF Admission, TypeOK, ApiTypeOK
    <3> QED
      BY <1>5, <1>6, <2>2, <3>2 DEF Find
  <2> QED
    BY <1>6, <2>1, <2>2 DEF Find
<1>7. CASE SubmitCreate(p)
  BY <1>1, <1>3, <1>4, <1>6, <1>7 DEF SubmitCreate, Find, TypeOK
<1>8. CASE SubmitDryRun(p)
  BY <1>1, <1>3, <1>4, <1>6, <1>8 DEF SubmitDryRun, Find, TypeOK
<1>9. CASE SubmitUpdate(p)
  BY <1>1, <1>3, <1>4, <1>6, <1>9 DEF SubmitUpdate, Find, TypeOK
<1> DEFINE a == admissions[p]
<1>10. ASSUME NEW pod \in PodObject
       PROVE  [NoAdmission EXCEPT !.step = "decide", !.op = a.op, !.pod = pod] \in Admission
  BY <1>4 DEF Admission
<1>11. ASSUME a.step = "bind"
       PROVE  /\ a.t \in Tickets /\ a.copy \in TicketObject
              /\ Claimed(a.copy, p) \in TicketObject
              /\ Mutated(a.pod, a.t, a.copy) \in PodObject
  <2>1. a.t \in Tickets /\ a.copy \in TicketObject /\ a.copy.node # "nil" /\ a.pod \in PodObject
    BY <1>4, <1>11 DEF Admission
  <2>2. a.copy.node \in Nodes \cup {""}
    BY <2>1 DEF TicketObject
  <2>3. Mutated(a.pod, a.t, a.copy) \in PodObject
    BY <2>1, <2>2 DEF Mutated, PodObject
  <2>4. Claimed(a.copy, p) \in TicketObject
    BY <2>1 DEF Claimed, TicketObject, Phases
  <2> QED
    BY <2>1, <2>3, <2>4
<1>12. CASE Bind(p)
  <2> DEFINE pod == [Mutated(a.pod, a.t, a.copy) EXCEPT !.bound = @ \cup {<<a.t, a.copy.uid>>}]
  <2>1. a.step = "bind"
    BY <1>12 DEF Bind
  <2>2. a.copy.uid \in Nat
    BY <1>11, <2>1 DEF TicketObject
  <2>3. pod \in PodObject
    <3>1. ASSUME NEW m \in PodObject, NEW b \in Tickets \X Nat
          PROVE  [m EXCEPT !.bound = @ \cup {b}] \in PodObject
      BY DEF PodObject
    <3> QED
      BY <1>11, <2>1, <2>2, <3>1
  <2>4. PodTypeOK'
    BY <1>5, <1>10, <1>12, <2>3 DEF Bind
  <2>5. tickets' \in [Tickets -> TicketObject]
    BY <1>11, <1>12, <2>1, StoreTyped DEF Bind, TypeOK
  <2> QED
    BY <1>1, <1>12, <2>4, <2>5 DEF Bind, TypeOK, ApiTypeOK
<1>13. CASE BindFails(p)
  <2>1. PodTypeOK'
    BY <1>5, <1>10, <1>11, <1>13 DEF BindFails
  <2> QED
    BY <1>1, <1>3, <1>13, <2>1 DEF BindFails, TypeOK
<1>14. CASE Decide(p)
  <2>1. [admissions[p].pod EXCEPT !.exists = TRUE] \in PodObject
    BY <1>4 DEF Admission, PodObject
  <2> QED
    BY <1>1, <1>2, <1>4, <1>14, <2>1 DEF Decide, TypeOK, PodTypeOK
<1>15. ASSUME admissions' = [admissions EXCEPT ![p].op = "discard"]
       PROVE  admissions' \in [Pods -> Admission]
  <2>1. [admissions[p] EXCEPT !.op = "discard"] \in Admission
    BY <1>4 DEF Admission
  <2> QED
    BY <1>15, <2>1 DEF TypeOK, PodTypeOK
<1>16. CASE TimeOut(p)
  BY <1>1, <1>3, <1>15, <1>16 DEF TimeOut, TypeOK, PodTypeOK
<1>17. ASSUME NEW n \in Nodes, SchedulePod(p, n) PROVE TypeOK'
  <2>1. [pods[p] EXCEPT !.node = n] \in PodObject
    BY <1>4 DEF PodObject
  <2> QED
    BY <1>1, <1>2, <1>15, <1>17, <2>1 DEF SchedulePod, TypeOK, PodTypeOK
<1>18. CASE DeletePod(p)
  BY <1>1, <1>3, <1>4, <1>15, <1>18 DEF DeletePod, TypeOK, PodTypeOK
<1> QED
  BY <1>7, <1>8, <1>9, <1>12, <1>13, <1>14, <1>16, <1>17, <1>18 DEF PodStep

LEMMA InitTyped == Init => TypeOK
<1> SUFFICES ASSUME Init PROVE TypeOK
  OBVIOUS
<1>1. NoGuardian \in GuardianObject /\ BlankPod \in PodObject /\ NoAdmission \in Admission
  BY BlankTyped
  DEF NoGuardian, GuardianObject, BlankPod, PodObject, NoAdmission, Admission, NoTicket
<1>2. 0 \in 0..MaxFaults
  BY BoundAssumption
<1>3. ApiTypeOK
  BY <1>1, <1>2, BlankTyped DEF Init, ApiInit, ApiTypeOK
<1> QED
  BY <1>1, <1>3
  DEF Init, TypeOK, ControllerInit, ControllerTypeOK, WorkerState, PodInit, PodTypeOK

LEMMA StepTyped == TypeOK /\ [Next]_vars => TypeOK'
<1> SUFFICES ASSUME TypeOK, [Next]_vars PROVE TypeOK'
  OBVIOUS
<1>1. CASE Restart
  <2>1. faults' \in 0..MaxFaults
    BY <1>1, FaultTyped DEF Restart, TypeOK
  <2>2. NoAdmission \in Admission
    BY BlankTyped DEF NoAdmission, Admission, BlankPod, PodObject, NoTicket
  <2> QED
    BY <1>1, <2>1, <2>2
    DEF Restart, TypeOK, ApiTypeOK, ControllerTypeOK, WorkerState, PodTypeOK
<1>2. CASE UNCHANGED vars
  BY <1>2 DEF vars, apiVars, controllerVars, podVars, TypeOK, ApiTypeOK,
              ControllerTypeOK, PodTypeOK
<1> QED
  BY <1>1, <1>2, EnvTyped, ControllerTyped, PodTyped DEF Next

\* Every variable always has its type, whatever the instance.
THEOREM Typing == Spec => []TypeOK
  BY InitTyped, StepTyped, PTL DEF Spec
==============================================================================
