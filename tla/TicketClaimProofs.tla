-------------------------- MODULE TicketClaimProofs --------------------------
(***************************************************************************)
(* Why a claim is for life.  The proof follows the resourceVersions: every *)
(* step lets a ticket advance in a way that respects an earlier claim,     *)
(* because the copies that the steps write are coherent (Coherence), and   *)
(* they stay coherent because tickets only advance.                        *)
(***************************************************************************)
EXTENDS TicketSystemProofs

\* What a step may do to a ticket: nothing, or write it under a higher
\* resourceVersion without taking back a claim.
Advances(t) ==
    \/ tickets'[t] = tickets[t]
    \/ /\ tickets'[t].rv > tickets[t].rv
       /\ tickets'[t].uid >= tickets[t].uid
       /\ Settled(tickets'[t])
       /\ SameTicket(t) /\ tickets[t].claimedPod # "nil"
            => tickets'[t].claimedPod = tickets[t].claimedPod
       /\ tickets'[t].exists /\ ~tickets[t].exists
            => tickets'[t].uid > tickets[t].uid

LEMMA VersionsTyped ==
  ASSUME TypeOK, NEW t \in Tickets
  PROVE  tickets[t] \in TicketObject /\ tickets[t].rv \in Nat /\ tickets[t].uid \in Nat
<1>1. tickets[t] \in TicketObject
  BY DEF TypeOK, ApiTypeOK
<1> QED
  BY <1>1 DEF TicketObject

\* Writing an object that keeps the claim lets the ticket advance.
LEMMA StoreAdvances ==
  ASSUME TypeOK, NEW t \in Tickets, NEW obj \in TicketObject, Store(t, obj),
         obj.uid >= tickets[t].uid, Settled(obj),
         obj.exists /\ tickets[t].exists /\ obj.uid = tickets[t].uid
           /\ tickets[t].claimedPod # "nil" => obj.claimedPod = tickets[t].claimedPod,
         obj.exists /\ ~tickets[t].exists => obj.uid > tickets[t].uid
  PROVE  \A u \in Tickets : Advances(u)
<1> DEFINE new == [obj EXCEPT !.rv = NextRv(t, obj)]
<1>1. tickets' = [tickets EXCEPT ![t] = new]
  BY DEF Store
<1>2. ASSUME NEW u \in Tickets, u # t PROVE Advances(u)
  BY <1>1, <1>2 DEF Advances, TypeOK, ApiTypeOK
<1>3. tickets'[t] = new
  BY <1>1 DEF TypeOK, ApiTypeOK
<1>4. CASE [obj EXCEPT !.rv = tickets[t].rv] = tickets[t]
  BY <1>2, <1>3, <1>4 DEF NextRv, Advances
<1>5. CASE [obj EXCEPT !.rv = tickets[t].rv] # tickets[t]
  <2>1. NextRv(t, obj) = tickets[t].rv + 1
    BY <1>5 DEF NextRv
  <2>2. /\ new.rv = tickets[t].rv + 1 /\ new.uid = obj.uid /\ new.exists = obj.exists
        /\ new.claimedPod = obj.claimedPod /\ new.phase = obj.phase
    BY <2>1 DEF TicketObject
  <2>3. tickets'[t].rv > tickets[t].rv
    BY <1>3, <2>2, VersionsTyped
  <2>4. Advances(t)
    BY <1>3, <2>2, <2>3 DEF Advances, Settled, SameTicket
  <2> QED
    BY <1>2, <2>4
<1> QED
  BY <1>4, <1>5

\* A step that leaves the tickets alone lets all of them advance.
LEMMA StutterAdvances == UNCHANGED tickets => \A t \in Tickets : Advances(t)
  BY DEF Advances

\* A deletion keeps what there is of a ticket, or ends it.
LEMMA DeletionAdvances ==
  ASSUME TypeOK, Coherence, NEW t \in Tickets, Store(t, MarkDeleted(tickets[t])),
         tickets[t].exists
  PROVE  \A u \in Tickets : Advances(u)
<1> DEFINE obj == MarkDeleted(tickets[t])
<1>1. obj \in TicketObject
  BY VersionsTyped, EditsTyped
<1>2. /\ obj.uid = tickets[t].uid /\ Settled(obj)
      /\ obj.exists => obj.claimedPod = tickets[t].claimedPod
  BY VersionsTyped DEF MarkDeleted, Removed, BlankTicket, TicketObject, Coherence, Settled
<1> HIDE DEF obj
<1> QED
  BY <1>1, <1>2, VersionsTyped, StoreAdvances DEF obj

LEMMA EnvAdvances ==
  ASSUME TypeOK, Coherence, NEW t \in Tickets, EnvTicketStep(t)
  PROVE  \A u \in Tickets : Advances(u)
<1>1. tickets[t] \in TicketObject /\ tickets[t].rv \in Nat /\ tickets[t].uid \in Nat
  BY VersionsTyped
<1>2. CASE CreateTicket(t)
  <2> DEFINE obj == [BlankTicket EXCEPT !.exists = TRUE, !.uid = tickets[t].uid + 1]
  <2>1. obj \in TicketObject
    <3>1. tickets[t].uid + 1 \in Nat
      BY <1>1
    <3> QED
      BY <3>1, BlankTyped DEF TicketObject
  <2>2. obj.uid = tickets[t].uid + 1 /\ obj.claimedPod = "nil"
    BY DEF BlankTicket
  <2>3. Store(t, obj) /\ ~tickets[t].exists
    BY <1>2 DEF CreateTicket
  <2> HIDE DEF obj
  <2>4. obj.uid >= tickets[t].uid /\ obj.uid > tickets[t].uid /\ Settled(obj)
    BY <1>1, <2>2 DEF Settled
  <2> QED
    BY <2>1, <2>3, <2>4, StoreAdvances
<1>3. CASE DeleteTicket(t)
  BY <1>3, DeletionAdvances DEF DeleteTicket
<1>4. CASE EditTicket(t)
  <2>1. tickets' = [tickets EXCEPT ![t] = [tickets[t] EXCEPT !.rv = @ + 1]]
    BY <1>4 DEF EditTicket
  <2>2. ASSUME NEW u \in Tickets, u # t PROVE Advances(u)
    BY <2>1, <2>2 DEF Advances, TypeOK, ApiTypeOK
  <2>3. tickets'[t] = [tickets[t] EXCEPT !.rv = @ + 1]
    BY <2>1 DEF TypeOK, ApiTypeOK
  <2>4. /\ tickets'[t].rv = tickets[t].rv + 1 /\ tickets'[t].uid = tickets[t].uid
        /\ tickets'[t].exists = tickets[t].exists /\ tickets'[t].phase = tickets[t].phase
        /\ tickets'[t].claimedPod = tickets[t].claimedPod
    BY <1>1, <2>3 DEF TicketObject
  <2>5. Advances(t)
    BY <1>1, <2>4 DEF Advances, Settled, Coherence
  <2> QED
    BY <2>2, <2>5
<1>5. CASE UNCHANGED tickets
  BY <1>5, StutterAdvances
<1> QED
  BY <1>2, <1>3, <1>4, <1>5
  DEF EnvTicketStep, WindowElapses, GuardianStep, ScheduleGuardian, StartGuardian,
      EvictGuardian, FailGuardian, FinishGuardian, CollectGuardian

\* The worker writes only copies that are up to date, and a copy it has edited
\* keeps the claim.
LEMMA ControllerAdvances ==
  ASSUME TypeOK, Coherence, ControllerStep
  PROVE  \A u \in Tickets : Advances(u)
<1>1. ASSUME worker.call # "idle"
      PROVE  /\ Wt \in Tickets /\ Obj \in TicketObject
             /\ Settled(Obj) /\ Obj.exists
             /\ Current(Wt, Obj) => /\ Obj.uid = tickets[Wt].uid
                                    /\ Obj.claimedPod = tickets[Wt].claimedPod
  <2>1. Wt \in Tickets /\ Obj \in TicketObject
    BY <1>1, WorkerTyped
  <2> QED
    BY <1>1, <2>1 DEF Coherence, WorkerCopy, Current
<1>2. ASSUME worker.call # "idle", Current(Wt, Obj), Store(Wt, Obj)
      PROVE  \A u \in Tickets : Advances(u)
  <2>1. Obj.uid >= tickets[Wt].uid
    BY <1>1, <1>2, VersionsTyped
  <2> QED
    BY <1>1, <1>2, <2>1, StoreAdvances DEF Current
<1>3. CASE AddFinalizer
  BY <1>2, <1>3, StutterAdvances DEF AddFinalizer
<1>4. CASE UpdateStatus
  BY <1>2, <1>4 DEF UpdateStatus
<1>5. CASE DeleteExpiredTicket
  BY <1>1, <1>5, DeletionAdvances, StutterAdvances DEF DeleteExpiredTicket
<1>6. CASE RemoveFinalizer
  <2>1. CASE UNCHANGED tickets
    BY <2>1, StutterAdvances
  <2>2. CASE Current(Wt, Obj) /\ Store(Wt, Removed(Obj))
    <3>1. worker.call # "idle"
      BY <1>6 DEF RemoveFinalizer
    <3>2. Removed(Obj) \in TicketObject
      BY <1>1, <3>1, EditsTyped
    <3>3. Removed(Obj).uid = Obj.uid /\ ~Removed(Obj).exists /\ Removed(Obj).claimedPod = "nil"
      BY DEF Removed, BlankTicket
    <3>4. Removed(Obj).uid >= tickets[Wt].uid /\ Settled(Removed(Obj))
      BY <1>1, <2>2, <3>1, <3>3, VersionsTyped DEF Settled
    <3> QED
      BY <1>1, <2>2, <3>1, <3>2, <3>3, <3>4, StoreAdvances
  <2> QED
    BY <1>6, <2>1, <2>2 DEF RemoveFinalizer
<1>7. CASE UNCHANGED tickets
  BY <1>7, StutterAdvances
<1>8. WorkerStep => AddFinalizer \/ UpdateStatus \/ DeleteExpiredTicket
                    \/ RemoveFinalizer \/ UNCHANGED tickets
  BY DEF WorkerStep, CreateGuardian, GuardianAlreadyExists, GuardianCreateFails,
         GuardianNotFound, GuardianFound, UpdateStatusConflict, GuardianDeletion,
         DeleteForDeletion, DeleteForClaimed, DeleteForExpired, CallFails, apiVars
<1>9. ASSUME NEW t \in Tickets,
             DeliverTicket(t) \/ DeliverGuardian(t) \/ Resync(t) \/ ReconcileStart(t)
      PROVE  UNCHANGED tickets
  BY <1>9
  DEF DeliverTicket, DeliverGuardian, Resync, ReconcileStart, Begin, ReconcileGone,
      ReconcileDeleting, ReconcileUnfinalized, ReconcileExpiring, ReconcilePending,
      ReconcileReady, ReconcileClaimed, ReconcileExpired, apiVars
<1> QED
  BY <1>3, <1>4, <1>5, <1>6, <1>7, <1>8, <1>9 DEF ControllerStep

\* bindPodToTicket claims a ticket that no pod has claimed.
LEMMA PodAdvances ==
  ASSUME TypeOK, Coherence, NEW p \in Pods, PodStep(p)
  PROVE  \A u \in Tickets : Advances(u)
<1> DEFINE a == admissions[p]
<1>1. CASE Bind(p)
  <2>1. /\ a.t \in Tickets /\ a.copy \in TicketObject
        /\ Store(a.t, Claimed(a.copy, p)) /\ Current(a.t, a.copy)
    BY <1>1 DEF Bind, TypeOK, PodTypeOK, Admission
  <2>2. a.copy = tickets[a.t] /\ a.copy.phase = "Ready" /\ Settled(a.copy)
    BY <1>1, <2>1 DEF Bind, Current, Coherence, AdmissionCopy, ReadCopy
  <2>3. a.copy.claimedPod = "nil"
    BY <2>2 DEF Settled
  <2>4. /\ Claimed(a.copy, p) \in TicketObject
        /\ Claimed(a.copy, p).uid = tickets[a.t].uid
        /\ Settled(Claimed(a.copy, p))
    BY <2>1, <2>2 DEF Claimed, TicketObject, Phases, Settled
  <2>5. Claimed(a.copy, p).uid >= tickets[a.t].uid
    BY <2>1, <2>4, VersionsTyped
  <2> QED
    BY <2>1, <2>2, <2>3, <2>4, <2>5, StoreAdvances DEF Current
<1>2. CASE UNCHANGED tickets
  BY <1>2, StutterAdvances
<1> QED
  BY <1>1, <1>2
  DEF PodStep, SubmitCreate, SubmitDryRun, SubmitUpdate, Find, BindFails, Decide,
      TimeOut, SchedulePod, DeletePod, apiVars

LEMMA NextAdvances ==
  ASSUME TypeOK, Coherence, [Next]_vars
  PROVE  \A t \in Tickets : Advances(t)
<1>1. CASE Restart \/ UNCHANGED vars
  BY <1>1, StutterAdvances DEF Restart, vars, apiVars
<1> QED
  BY <1>1, EnvAdvances, ControllerAdvances, PodAdvances DEF Next

------------------------------------------------------------------------------
(* The copies stay coherent *)

\* A copy that is kept while its ticket advances is still one that was read.
LEMMA CopyKept ==
  ASSUME TypeOK, TypeOK', NEW t \in Tickets, NEW copy \in TicketObject, Advances(t),
         ReadCopy(t, copy)
  PROVE  /\ copy.rv <= tickets'[t].rv
         /\ copy.rv = tickets'[t].rv => tickets'[t] = tickets[t] /\ copy = tickets'[t]
<1>1. copy.rv \in Nat /\ tickets[t].rv \in Nat /\ tickets'[t].rv \in Nat
  BY DEF TicketObject, TypeOK, ApiTypeOK
<1> QED
  BY <1>1 DEF Advances, ReadCopy

\* The conjunct of Coherence about tickets and cache.
CacheCoherent ==
    \A t \in Tickets :
        /\ Settled(tickets[t]) /\ Settled(ticketCache[t])
        /\ ReadCopy(t, ticketCache[t])

LEMMA CacheStep ==
  ASSUME TypeOK, TypeOK', Coherence, [Next]_vars, \A t \in Tickets : Advances(t)
  PROVE  CacheCoherent'
<1>1. ASSUME NEW t \in Tickets PROVE Settled(tickets'[t])
  BY <1>1 DEF Advances, Coherence
<1>2. ASSUME NEW t \in Tickets, ticketCache'[t] = ticketCache[t]
      PROVE  Settled(ticketCache'[t]) /\ ReadCopy(t, ticketCache[t])'
  <2>1. ticketCache[t] \in TicketObject
    BY DEF TypeOK, ApiTypeOK
  <2>2. ReadCopy(t, ticketCache[t])
    BY DEF Coherence
  <2> QED
    BY <1>2, <2>1, <2>2, CopyKept DEF Coherence, ReadCopy
<1>3. ASSUME NEW t \in Tickets, ticketCache'[t] = tickets[t], UNCHANGED tickets
      PROVE  Settled(ticketCache'[t]) /\ ReadCopy(t, ticketCache[t])'
  BY <1>1, <1>3, VersionsTyped DEF ReadCopy
<1>4. ASSUME NEW t \in Tickets
      PROVE  \/ ticketCache'[t] = ticketCache[t]
             \/ ticketCache'[t] = tickets[t] /\ UNCHANGED tickets
  <2>1. CASE Restart \/ UNCHANGED vars
    BY <2>1 DEF Restart, vars, apiVars, TypeOK, ApiTypeOK
  <2>2. ASSUME NEW u \in Tickets, EnvTicketStep(u) PROVE UNCHANGED ticketCache
    BY <2>2
    DEF EnvTicketStep, CreateTicket, DeleteTicket, EditTicket, WindowElapses,
        GuardianStep, ScheduleGuardian, StartGuardian, EvictGuardian, FailGuardian,
        FinishGuardian, CollectGuardian
  <2>3. ASSUME NEW u \in Tickets, DeliverTicket(u)
        PROVE  \/ ticketCache'[t] = ticketCache[t]
               \/ ticketCache'[t] = tickets[t] /\ UNCHANGED tickets
    BY <2>3 DEF DeliverTicket, TypeOK, ApiTypeOK
  <2>4. ASSUME NEW u \in Tickets, DeliverGuardian(u) \/ Resync(u) \/ ReconcileStart(u)
        PROVE  UNCHANGED ticketCache
    BY <2>4
    DEF DeliverGuardian, Resync, ReconcileStart, Begin, ReconcileGone,
        ReconcileDeleting, ReconcileUnfinalized, ReconcileExpiring, ReconcilePending,
        ReconcileReady, ReconcileClaimed, ReconcileExpired, apiVars
  <2>5. ASSUME WorkerStep PROVE UNCHANGED ticketCache
    BY <2>5
    DEF WorkerStep, AddFinalizer, CreateGuardian, GuardianAlreadyExists,
        GuardianCreateFails, GuardianNotFound, GuardianFound, UpdateStatus,
        UpdateStatusConflict, DeleteForDeletion, DeleteForClaimed, DeleteForExpired,
        GuardianDeletion, DeleteExpiredTicket, RemoveFinalizer, CallFails, apiVars
  <2>6. ASSUME NEW p \in Pods, PodStep(p) PROVE UNCHANGED ticketCache
    BY <2>6
    DEF PodStep, SubmitCreate, SubmitDryRun, SubmitUpdate, Find, Bind, BindFails,
        Decide, TimeOut, SchedulePod, DeletePod, apiVars
  <2> QED
    BY <2>1, <2>2, <2>3, <2>4, <2>5, <2>6 DEF Next, ControllerStep
<1> QED
  BY <1>1, <1>2, <1>3, <1>4 DEF CacheCoherent

\* The worker: between two calls its copy ages, at the start it is read from the
\* cache, and what a handler edits in it is neither identity nor claim.
LEMMA WorkerStepCoherent ==
  ASSUME TypeOK, TypeOK', Coherence, [Next]_vars, \A t \in Tickets : Advances(t)
  PROVE  WorkerCopy'
<1>1. CASE UNCHANGED worker
  <2> SUFFICES ASSUME worker.call # "idle" PROVE WorkerCopy'
    BY <1>1 DEF WorkerCopy
  <2>1. Wt \in Tickets /\ Obj \in TicketObject
    BY WorkerTyped
  <2>2. Obj.rv \in Nat /\ tickets[Wt].rv \in Nat /\ tickets'[Wt].rv \in Nat
    BY <2>1 DEF TicketObject, TypeOK, ApiTypeOK
  <2>3. Advances(Wt)
    BY <2>1
  <2>4. Obj.rv <= tickets[Wt].rv
    BY DEF Coherence, WorkerCopy
  <2>5. /\ Obj.rv <= tickets'[Wt].rv
        /\ Obj.rv = tickets'[Wt].rv => tickets'[Wt] = tickets[Wt]
    <3>1. tickets'[Wt] = tickets[Wt] \/ tickets'[Wt].rv > tickets[Wt].rv
      BY <2>3 DEF Advances
    <3> QED
      BY <2>2, <2>4, <3>1
  <2>6. Wt' = Wt /\ Obj' = Obj
    BY <1>1 DEF Wt, Obj
  <2> QED
    BY <1>1, <2>5, <2>6 DEF Coherence, WorkerCopy
<1>2. CASE worker' = Resting
  BY <1>2 DEF WorkerCopy, Resting
<1>3. ASSUME NEW t \in Tickets, NEW call \in Calls, NEW obj \in TicketObject,
             Begin(t, call, obj), ticketCache[t].exists,
             obj.exists, obj.rv = ticketCache[t].rv, obj.uid = ticketCache[t].uid,
             obj.claimedPod = ticketCache[t].claimedPod, Settled(obj),
             call \in {"createGuardian", "checkGuardian"} =>
                obj.phase \in {"", "Pending", "Ready"}
      PROVE  WorkerCopy'
  <2>1. ReadCopy(t, ticketCache[t]) /\ UNCHANGED tickets
    BY <1>3 DEF Coherence, Begin, apiVars
  <2>2. Wt' = t /\ Obj' = obj /\ worker'.call = call
    BY <1>3 DEF Begin, Wt, Obj
  <2> QED
    BY <1>3, <2>1, <2>2 DEF WorkerCopy, ReadCopy
<1>4. ASSUME worker.call # "idle", NEW call \in Calls, NEW obj \in TicketObject,
             Proceed(call, obj), UNCHANGED tickets,
             obj.exists, obj.rv = Obj.rv, obj.uid = Obj.uid,
             obj.claimedPod = Obj.claimedPod, Settled(obj),
             call \in {"createGuardian", "checkGuardian"} =>
                obj.phase \in {"", "Pending", "Ready"}
      PROVE  WorkerCopy'
  <2>1. worker \in [call : Calls, t : Tickets, obj : TicketObject]
    BY <1>4, WorkerTyped
  <2>2. Wt' = Wt /\ Obj' = obj /\ worker'.call = call
    BY <1>4, <2>1 DEF Proceed, Wt, Obj
  <2> QED
    BY <1>4, <2>2 DEF Coherence, WorkerCopy
<1>5. ASSUME NEW t \in Tickets, ReconcileStart(t) PROVE WorkerCopy'
  <2>1. ticketCache[t] \in TicketObject /\ Settled(ticketCache[t])
    BY DEF TypeOK, ApiTypeOK, Coherence
  <2>2. CASE ReconcileGone(t)
    BY <1>1, <2>2 DEF ReconcileGone
  <2>3. CASE ReconcileDeleting(t)
    BY <1>3, <2>1, <2>3 DEF ReconcileDeleting, Calls
  <2>4. CASE ReconcileUnfinalized(t)
    <3> DEFINE obj == [ticketCache[t] EXCEPT !.finalizer = TRUE]
    <3>1. obj \in TicketObject
      BY <2>1, EditsTyped
    <3>2. /\ obj.exists = ticketCache[t].exists /\ obj.rv = ticketCache[t].rv
          /\ obj.uid = ticketCache[t].uid /\ obj.claimedPod = ticketCache[t].claimedPod
          /\ obj.phase = ticketCache[t].phase
      BY <2>1 DEF TicketObject
    <3> QED
      BY <1>3, <2>1, <2>4, <3>1, <3>2 DEF ReconcileUnfinalized, Calls, Settled
  <2>5. CASE ReconcileExpiring(t)
    <3> DEFINE obj == WithStatus(ticketCache[t], "Expired", "DurationExceeded")
    <3>1. obj \in TicketObject
      BY <2>1, StatusTyped DEF Phases, Notes
    <3>2. /\ obj.exists = ticketCache[t].exists /\ obj.rv = ticketCache[t].rv
          /\ obj.uid = ticketCache[t].uid /\ obj.claimedPod = ticketCache[t].claimedPod
          /\ obj.phase = "Expired"
      BY <2>1 DEF TicketObject, WithStatus
    <3> QED
      BY <1>3, <2>1, <2>5, <3>1, <3>2 DEF ReconcileExpiring, Calls, Settled, Live
  <2>6. CASE ReconcilePending(t)
    <3> DEFINE obj == Activating(ticketCache[t])
    <3>1. obj \in TicketObject
      BY <2>1, EditsTyped
    <3>2. /\ obj.exists = ticketCache[t].exists /\ obj.rv = ticketCache[t].rv
          /\ obj.uid = ticketCache[t].uid /\ obj.claimedPod = ticketCache[t].claimedPod
          /\ obj.phase = ticketCache[t].phase
      BY <2>1 DEF TicketObject, Activating
    <3> QED
      BY <1>3, <2>1, <2>6, <3>1, <3>2 DEF ReconcilePending, Calls, Settled, Live
  <2>7. CASE ReconcileReady(t)
    BY <1>3, <2>1, <2>7 DEF ReconcileReady, Calls, Live
  <2>8. CASE ReconcileClaimed(t)
    BY <1>3, <2>1, <2>8 DEF ReconcileClaimed, Calls, Live
  <2>9. CASE ReconcileExpired(t)
    BY <1>3, <2>1, <2>9 DEF ReconcileExpired, Calls, Live
  <2> QED
    BY <1>5, <2>2, <2>3, <2>4, <2>5, <2>6, <2>7, <2>8, <2>9 DEF ReconcileStart
<1>6. ASSUME WorkerStep PROVE WorkerCopy'
  <2>1. worker.call # "idle"
    BY <1>6
    DEF WorkerStep, AddFinalizer, CreateGuardian, GuardianAlreadyExists,
        GuardianCreateFails, GuardianNotFound, GuardianFound, UpdateStatus,
        UpdateStatusConflict, DeleteForDeletion, DeleteForClaimed, DeleteForExpired,
        GuardianDeletion, DeleteExpiredTicket, RemoveFinalizer, CallFails
  <2>2. Wt \in Tickets /\ Obj \in TicketObject
    BY <2>1, WorkerTyped
  <2>3. /\ Obj.exists /\ Settled(Obj)
        /\ worker.call \in {"createGuardian", "checkGuardian"} =>
              Obj.phase \in {"", "Pending", "Ready"}
    BY <2>1 DEF Coherence, WorkerCopy
  <2>0. /\ {"Pending", "Ready", "Claimed", "Expired"} \subseteq Phases
        /\ {"Activated", "CreateFailed", "Running", "Claimed", "Retained"} \subseteq Notes
    BY DEF Phases, Notes
  <2>4. ASSUME Return \/ Requeue PROVE WorkerCopy'
    BY <1>2, <2>4 DEF Return, Requeue
  <2>5. ASSUME NEW obj \in TicketObject,
               obj.exists = Obj.exists, obj.rv = Obj.rv, obj.uid = Obj.uid,
               obj.claimedPod = Obj.claimedPod, Settled(obj),
               Proceed("updateStatus", obj), UNCHANGED tickets
        PROVE  WorkerCopy'
    BY <1>4, <2>1, <2>3, <2>5 DEF Calls
  <2>6. CASE CreateGuardian
    <3> DEFINE obj == ActivatedStatus(Obj)
               st == WithStatus(Obj, "Ready", "Activated")
    <3>1. /\ st \in TicketObject
          /\ st.exists = Obj.exists /\ st.rv = Obj.rv /\ st.uid = Obj.uid
          /\ st.claimedPod = Obj.claimedPod
      BY <2>2, StatusKeeps, <2>0
    <3> HIDE DEF st
    <3>2. obj = [st EXCEPT !.guardianRef = TRUE, !.node = PinnedNode[Wt]]
      BY DEF ActivatedStatus, st
    <3>3. /\ obj \in TicketObject
          /\ obj.exists = Obj.exists /\ obj.rv = Obj.rv /\ obj.uid = Obj.uid
          /\ obj.claimedPod = Obj.claimedPod
      BY <2>2, <3>1, <3>2, PinAssumption, ZenonT(60) DEF TicketObject
    <3> HIDE DEF obj
    <3>4. Settled(obj)
      BY <2>3, <2>6, <3>3 DEF CreateGuardian, Settled
    <3>5. Proceed("updateStatus", obj) /\ UNCHANGED tickets
      BY <2>6 DEF CreateGuardian, obj
    <3> QED
      BY <2>5, <3>3, <3>4, <3>5
  <2>7. CASE GuardianAlreadyExists
    BY <1>4, <2>1, <2>2, <2>3, <2>4, <2>7 DEF GuardianAlreadyExists, Calls, apiVars
  <2>8. CASE GuardianCreateFails
    <3> DEFINE obj == WithStatus(Obj, "Pending", "CreateFailed")
    <3>1. /\ obj \in TicketObject
          /\ obj.exists = Obj.exists /\ obj.rv = Obj.rv /\ obj.uid = Obj.uid
          /\ obj.claimedPod = Obj.claimedPod
      BY <2>2, StatusKeeps, <2>0
    <3>2. Proceed("updateStatus", obj) /\ UNCHANGED tickets
      BY <2>8 DEF GuardianCreateFails
    <3> HIDE DEF obj
    <3>3. Settled(obj)
      BY <2>3, <2>8, <3>1 DEF GuardianCreateFails, Settled
    <3> QED
      BY <2>5, <3>1, <3>2, <3>3
  <2>9. CASE GuardianNotFound
    <3>1. /\ Activating(Obj) \in TicketObject
          /\ Activating(Obj).exists = Obj.exists /\ Activating(Obj).rv = Obj.rv
          /\ Activating(Obj).uid = Obj.uid /\ Activating(Obj).claimedPod = Obj.claimedPod
          /\ Activating(Obj).phase = Obj.phase
      BY <2>2, EditsTyped DEF Activating, TicketObject
    <3> QED
      BY <1>4, <2>1, <2>3, <2>9, <3>1 DEF GuardianNotFound, Calls, Settled, apiVars
  <2>10. CASE GuardianFound
    <3> DEFINE pod == guardianCache[Wt]
               seen == IF pod.node # "" THEN [Obj EXCEPT !.node = pod.node] ELSE Obj
    <3>1. pod.node \in Nodes \cup {""}
      BY <2>2 DEF TypeOK, ApiTypeOK, GuardianObject
    <3>2. /\ seen \in TicketObject
          /\ seen.exists = Obj.exists /\ seen.rv = Obj.rv /\ seen.uid = Obj.uid
          /\ seen.claimedPod = Obj.claimedPod
      BY <2>2, <3>1 DEF TicketObject
    <3>3. \/ Requeue
          \/ Proceed("updateStatus", WithStatus(seen, "Ready", "Running"))
      BY <2>10 DEF GuardianFound
    <3>4. UNCHANGED tickets /\ worker.call = "checkGuardian"
      BY <2>10 DEF GuardianFound, apiVars
    <3> HIDE DEF seen
    <3> DEFINE obj == WithStatus(seen, "Ready", "Running")
    <3>5. /\ obj \in TicketObject
          /\ obj.exists = Obj.exists /\ obj.rv = Obj.rv /\ obj.uid = Obj.uid
          /\ obj.claimedPod = Obj.claimedPod
      BY <3>2, StatusKeeps, <2>0
    <3>6. Requeue \/ Proceed("updateStatus", obj)
      BY <3>3
    <3> HIDE DEF obj
    <3>7. Settled(obj)
      BY <2>3, <3>4, <3>5 DEF Settled
    <3> QED
      BY <2>4, <2>5, <3>4, <3>5, <3>6, <3>7
  <2>11. ASSUME NEW obj \in TicketObject,
                obj.exists = Obj.exists, obj.rv = Obj.rv, obj.uid = Obj.uid,
                obj.claimedPod = Obj.claimedPod, obj.phase = Obj.phase,
                NEW call \in Calls \ {"createGuardian", "checkGuardian"},
                Proceed(call, obj), UNCHANGED tickets
         PROVE  WorkerCopy'
    BY <1>4, <2>1, <2>3, <2>11 DEF Settled
  <2>12. CASE DeleteForDeletion
    <3> DEFINE obj == [Obj EXCEPT !.finalizer = FALSE]
    <3>1. /\ obj \in TicketObject
          /\ obj.exists = Obj.exists /\ obj.rv = Obj.rv /\ obj.uid = Obj.uid
          /\ obj.claimedPod = Obj.claimedPod /\ obj.phase = Obj.phase
      BY <2>2, EditsTyped DEF TicketObject
    <3> QED
      BY <2>11, <2>12, <3>1 DEF DeleteForDeletion, GuardianDeletion, Calls
  <2>13. CASE DeleteForClaimed
    <3> DEFINE obj == [Obj EXCEPT !.guardianRef = FALSE]
    <3>1. /\ obj \in TicketObject
          /\ obj.exists = Obj.exists /\ obj.rv = Obj.rv /\ obj.uid = Obj.uid
          /\ obj.claimedPod = Obj.claimedPod
      BY <2>2, EditsTyped, ZenonT(60) DEF TicketObject
    <3>2. Obj.phase = "Claimed" /\ UNCHANGED tickets
          /\ Proceed("updateStatus", WithStatus(obj, "Claimed", "Claimed"))
      BY <2>13 DEF DeleteForClaimed, GuardianDeletion
    <3> HIDE DEF obj
    <3> DEFINE new == WithStatus(obj, "Claimed", "Claimed")
    <3>3. /\ new \in TicketObject
          /\ new.exists = Obj.exists /\ new.rv = Obj.rv /\ new.uid = Obj.uid
          /\ new.claimedPod = Obj.claimedPod /\ new.phase = Obj.phase
      BY <3>1, <3>2, StatusKeeps, <2>0
    <3> QED
      BY <2>11, <3>2, <3>3 DEF Calls
  <2>14. CASE DeleteForExpired
    <3>1. Obj.phase = "Expired" /\ UNCHANGED tickets
      BY <2>14 DEF DeleteForExpired, GuardianDeletion
    <3>2. \/ Requeue \/ Proceed("deleteTicket", Obj)
          \/ Proceed("updateStatus", WithStatus(Obj, "Expired", "Retained"))
      BY <2>14 DEF DeleteForExpired
    <3> DEFINE new == WithStatus(Obj, "Expired", "Retained")
    <3>3. /\ new \in TicketObject
          /\ new.exists = Obj.exists /\ new.rv = Obj.rv /\ new.uid = Obj.uid
          /\ new.claimedPod = Obj.claimedPod /\ new.phase = Obj.phase
      BY <2>2, <3>1, StatusKeeps, <2>0
    <3> QED
      BY <2>2, <2>4, <2>11, <3>1, <3>2, <3>3 DEF Calls
  <2> QED
    BY <1>6, <2>4, <2>6, <2>7, <2>8, <2>9, <2>10, <2>12, <2>13, <2>14
    DEF WorkerStep, AddFinalizer, UpdateStatus, UpdateStatusConflict,
        DeleteExpiredTicket, RemoveFinalizer, CallFails
<1>7. ASSUME NEW t \in Tickets, DeliverTicket(t) \/ DeliverGuardian(t) \/ Resync(t)
      PROVE  UNCHANGED worker
  BY <1>7 DEF DeliverTicket, DeliverGuardian, Resync
<1> QED
  BY <1>1, <1>2, <1>5, <1>6, <1>7
  DEF Next, ControllerStep, Restart, vars, controllerVars

\* A webhook's copy is read from the cache as Ready and ages until it is used.
LEMMA AdmissionStepCoherent ==
  ASSUME TypeOK, TypeOK', Coherence, [Next]_vars, \A t \in Tickets : Advances(t)
  PROVE  AdmissionCopy'
<1> SUFFICES ASSUME NEW p \in Pods, admissions'[p].step = "bind"
             PROVE  /\ ReadCopy(admissions[p].t, admissions[p].copy)'
                    /\ admissions'[p].copy.phase = "Ready"
                    /\ Settled(admissions'[p].copy)
  BY DEF AdmissionCopy
<1>1. CASE /\ admissions[p].step = "bind"
           /\ admissions'[p].t = admissions[p].t
           /\ admissions'[p].copy = admissions[p].copy
  <2> DEFINE t == admissions[p].t
             copy == admissions[p].copy
  <2>1. t \in Tickets /\ copy \in TicketObject
    BY <1>1 DEF TypeOK, PodTypeOK, Admission
  <2>2. ReadCopy(t, copy) /\ copy.phase = "Ready" /\ Settled(copy)
    BY <1>1 DEF Coherence, AdmissionCopy
  <2>3. /\ copy.rv <= tickets'[t].rv
        /\ copy.rv = tickets'[t].rv => copy = tickets'[t]
    BY <2>1, <2>2, CopyKept
  <2> QED
    BY <1>1, <2>2, <2>3 DEF ReadCopy
<1>2. ASSUME NEW t \in Tickets, Available(t), UNCHANGED tickets,
             admissions'[p].t = t, admissions'[p].copy = ticketCache[t]
      PROVE  /\ ReadCopy(admissions[p].t, admissions[p].copy)'
             /\ admissions'[p].copy.phase = "Ready"
             /\ Settled(admissions'[p].copy)
  BY <1>2 DEF Available, Coherence, ReadCopy
<1>3. ASSUME NEW q \in Pods, NEW op, NEW pod, Find(q, op, pod)
      PROVE  \/ UNCHANGED admissions[p]
             \/ /\ UNCHANGED tickets
                /\ \E t \in Tickets :
                      /\ Available(t)
                      /\ admissions'[p].t = t /\ admissions'[p].copy = ticketCache[t]
  <2>1. CASE p # q
    BY <1>3, <2>1 DEF Find, TypeOK, PodTypeOK
  <2>2. CASE p = q
    <3>1. PICK t \in BestTickets(p) :
             admissions' = [admissions EXCEPT ![p] =
                [step |-> "bind", op |-> op, pod |-> pod, t |-> t,
                 copy |-> ticketCache[t]]]
      BY <1>3, <2>2 DEF Find, TypeOK, PodTypeOK, NoAdmission
    <3>2. t \in Tickets /\ Available(t)
      BY <3>1, WantsAssumption DEF BestTickets, Matching
    <3>3. admissions'[p].t = t /\ admissions'[p].copy = ticketCache[t]
      BY <3>1 DEF TypeOK, PodTypeOK
    <3> QED
      BY <1>3, <3>2, <3>3 DEF Find
  <2> QED
    BY <2>1, <2>2
<1>4. ASSUME NEW q \in Pods, PodStep(q)
      PROVE  /\ ReadCopy(admissions[p].t, admissions[p].copy)'
             /\ admissions'[p].copy.phase = "Ready"
             /\ Settled(admissions'[p].copy)
  <2>1. CASE SubmitCreate(q) \/ SubmitDryRun(q) \/ SubmitUpdate(q)
    BY <1>1, <1>2, <1>3, <2>1 DEF SubmitCreate, SubmitDryRun, SubmitUpdate
  <2>2. CASE Bind(q) \/ BindFails(q) \/ Decide(q)
    <3>1. ASSUME NEW a, a.step # "bind", admissions' = [admissions EXCEPT ![q] = a]
          PROVE  p # q
      BY <3>1 DEF TypeOK, PodTypeOK
    <3>2. p # q
      BY <2>2, <3>1 DEF Bind, BindFails, Decide, NoAdmission
    <3> QED
      BY <1>1, <2>2, <3>2 DEF Bind, BindFails, Decide, TypeOK, PodTypeOK
  <2>3. CASE TimeOut(q) \/ (\E n \in Nodes : SchedulePod(q, n)) \/ DeletePod(q)
    <3>1. admissions' = [admissions EXCEPT ![q].op = "discard"]
      BY <2>3 DEF TimeOut, SchedulePod, DeletePod
    <3>2. /\ admissions'[p].step = admissions[p].step
          /\ admissions'[p].t = admissions[p].t
          /\ admissions'[p].copy = admissions[p].copy
      BY <3>1 DEF TypeOK, PodTypeOK, Admission
    <3> QED
      BY <1>1, <3>2
  <2> QED
    BY <1>4, <2>1, <2>2, <2>3 DEF PodStep
<1>5. ~Restart
  BY DEF Restart, NoAdmission
<1> QED
  BY <1>1, <1>4, <1>5 DEF Next, vars, podVars

------------------------------------------------------------------------------

LEMMA CoherenceInvariant == Spec => []Coherence
<1>1. Init => Coherence
  <2> SUFFICES ASSUME Init PROVE Coherence
    OBVIOUS
  <2>1. ASSUME NEW t \in Tickets
        PROVE  /\ Settled(tickets[t]) /\ Settled(ticketCache[t])
               /\ ReadCopy(t, ticketCache[t])
    <3>1. tickets[t] = BlankTicket /\ ticketCache[t] = BlankTicket
      BY DEF Init, ApiInit
    <3>2. BlankTicket.claimedPod = "nil" /\ BlankTicket.rv = 0
      BY DEF BlankTicket
    <3> QED
      BY <3>1, <3>2 DEF Settled, ReadCopy
  <2> QED
    BY <2>1
    DEF Init, ControllerInit, PodInit, Coherence, CacheCoherent, WorkerCopy,
        AdmissionCopy, Resting, NoAdmission
<1>2. TypeOK /\ TypeOK' /\ Coherence /\ [Next]_vars => Coherence'
  <2> SUFFICES ASSUME TypeOK, TypeOK', Coherence, [Next]_vars PROVE Coherence'
    OBVIOUS
  <2>1. \A t \in Tickets : Advances(t)
    BY NextAdvances
  <2>2. CacheCoherent' /\ WorkerCopy' /\ AdmissionCopy'
    BY <2>1, CacheStep, WorkerStepCoherent, AdmissionStepCoherent
  <2> QED
    BY <2>2 DEF Coherence, CacheCoherent
<1> QED
  BY <1>1, <1>2, Typing, PTL DEF Spec

\* A claim is for life: no interleaving of users, webhook calls, reconciliations
\* from stale copies, watch events and restarts takes a claimed ticket from its
\* pod or makes it claimable again.
THEOREM ClaimSafety == Spec => ClaimIrrevocable
<1>1. TypeOK /\ Coherence /\ [Next]_vars => [ClaimForLife]_vars
  <2> SUFFICES ASSUME TypeOK, Coherence, [Next]_vars,
                      NEW t \in Tickets, SameTicket(t), tickets[t].claimedPod # "nil"
               PROVE  /\ tickets'[t].claimedPod = tickets[t].claimedPod
                      /\ tickets'[t].phase \in {"Claimed", "Expired"}
    BY DEF ClaimForLife
  <2>1. Advances(t) /\ Settled(tickets[t])
    BY NextAdvances DEF Coherence
  <2> QED
    BY <2>1 DEF Advances, Settled
<1> QED
  BY <1>1, Typing, CoherenceInvariant, PTL DEF Spec, ClaimIrrevocable

------------------------------------------------------------------------------
(* Bindings *)

\* The tickets that bindPodToTicket has claimed for p, for the pod that exists
\* and for the one that is being admitted.
BoundOf(p) == pods[p].bound \cup admissions[p].pod.bound

\* Every such ticket object still names p, or is gone.
BindingsHeld ==
    \A p \in Pods : \A t \in Tickets, u \in Nat :
        <<t, u>> \in BoundOf(p) =>
            /\ u <= tickets[t].uid
            /\ tickets[t].exists /\ tickets[t].uid = u => tickets[t].claimedPod = p

BindingsDisjoint ==
    \A p, q \in Pods : p # q => BoundOf(p) \cap BoundOf(q) = {}

\* A binding that is held survives whatever lets its ticket advance.
LEMMA BindingKept ==
  ASSUME TypeOK, TypeOK', BindingsHeld, NEW p \in Pods, NEW t \in Tickets, NEW u \in Nat,
         <<t, u>> \in BoundOf(p), Advances(t)
  PROVE  /\ u <= tickets'[t].uid
         /\ tickets'[t].exists /\ tickets'[t].uid = u => tickets'[t].claimedPod = p
<1>1. tickets[t].uid \in Nat /\ tickets'[t].uid \in Nat
  BY DEF TypeOK, ApiTypeOK, TicketObject
<1>2. u <= tickets[t].uid /\ (tickets[t].exists /\ tickets[t].uid = u => tickets[t].claimedPod = p)
  BY DEF BindingsHeld
<1>3. p # "nil"
  BY PodsAssumption
<1>4. CASE tickets'[t] = tickets[t]
  BY <1>2, <1>4
<1>5. CASE tickets'[t] # tickets[t]
  <2>1. /\ tickets'[t].uid >= tickets[t].uid
        /\ SameTicket(t) /\ tickets[t].claimedPod # "nil"
             => tickets'[t].claimedPod = tickets[t].claimedPod
        /\ tickets'[t].exists /\ ~tickets[t].exists => tickets'[t].uid > tickets[t].uid
    BY <1>5 DEF Advances
  <2> QED
    BY <1>1, <1>2, <1>3, <2>1 DEF SameTicket
<1> QED
  BY <1>4, <1>5

\* Only bindPodToTicket adds a binding.
LEMMA BoundShrinks ==
  ASSUME TypeOK, [Next]_vars, NEW p \in Pods, ~Bind(p)
  PROVE  BoundOf(p)' \subseteq BoundOf(p)
<1>1. CASE UNCHANGED podVars
  BY <1>1 DEF BoundOf, podVars
<1>2. CASE Restart
  BY <1>2 DEF Restart, BoundOf, NoAdmission, BlankPod
<1>3. ASSUME NEW q \in Pods, PodStep(q), q # p PROVE BoundOf(p)' \subseteq BoundOf(p)
  <2>1. admissions'[p] = admissions[p] /\ pods'[p] = pods[p]
    BY <1>3
    DEF PodStep, SubmitCreate, SubmitDryRun, SubmitUpdate, Find, Bind, BindFails,
        Decide, TimeOut, SchedulePod, DeletePod, TypeOK, PodTypeOK
  <2> QED
    BY <2>1 DEF BoundOf
<1>4. pods[p] \in PodObject /\ admissions[p] \in Admission /\ admissions[p].pod \in PodObject
  BY DEF TypeOK, PodTypeOK, Admission
<1>5. ASSUME NEW op, NEW pod, pod \in {BlankPod, pods[p]}, Find(p, op, pod)
      PROVE  BoundOf(p)' \subseteq BoundOf(p)
  <2> DEFINE none == [NoAdmission EXCEPT !.step = "decide", !.op = op, !.pod = pod]
  <2>1. none.pod = pod
    BY DEF NoAdmission
  <2>2. DOMAIN admissions = Pods
    BY DEF TypeOK, PodTypeOK
  <2>3. admissions'[p].pod = pod
    <3>1. CASE admissions' = [admissions EXCEPT ![p] = none]
      <4> HIDE DEF none
      <4> QED
        BY <2>1, <2>2, <3>1
    <3>2. ASSUME NEW t \in Tickets,
                 admissions' = [admissions EXCEPT ![p] =
                    [step |-> "bind", op |-> op, pod |-> pod, t |-> t,
                     copy |-> ticketCache[t]]]
          PROVE  admissions'[p].pod = pod
      BY <2>2, <3>2
    <3>3. BestTickets(p) \subseteq Tickets
      BY WantsAssumption DEF BestTickets, Matching
    <3> HIDE DEF none
    <3>4. \/ admissions' = [admissions EXCEPT ![p] = none]
          \/ \E t \in BestTickets(p) : admissions' = [admissions EXCEPT ![p] =
                [step |-> "bind", op |-> op, pod |-> pod, t |-> t,
                 copy |-> ticketCache[t]]]
      BY <1>5 DEF Find, none
    <3> QED
      BY <3>1, <3>2, <3>3, <3>4
  <2>4. UNCHANGED pods
    BY <1>5 DEF Find
  <2>5. pod.bound \subseteq pods[p].bound
    <3>1. BlankPod.bound = {}
      BY DEF BlankPod
    <3> QED
      BY <1>5, <3>1
  <2> QED
    BY <2>3, <2>4, <2>5 DEF BoundOf
<1>6. ASSUME BindFails(p) PROVE BoundOf(p)' \subseteq BoundOf(p)
  <2> DEFINE a == admissions[p]
             pod == Mutated(a.pod, a.t, a.copy)
  <2>1. pod.bound = a.pod.bound
    BY <1>4 DEF Mutated, PodObject
  <2> DEFINE next == [NoAdmission EXCEPT !.step = "decide", !.op = a.op, !.pod = pod]
  <2>2. next.pod = pod
    BY DEF NoAdmission
  <2>3. admissions' = [admissions EXCEPT ![p] = next] /\ UNCHANGED pods
    BY <1>6 DEF BindFails
  <2> HIDE DEF next, pod
  <2>4. admissions'[p].pod = pod
    BY <2>2, <2>3 DEF TypeOK, PodTypeOK
  <2> QED
    BY <2>1, <2>3, <2>4 DEF BoundOf
<1>7. ASSUME Decide(p) PROVE BoundOf(p)' \subseteq BoundOf(p)
  <2>1. [admissions[p].pod EXCEPT !.exists = TRUE].bound = admissions[p].pod.bound
    BY <1>4 DEF PodObject
  <2>2. pods'[p] = [admissions[p].pod EXCEPT !.exists = TRUE] \/ pods'[p] = pods[p]
    BY <1>7 DEF Decide, TypeOK, PodTypeOK
  <2>3. admissions'[p].pod = BlankPod
    BY <1>7 DEF Decide, TypeOK, PodTypeOK, NoAdmission
  <2>4. BlankPod.bound = {}
    BY DEF BlankPod
  <2> QED
    BY <2>1, <2>2, <2>3, <2>4 DEF BoundOf
<1>8. ASSUME admissions' = [admissions EXCEPT ![p].op = "discard"],
             pods'[p].bound \subseteq pods[p].bound
      PROVE  BoundOf(p)' \subseteq BoundOf(p)
  <2>1. admissions'[p] = [admissions[p] EXCEPT !.op = "discard"]
    BY <1>8 DEF TypeOK, PodTypeOK
  <2>2. admissions'[p].pod = admissions[p].pod
    BY <1>4, <2>1 DEF Admission
  <2> QED
    BY <1>8, <2>2 DEF BoundOf
<1>9. CASE TimeOut(p)
  BY <1>8, <1>9 DEF TimeOut
<1>10. ASSUME NEW n \in Nodes, SchedulePod(p, n) PROVE BoundOf(p)' \subseteq BoundOf(p)
  <2>1. pods'[p] = [pods[p] EXCEPT !.node = n]
    BY <1>10 DEF SchedulePod, TypeOK, PodTypeOK
  <2>2. pods'[p].bound = pods[p].bound
    BY <1>4, <2>1 DEF PodObject
  <2> QED
    BY <1>8, <1>10, <2>2 DEF SchedulePod
<1>11. CASE DeletePod(p)
  <2>1. pods'[p] = BlankPod
    BY <1>11 DEF DeletePod, TypeOK, PodTypeOK
  <2>2. BlankPod.bound = {}
    BY DEF BlankPod
  <2> QED
    BY <1>8, <1>11, <2>1, <2>2 DEF DeletePod
<1>12. ASSUME PodStep(p) PROVE BoundOf(p)' \subseteq BoundOf(p)
  BY <1>5, <1>6, <1>7, <1>9, <1>10, <1>11, <1>12
  DEF PodStep, SubmitCreate, SubmitDryRun, SubmitUpdate
<1> QED
  BY <1>1, <1>2, <1>3, <1>12 DEF Next, vars

LEMMA BindingStep ==
  ASSUME TypeOK, TypeOK', Coherence, BindingsHeld, BindingsDisjoint, [Next]_vars
  PROVE  BindingsHeld' /\ BindingsDisjoint'
<1>1. \A t \in Tickets : Advances(t)
  BY NextAdvances
<1>2. ASSUME NEW p \in Pods, NEW t \in Tickets, NEW u \in Nat, <<t, u>> \in BoundOf(p)
      PROVE  /\ u <= tickets'[t].uid
             /\ tickets'[t].exists /\ tickets'[t].uid = u => tickets'[t].claimedPod = p
  BY <1>1, <1>2, BindingKept
<1>3. CASE \A p \in Pods : ~Bind(p)
  <2>1. \A p \in Pods : BoundOf(p)' \subseteq BoundOf(p)
    BY <1>3, BoundShrinks
  <2> QED
    BY <1>2, <2>1 DEF BindingsHeld, BindingsDisjoint
<1>4. ASSUME NEW p \in Pods, Bind(p) PROVE BindingsHeld' /\ BindingsDisjoint'
  <2> DEFINE a == admissions[p]
             t == a.t
             uid == a.copy.uid
  <2>1. /\ t \in Tickets /\ a.copy \in TicketObject /\ uid \in Nat /\ a.pod \in PodObject
    BY <1>4 DEF Bind, TypeOK, PodTypeOK, Admission, TicketObject
  <2>2. a.copy = tickets[t] /\ tickets[t].exists /\ a.copy.claimedPod = "nil"
    BY <1>4 DEF Bind, Current, Coherence, AdmissionCopy, ReadCopy, Settled
  <2>3. /\ tickets'[t].uid = uid /\ tickets'[t].claimedPod = p
    <3>1. tickets'[t] = [Claimed(a.copy, p) EXCEPT !.rv = NextRv(t, Claimed(a.copy, p))]
      BY <1>4, <2>1 DEF Bind, Store, TypeOK, ApiTypeOK
    <3>2. Claimed(a.copy, p).uid = uid /\ Claimed(a.copy, p).claimedPod = p
          /\ Claimed(a.copy, p) \in TicketObject
      BY <2>1 DEF Claimed, TicketObject, Phases
    <3> QED
      BY <3>1, <3>2 DEF TicketObject
  <2>4. BoundOf(p)' \subseteq BoundOf(p) \cup {<<t, uid>>}
    <3> DEFINE m == Mutated(a.pod, a.t, a.copy)
    <3>1. m.bound = a.pod.bound /\ DOMAIN m = DOMAIN a.pod
      BY <2>1 DEF Mutated, PodObject
    <3>2. admissions'[p].pod = [m EXCEPT !.bound = @ \cup {<<t, uid>>}] /\ UNCHANGED pods
      BY <1>4 DEF Bind, TypeOK, PodTypeOK, NoAdmission
    <3>3. admissions'[p].pod.bound = a.pod.bound \cup {<<t, uid>>}
      BY <2>1, <3>1, <3>2 DEF PodObject
    <3> QED
      BY <3>2, <3>3 DEF BoundOf
  <2>5. ASSUME NEW q \in Pods, q # p PROVE BoundOf(q)' \subseteq BoundOf(q)
    <3>1. admissions'[q] = admissions[q] /\ pods'[q] = pods[q]
      BY <1>4, <2>5 DEF Bind, TypeOK, PodTypeOK
    <3> QED
      BY <3>1 DEF BoundOf
  <2>6. ASSUME NEW q \in Pods, q # p PROVE <<t, uid>> \notin BoundOf(q)
    BY <2>1, <2>2, <2>6, PodsAssumption DEF BindingsHeld
  <2>7. BindingsHeld'
    <3> SUFFICES ASSUME NEW q \in Pods, NEW s \in Tickets, NEW u \in Nat,
                        <<s, u>> \in BoundOf(q)'
                 PROVE  /\ u <= tickets'[s].uid
                        /\ tickets'[s].exists /\ tickets'[s].uid = u
                             => tickets'[s].claimedPod = q
      BY DEF BindingsHeld
    <3>1. CASE <<s, u>> \in BoundOf(q)
      BY <1>2, <3>1
    <3>2. CASE q = p /\ s = t /\ u = uid
      BY <2>1, <2>3, <3>2
    <3> QED
      BY <2>4, <2>5, <3>1, <3>2
  <2>8. BindingsDisjoint'
    BY <2>4, <2>5, <2>6 DEF BindingsDisjoint
  <2> QED
    BY <2>7, <2>8
<1> QED
  BY <1>3, <1>4

LEMMA BindingInvariant == Spec => [](BindingsHeld /\ BindingsDisjoint)
<1>1. Init => BindingsHeld /\ BindingsDisjoint
  <2> SUFFICES ASSUME Init PROVE \A p \in Pods : BoundOf(p) = {}
    BY DEF BindingsHeld, BindingsDisjoint
  <2>1. BlankPod.bound = {} /\ NoAdmission.pod = BlankPod
    BY DEF BlankPod, NoAdmission
  <2> QED
    BY <2>1 DEF Init, PodInit, BoundOf
<1>2. /\ TypeOK /\ TypeOK' /\ Coherence
      /\ BindingsHeld /\ BindingsDisjoint /\ [Next]_vars
      => (BindingsHeld /\ BindingsDisjoint)'
  BY BindingStep
<1> QED
  BY <1>1, <1>2, Typing, CoherenceInvariant, PTL DEF Spec

\* No ticket object is ever handed to two admitted pods.
THEOREM BindingExclusive == Spec => []ExclusiveBinding
<1>1. BindingsDisjoint => ExclusiveBinding
  BY DEF BindingsDisjoint, BoundOf, ExclusiveBinding
<1> QED
  BY <1>1, BindingInvariant, PTL

\* The ticket of a pod whose binding succeeded names that pod until it is gone.
THEOREM BindingRecorded == Spec => []BindRecorded
<1>1. TypeOK /\ Coherence /\ BindingsHeld => BindRecorded
  <2> SUFFICES ASSUME TypeOK, Coherence, BindingsHeld, NEW p \in Pods, NEW t \in Tickets,
                      <<t, tickets[t].uid>> \in pods[p].bound, tickets[t].exists
               PROVE  /\ tickets[t].claimedPod = p
                      /\ tickets[t].phase \in {"Claimed", "Expired"}
    BY DEF BindRecorded
  <2>1. tickets[t].uid \in Nat
    BY VersionsTyped
  <2>2. tickets[t].claimedPod = p
    BY <2>1 DEF BindingsHeld, BoundOf
  <2>3. Settled(tickets[t])
    BY DEF Coherence
  <2> QED
    BY <2>2, <2>3, PodsAssumption DEF Settled
<1> QED
  BY <1>1, Typing, CoherenceInvariant, BindingInvariant, PTL
==============================================================================
