---------------------------- MODULE GuardianProofs ----------------------------
(***************************************************************************)
(* Why a guardian belongs to the ticket of its name, and why none is left  *)
(* once a claimed ticket is recorded as released.  Names are reused and    *)
(* guardians are looked up by name, so the proof follows the uids: those   *)
(* of the ticket, of its cached copy, of the worker's copy and of the      *)
(* guardian's owner.  Then, with the same summary of the steps, why no     *)
(* claim is wasted, and why no wake-up of the controller is lost.          *)
(***************************************************************************)
EXTENDS ReservationProofs

------------------------------------------------------------------------------
(* What a step does to one ticket, its guardian and their copies *)

\* The worker runs a reconciliation of t.
Busy(t) == worker.call # "idle" /\ Wt = t

\* The worker does not begin with t, nor change its copy of it.
WorkerKeeps(t) == Busy(t)' => Busy(t) /\ Obj' = Obj /\ worker'.call = worker.call

\* The guardian of t is none that was not there before.
GuardianFades(t) ==
    /\ GuardianExists(guardians'[t])
         => GuardianExists(guardians[t]) /\ guardians'[t].owner = guardians[t].owner
    /\ GuardianLive(t)' => GuardianLive(t)

\* Nothing new is made or written, the cache may catch up.
Quiet(t) ==
    /\ tickets'[t] = tickets[t]
    /\ ticketCache'[t] = ticketCache[t] \/ ticketCache'[t] = tickets[t]
    /\ GuardianFades(t) /\ WorkerKeeps(t)

\* Somebody writes the ticket.
WrittenBy(t, old, new) ==
    \/ /\ ~new.guardianRef /\ new.phase = ""
       /\ new.exists => new.uid > old.uid
    \/ /\ old.exists /\ new.uid = old.uid
       /\ new.guardianRef = old.guardianRef
       /\ new.phase = old.phase \/ (old.phase = "Ready" /\ new.phase = "Claimed")
    \/ /\ Busy(t) /\ ~Busy(t)'
       /\ old.exists /\ new.uid = old.uid
       /\ Obj.uid = old.uid /\ new.guardianRef = Obj.guardianRef
       /\ new.phase = Obj.phase /\ Follows(old.phase, new.phase)

Written(t) ==
    /\ UNCHANGED <<ticketCache[t], guardians[t]>> /\ WorkerKeeps(t)
    /\ tickets'[t].uid >= tickets[t].uid
    /\ WrittenBy(t, tickets[t], tickets'[t])

Started(t) ==
    /\ UNCHANGED <<tickets, ticketCache, guardians>>
    /\ Busy(t)' /\ Starts(t, worker'.call, Obj')

Continued(t) ==
    /\ UNCHANGED <<tickets[t], ticketCache[t]>>
    /\ Busy(t) /\ Busy(t)' /\ Continues(worker'.call, Obj')

LEMMA StoredTyped ==
  ASSUME TypeOK, NEW t \in Tickets
  PROVE  /\ tickets[t] \in TicketObject /\ ticketCache[t] \in TicketObject
         /\ guardians[t] \in GuardianObject
         /\ tickets[t].uid \in Nat /\ ticketCache[t].uid \in Nat /\ guardians[t].owner \in Nat
         /\ Busy(t) => Obj \in TicketObject /\ Obj.uid \in Nat
<1>1. /\ tickets[t] \in TicketObject /\ ticketCache[t] \in TicketObject
      /\ guardians[t] \in GuardianObject
  BY DEF TypeOK, ApiTypeOK
<1>2. Busy(t) => Obj \in TicketObject
  BY WorkerTyped DEF Busy
<1> QED
  BY <1>1, <1>2 DEF TicketObject, GuardianObject

\* An object as stored, but for its resourceVersion.
LEMMA StoreWrites ==
  ASSUME TypeOK, NEW t \in Tickets, NEW obj \in TicketObject, Store(t, obj)
  PROVE  /\ \A u \in Tickets \ {t} : tickets'[u] = tickets[u]
         /\ tickets'[t].exists = obj.exists /\ tickets'[t].uid = obj.uid
         /\ tickets'[t].guardianRef = obj.guardianRef /\ tickets'[t].phase = obj.phase
         /\ tickets'[t].claimedPod = obj.claimedPod
<1>1. tickets' = [tickets EXCEPT ![t] = [obj EXCEPT !.rv = NextRv(t, obj)]]
  BY DEF Store
<1>2. /\ \A u \in Tickets \ {t} : tickets'[u] = tickets[u]
      /\ tickets'[t] = [obj EXCEPT !.rv = NextRv(t, obj)]
  BY <1>1 DEF TypeOK, ApiTypeOK
<1> QED
  BY <1>2 DEF TicketObject

LEMMA QuietKept ==
  ASSUME NEW t \in Tickets, tickets'[t] = tickets[t], ticketCache'[t] = ticketCache[t],
         guardians'[t] = guardians[t], UNCHANGED worker \/ worker' = Resting
  PROVE  Quiet(t)
  BY DEF Quiet, GuardianFades, GuardianLive, WorkerKeeps, Busy, Wt, Obj, Resting

\* Deleting a pod ends it, or marks it as terminating.
LEMMA DroppedFades ==
  ASSUME TypeOK, Wt \in Tickets, GuardianDropped
  PROVE  /\ \A t \in Tickets : GuardianFades(t)
         /\ \A t \in Tickets : t = Wt /\ Obj.guardianRef => ~GuardianLive(t)'
<1>1. guardians \in [Tickets -> GuardianObject]
  BY DEF TypeOK, ApiTypeOK
<1>2. ASSUME NEW t \in Tickets, guardians'[t] = guardians[t] PROVE GuardianFades(t)
  BY <1>2 DEF GuardianFades, GuardianLive
<1>3. CASE ~Obj.guardianRef
  BY <1>2, <1>3 DEF GuardianDropped
<1>4. CASE Obj.guardianRef
  <2>1. guardians' = [guardians EXCEPT ![Wt] = PodDeleted(@)]
    BY <1>4 DEF GuardianDropped
  <2>2. guardians'[Wt] = PodDeleted(guardians[Wt])
    BY <1>1, <2>1
  <2>3. ASSUME NEW t \in Tickets, t = Wt PROVE GuardianFades(t) /\ ~GuardianLive(t)'
    <3>1. guardians'[t] = PodDeleted(guardians[t]) /\ guardians[t] \in GuardianObject
      BY <1>1, <2>2, <2>3
    <3> DEFINE g == guardians[t]
               d == PodDeleted(g)
    <3>2. /\ GuardianExists(d) => GuardianExists(g) /\ d.owner = g.owner
          /\ GuardianExists(d) => d.terminating
      BY <3>1 DEF GuardianExists, PodDeleted, NoGuardian, GuardianObject
    <3> HIDE DEF d, g
    <3> QED
      BY <3>1, <3>2 DEF GuardianFades, GuardianLive, d, g
  <2>4. \A t \in Tickets \ {Wt} : guardians'[t] = guardians[t]
    BY <1>1, <2>1
  <2> QED
    BY <1>2, <2>3, <2>4
<1> QED
  BY <1>3, <1>4

------------------------------------------------------------------------------

LEMMA EnvShape ==
  ASSUME TypeOK, NEW s \in Tickets, EnvTicketStep(s), UNCHANGED <<worker, ticketCache>>
  PROVE  \A t \in Tickets : Quiet(t) \/ Written(t)
<1>1. tickets[s] \in TicketObject /\ guardians[s] \in GuardianObject /\ tickets[s].uid \in Nat
  BY StoredTyped
<1>2. \A t \in Tickets : WorkerKeeps(t)
  BY DEF WorkerKeeps, Busy, Wt, Obj
<1>3. ASSUME UNCHANGED guardians, \A t \in Tickets \ {s} : tickets'[t] = tickets[t],
             tickets'[s].uid >= tickets[s].uid, WrittenBy(s, tickets[s], tickets'[s])
      PROVE  \A t \in Tickets : Quiet(t) \/ Written(t)
  BY <1>2, <1>3, QuietKept DEF Written
<1>4. CASE CreateTicket(s)
  <2> DEFINE obj == [BlankTicket EXCEPT !.exists = TRUE, !.uid = tickets[s].uid + 1]
  <2>1. obj \in TicketObject
    <3>1. tickets[s].uid + 1 \in Nat
      BY <1>1
    <3> QED
      BY <3>1, BlankTyped DEF TicketObject
  <2>2. obj.uid = tickets[s].uid + 1 /\ ~obj.guardianRef /\ obj.phase = ""
    BY DEF BlankTicket
  <2>3. Store(s, obj) /\ UNCHANGED guardians
    BY <1>4 DEF CreateTicket
  <2> HIDE DEF obj
  <2>4. /\ \A t \in Tickets \ {s} : tickets'[t] = tickets[t]
        /\ tickets'[s].uid = tickets[s].uid + 1
        /\ ~tickets'[s].guardianRef /\ tickets'[s].phase = ""
    BY <2>1, <2>2, <2>3, StoreWrites
  <2>5. tickets[s].uid + 1 > tickets[s].uid /\ tickets[s].uid + 1 >= tickets[s].uid
    BY <1>1
  <2>6. tickets'[s].uid > tickets[s].uid /\ tickets'[s].uid >= tickets[s].uid
    BY <2>4, <2>5
  <2> QED
    BY <1>3, <2>3, <2>4, <2>6 DEF WrittenBy
<1>5. CASE DeleteTicket(s)
  <2> DEFINE obj == MarkDeleted(tickets[s])
  <2>1. obj \in TicketObject
    BY <1>1, EditsTyped
  <2>2. /\ obj.uid = tickets[s].uid
        /\ \/ obj.guardianRef = tickets[s].guardianRef /\ obj.phase = tickets[s].phase
           \/ ~obj.guardianRef /\ obj.phase = "" /\ ~obj.exists
    BY <1>1 DEF MarkDeleted, Removed, BlankTicket, TicketObject
  <2>3. Store(s, obj) /\ tickets[s].exists /\ UNCHANGED guardians
    BY <1>5 DEF DeleteTicket
  <2> HIDE DEF obj
  <2>4. /\ \A t \in Tickets \ {s} : tickets'[t] = tickets[t]
        /\ tickets'[s].uid = obj.uid /\ tickets'[s].exists = obj.exists
        /\ tickets'[s].guardianRef = obj.guardianRef /\ tickets'[s].phase = obj.phase
    BY <2>1, <2>3, StoreWrites
  <2>5. tickets'[s].uid >= tickets[s].uid
    <3>1. tickets'[s].uid = tickets[s].uid
      BY <2>2, <2>4
    <3> QED
      BY <1>1, <3>1
  <2>6. WrittenBy(s, tickets[s], tickets'[s])
    BY <2>2, <2>3, <2>4 DEF WrittenBy
  <2> QED
    BY <1>3, <2>3, <2>4, <2>5, <2>6
<1>6. CASE EditTicket(s)
  <2>1. tickets' = [tickets EXCEPT ![s].rv = @ + 1] /\ tickets[s].exists /\ UNCHANGED guardians
    BY <1>6 DEF EditTicket
  <2>2. /\ \A t \in Tickets \ {s} : tickets'[t] = tickets[t]
        /\ tickets'[s] = [tickets[s] EXCEPT !.rv = @ + 1]
    BY <2>1 DEF TypeOK, ApiTypeOK
  <2>3. /\ tickets'[s].uid = tickets[s].uid /\ tickets'[s].phase = tickets[s].phase
        /\ tickets'[s].guardianRef = tickets[s].guardianRef
    BY <1>1, <2>2 DEF TicketObject
  <2> QED
    BY <1>1, <1>3, <2>1, <2>2, <2>3 DEF WrittenBy
<1>7. CASE WindowElapses(s)
  BY <1>7, QuietKept DEF WindowElapses
<1>8. ASSUME NEW g, GuardianStep(s, g),
             GuardianExists(g) => GuardianExists(guardians[s]) /\ g.owner = guardians[s].owner,
             GuardianExists(g) /\ ~g.terminating
               => GuardianExists(guardians[s]) /\ ~guardians[s].terminating
      PROVE  \A t \in Tickets : Quiet(t) \/ Written(t)
  <2>1. UNCHANGED <<tickets, ticketCache>> /\ guardians' = [guardians EXCEPT ![s] = g]
    BY <1>8 DEF GuardianStep
  <2>2. /\ \A t \in Tickets \ {s} : guardians'[t] = guardians[t]
        /\ guardians'[s] = g
    BY <2>1 DEF TypeOK, ApiTypeOK
  <2>3. Quiet(s)
    BY <1>2, <1>8, <2>1, <2>2 DEF Quiet, GuardianFades, GuardianLive
  <2> QED
    BY <2>1, <2>2, <2>3, QuietKept
<1>9. ASSUME NEW n \in Nodes, ScheduleGuardian(s, n) PROVE \A t \in Tickets : Quiet(t) \/ Written(t)
  BY <1>1, <1>8, <1>9 DEF ScheduleGuardian, GuardianObject, GuardianExists
<1>10. CASE StartGuardian(s)
  BY <1>1, <1>8, <1>10 DEF StartGuardian, GuardianObject, GuardianExists
<1>11. CASE EvictGuardian(s)
  BY <1>1, <1>8, <1>11
  DEF EvictGuardian, PodDeleted, NoGuardian, GuardianObject, GuardianExists
<1>12. CASE FailGuardian(s)
  BY <1>1, <1>8, <1>12 DEF FailGuardian, GuardianObject, GuardianExists
<1>13. CASE FinishGuardian(s)
  BY <1>1, <1>8, <1>13 DEF FinishGuardian, NoGuardian, GuardianExists
<1>14. CASE CollectGuardian(s)
  BY <1>1, <1>8, <1>14
  DEF CollectGuardian, PodDeleted, NoGuardian, GuardianObject, GuardianExists
<1> QED
  BY <1>4, <1>5, <1>6, <1>7, <1>9, <1>10, <1>11, <1>12, <1>13, <1>14 DEF EnvTicketStep

LEMMA PodShape ==
  ASSUME TypeOK, Coherence, NEW p \in Pods, PodStep(p),
         UNCHANGED <<worker, ticketCache, guardians>>
  PROVE  \A t \in Tickets : Quiet(t) \/ Written(t)
<1> DEFINE a == admissions[p]
<1>1. CASE Bind(p)
  <2>1. /\ a.t \in Tickets /\ a.copy \in TicketObject
        /\ Store(a.t, Claimed(a.copy, p)) /\ Current(a.t, a.copy)
    BY <1>1 DEF Bind, TypeOK, PodTypeOK, Admission
  <2>2. a.copy = tickets[a.t] /\ a.copy.phase = "Ready" /\ tickets[a.t].exists
    BY <1>1, <2>1 DEF Bind, Current, Coherence, AdmissionCopy, ReadCopy
  <2> DEFINE obj == Claimed(a.copy, p)
  <2>3. /\ obj \in TicketObject /\ obj.uid = a.copy.uid /\ obj.phase = "Claimed"
        /\ obj.guardianRef = a.copy.guardianRef
    BY <2>1 DEF Claimed, TicketObject, Phases
  <2> HIDE DEF obj
  <2>4. /\ \A t \in Tickets \ {a.t} : tickets'[t] = tickets[t]
        /\ tickets'[a.t].uid = obj.uid
        /\ tickets'[a.t].guardianRef = obj.guardianRef /\ tickets'[a.t].phase = obj.phase
    BY <2>1, <2>3, StoreWrites DEF obj
  <2>5. tickets'[a.t].uid = tickets[a.t].uid
    BY <2>2, <2>3, <2>4
  <2>6. tickets'[a.t].uid >= tickets[a.t].uid
    BY <2>1, <2>5, StoredTyped
  <2>7. ASSUME NEW t \in Tickets, t = a.t PROVE Written(t)
    BY <2>2, <2>3, <2>4, <2>5, <2>6, <2>7
    DEF Written, WrittenBy, WorkerKeeps, Busy, Wt, Obj
  <2> QED
    BY <2>4, <2>7, QuietKept
<1>2. CASE UNCHANGED tickets
  BY <1>2, QuietKept
<1> QED
  BY <1>1, <1>2
  DEF PodStep, SubmitCreate, SubmitDryRun, SubmitUpdate, Find, BindFails, Decide,
      TimeOut, SchedulePod, DeletePod, apiVars

LEMMA WorkerShape ==
  ASSUME TypeOK, TypeOK', Coherence, LifeInv, WorkerStep
  PROVE  \A t \in Tickets : Quiet(t) \/ Written(t) \/ Continued(t)
<1>1. worker.call # "idle" /\ Writes
  BY WorkerSummary
<1>2. Wt \in Tickets /\ Obj \in TicketObject
  BY <1>1, WorkerTyped
<1>3. CASE \E call \in Calls, obj \in TicketObject : Continues(call, obj)
  <2>1. PICK call \in Calls, obj \in TicketObject : Continues(call, obj)
    BY <1>3
  <2>2. worker \in [call : Calls, t : Tickets, obj : TicketObject]
    BY <1>1, WorkerTyped
  <2>3. worker'.call = call /\ Obj' = obj /\ Wt' = Wt
    BY <2>1, <2>2 DEF Continues, Proceed, Wt, Obj
  <2>4. UNCHANGED <<tickets, ticketCache>>
    BY <2>1 DEF Continues
  <2>5. ASSUME NEW t \in Tickets, t = Wt PROVE Continued(t)
    BY <1>1, <2>1, <2>3, <2>4, <2>5 DEF Continued, Busy, Calls
  <2>6. ASSUME NEW t \in Tickets, t # Wt PROVE Quiet(t)
    <3>1. guardians'[t] = guardians[t]
      BY <2>1, <2>6 DEF Continues, GuardianMade, GuardianDropped, TypeOK, ApiTypeOK
    <3> QED
      BY <2>3, <2>4, <2>6, <3>1 DEF Quiet, GuardianFades, GuardianLive, WorkerKeeps, Busy
  <2> QED
    BY <2>5, <2>6
<1>4. CASE Ends /\ UNCHANGED tickets
  <2>1. \A t \in Tickets : WorkerKeeps(t)
    BY <1>4 DEF Ends, Resting, WorkerKeeps, Busy
  <2>2. \A t \in Tickets : GuardianFades(t)
    BY <1>2, <1>4, DroppedFades DEF Ends, GuardianFades, GuardianLive
  <2> QED
    BY <1>4, <2>1, <2>2 DEF Quiet, Ends
<1>5. CASE Ends /\ tickets' # tickets
  <2>1. UNCHANGED <<ticketCache, guardians>> /\ worker' = Resting
    BY <1>5 DEF Ends
  <2>2. \A t \in Tickets : WorkerKeeps(t) /\ ~Busy(t)'
    BY <2>1 DEF Resting, WorkerKeeps, Busy
  <2>3. ASSUME \A t \in Tickets \ {Wt} : tickets'[t] = tickets[t],
               tickets'[Wt].uid = tickets[Wt].uid,
               \A t \in Tickets : t = Wt => WrittenBy(t, tickets[t], tickets'[t])
        PROVE  \A t \in Tickets : Quiet(t) \/ Written(t)
    <3>1. ASSUME NEW t \in Tickets, t = Wt PROVE Written(t)
      <4>1. tickets'[t].uid = tickets[t].uid /\ tickets[t].uid \in Nat
        BY <2>3, <3>1, StoredTyped
      <4>2. tickets'[t].uid >= tickets[t].uid
        BY <4>1
      <4> QED
        BY <2>1, <2>2, <2>3, <3>1, <4>2 DEF Written
    <3> QED
      BY <2>1, <2>3, <3>1, QuietKept
  <2>4. CASE /\ worker.call \in {"addFinalizer", "updateStatus"}
             /\ Current(Wt, Obj) /\ Store(Wt, Obj)
    <3>1. /\ tickets[Wt].exists /\ Obj.uid = tickets[Wt].uid
          /\ Follows(tickets[Wt].phase, Obj.phase)
      BY <1>1, <2>4
      DEF Current, Coherence, WorkerCopy, LifeInv, WorkerPlan, Follows
    <3>2. /\ \A t \in Tickets \ {Wt} : tickets'[t] = tickets[t]
          /\ tickets'[Wt].uid = Obj.uid
          /\ tickets'[Wt].guardianRef = Obj.guardianRef /\ tickets'[Wt].phase = Obj.phase
      BY <1>2, <2>4, StoreWrites
    <3>3. ASSUME NEW t \in Tickets, t = Wt PROVE WrittenBy(t, tickets[t], tickets'[t])
      BY <1>1, <2>2, <3>1, <3>2, <3>3 DEF WrittenBy, Busy
    <3> QED
      BY <2>3, <3>1, <3>2, <3>3
  <2>5. CASE /\ worker.call = "deleteTicket"
             /\ tickets[Wt].exists /\ Store(Wt, MarkDeleted(tickets[Wt]))
    <3> DEFINE obj == MarkDeleted(tickets[Wt])
    <3>1. tickets[Wt] \in TicketObject
      BY <1>2, StoredTyped
    <3>2. obj \in TicketObject
      BY <3>1, EditsTyped
    <3>3. /\ obj.uid = tickets[Wt].uid
          /\ \/ obj.guardianRef = tickets[Wt].guardianRef /\ obj.phase = tickets[Wt].phase
             \/ ~obj.guardianRef /\ obj.phase = "" /\ ~obj.exists
      BY <3>1 DEF MarkDeleted, Removed, BlankTicket, TicketObject
    <3> HIDE DEF obj
    <3>4. /\ \A t \in Tickets \ {Wt} : tickets'[t] = tickets[t]
          /\ tickets'[Wt].uid = obj.uid /\ tickets'[Wt].exists = obj.exists
          /\ tickets'[Wt].guardianRef = obj.guardianRef /\ tickets'[Wt].phase = obj.phase
      BY <1>2, <2>5, <3>2, StoreWrites DEF obj
    <3>5. ASSUME NEW t \in Tickets, t = Wt PROVE WrittenBy(t, tickets[t], tickets'[t])
      BY <2>5, <3>3, <3>4, <3>5 DEF WrittenBy
    <3> QED
      BY <2>3, <3>3, <3>4, <3>5
  <2>6. CASE Current(Wt, Obj) /\ Store(Wt, Removed(Obj))
    <3>1. Removed(Obj) \in TicketObject
      BY <1>2, EditsTyped
    <3>2. /\ ~Removed(Obj).exists /\ Removed(Obj).uid = Obj.uid
          /\ ~Removed(Obj).guardianRef /\ Removed(Obj).phase = ""
      BY DEF Removed, BlankTicket
    <3>3. Obj.uid = tickets[Wt].uid
      BY <1>1, <2>6 DEF Current, Coherence, WorkerCopy
    <3>4. /\ \A t \in Tickets \ {Wt} : tickets'[t] = tickets[t]
          /\ tickets'[Wt].uid = Obj.uid /\ ~tickets'[Wt].exists
          /\ ~tickets'[Wt].guardianRef /\ tickets'[Wt].phase = ""
      BY <1>2, <2>6, <3>1, <3>2, StoreWrites
    <3>5. ASSUME NEW t \in Tickets, t = Wt PROVE WrittenBy(t, tickets[t], tickets'[t])
      BY <3>4, <3>5 DEF WrittenBy
    <3> QED
      BY <2>3, <3>3, <3>4, <3>5
  <2> QED
    BY <1>1, <1>5, <2>4, <2>5, <2>6 DEF Writes
<1> QED
  BY <1>3, <1>4, <1>5, WorkerSummary

LEMMA StepShape ==
  ASSUME TypeOK, TypeOK', Coherence, LifeInv, [Next]_vars, NEW t \in Tickets
  PROVE  Quiet(t) \/ Written(t) \/ Started(t) \/ Continued(t)
<1>1. CASE UNCHANGED vars
  BY <1>1, QuietKept DEF vars, apiVars, controllerVars
<1>2. CASE \E s \in Tickets : EnvTicketStep(s) /\ UNCHANGED <<worker, ticketCache>>
  BY <1>2, EnvShape
<1>3. CASE \E p \in Pods : PodStep(p) /\ UNCHANGED <<worker, ticketCache, guardians>>
  BY <1>3, PodShape
<1>4. CASE /\ UNCHANGED <<tickets, guardians>>
           /\ UNCHANGED worker \/ worker' = Resting
           /\ ticketCache'[t] = ticketCache[t] \/ ticketCache'[t] = tickets[t]
  BY <1>4
  DEF Quiet, GuardianFades, GuardianLive, WorkerKeeps, Busy, Wt, Obj, Resting
<1>5. ASSUME NEW s \in Tickets, ticketCache' = [ticketCache EXCEPT ![s] = tickets[s]]
      PROVE  ticketCache'[t] = ticketCache[t] \/ ticketCache'[t] = tickets[t]
  BY <1>5 DEF TypeOK, ApiTypeOK
<1>6. ASSUME NEW s \in Tickets, NEW call \in Calls, NEW obj \in TicketObject,
             Starts(s, call, obj)
      PROVE  Quiet(t) \/ Started(t)
  <2>1. /\ worker'.call = call /\ Wt' = s /\ Obj' = obj
        /\ UNCHANGED <<tickets, ticketCache, guardians>>
    BY <1>6 DEF Starts, Begin, Wt, Obj, apiVars
  <2>2. CASE s = t
    BY <1>6, <2>1, <2>2 DEF Started, Busy, Calls
  <2>3. CASE s # t
    BY <2>1, <2>3 DEF Quiet, GuardianFades, GuardianLive, WorkerKeeps, Busy
  <2> QED
    BY <2>2, <2>3
<1> QED
  BY <1>1, <1>2, <1>3, <1>4, <1>5, <1>6, StepSummary, WorkerShape

------------------------------------------------------------------------------
(* The strengthening *)

Spared == {"Claimed", "Expired"}

\* The uids of a ticket, its cached copy, the worker's copy and the guardian's
\* owner: each is no newer than the one before.
Uids(t) ==
    /\ ticketCache[t].uid <= tickets[t].uid
    /\ GuardianExists(guardians[t]) => guardians[t].owner <= ticketCache[t].uid
    /\ Busy(t) => /\ Obj.uid <= ticketCache[t].uid
                  /\ GuardianExists(guardians[t]) => guardians[t].owner <= Obj.uid

\* No guardian of an earlier ticket is left when copy refers to one, and a ready
\* ticket refers to one.
CopyRefers(t, copy) ==
    /\ copy.guardianRef /\ GuardianExists(guardians[t]) => guardians[t].owner >= copy.uid
    /\ copy.phase = "Ready" => copy.guardianRef

\* A ticket gets its reference from a worker that has read that very ticket.
Refs(t) ==
    /\ CopyRefers(t, tickets[t]) /\ CopyRefers(t, ticketCache[t])
    /\ Busy(t) => CopyRefers(t, Obj)
    /\ Busy(t) /\ worker.call = "checkGuardian" => Obj.guardianRef
    /\ tickets[t].guardianRef => ticketCache[t].uid >= tickets[t].uid
    /\ Busy(t) => /\ tickets[t].guardianRef => Obj.uid >= tickets[t].uid
                  /\ ticketCache[t].guardianRef => Obj.uid >= ticketCache[t].uid

\* Ticket u is claimed or expired, for whoever reads it ...
Past(t, u) ==
    /\ tickets[t].exists /\ tickets[t].uid = u => tickets[t].phase \in Spared
    /\ ticketCache[t].exists /\ ticketCache[t].uid = u => ticketCache[t].phase \in Spared

\* ... and its guardian is gone, with no worker about to make another one.
Spent(t, u) ==
    /\ Past(t, u)
    /\ ~(GuardianLive(t) /\ guardians[t].owner = u)
    /\ Busy(t) /\ Obj.uid = u => worker.call \notin {"createGuardian", "checkGuardian"}

CopySpent(t, copy) == copy.phase = "Claimed" /\ ~copy.guardianRef => Spent(t, copy.uid)

CopyPast(t, copy) == copy.phase = "Claimed" => Past(t, copy.uid)

Releases(t) ==
    /\ CopySpent(t, tickets[t]) /\ CopySpent(t, ticketCache[t])
    /\ Busy(t) => CopySpent(t, Obj)
    /\ CopyPast(t, ticketCache[t])
    /\ Busy(t) => CopyPast(t, Obj)

GuardianInv == \A t \in Tickets : Uids(t) /\ Refs(t) /\ Releases(t)

------------------------------------------------------------------------------
(* It is inductive, step by step *)

LEMMA UidsKept ==
  ASSUME TypeOK, TypeOK', NEW t \in Tickets, Uids(t), Refs(t),
         Quiet(t) \/ Written(t) \/ Started(t) \/ Continued(t)
  PROVE  Uids(t)'
<1>1. /\ tickets[t].uid \in Nat /\ ticketCache[t].uid \in Nat /\ guardians[t].owner \in Nat
      /\ Busy(t) => Obj.uid \in Nat
  BY StoredTyped
<1>2. tickets'[t].uid \in Nat /\ guardians'[t].owner \in Nat
  BY DEF TypeOK, ApiTypeOK, TicketObject, GuardianObject
<1>3. CASE Quiet(t)
  BY <1>1, <1>3 DEF Quiet, GuardianFades, WorkerKeeps, Uids
<1>4. CASE Written(t)
  <2>1. /\ ticketCache'[t].uid <= tickets'[t].uid
    BY <1>1, <1>2, <1>4 DEF Written, Uids
  <2> QED
    BY <1>4, <2>1 DEF Written, WorkerKeeps, Uids
<1>5. CASE Started(t)
  <2>1. UNCHANGED <<tickets, ticketCache, guardians>> /\ Obj'.uid = ticketCache[t].uid
    BY <1>5 DEF Started, Starts, Edited
  <2>2. ticketCache[t].uid <= ticketCache[t].uid
    BY <1>1
  <2> QED
    BY <2>1, <2>2 DEF Uids
<1>6. CASE Continued(t)
  <2>1. Busy(t) /\ Busy(t)' /\ Obj'.uid = Obj.uid /\ Obj.uid \in Nat
    BY <1>1, <1>6 DEF Continued, Continues, Edited
  <2>2. \/ guardians'[t] = NewGuardian
        \/ GuardianFades(t)
    <3>1. Wt = t /\ Continues(worker'.call, Obj')
      BY <1>6 DEF Continued, Busy
    <3>2. CASE GuardianMade
      BY <3>1, <3>2 DEF GuardianMade, TypeOK, ApiTypeOK
    <3>3. CASE GuardianDropped
      BY <3>1, <3>3, DroppedFades
    <3>4. CASE UNCHANGED guardians
      BY <3>4 DEF GuardianFades, GuardianLive
    <3> QED
      BY <3>1, <3>2, <3>3, <3>4 DEF Continues
  <2>3. NewGuardian.owner = Obj.uid
    BY DEF NewGuardian
  <2>4. UNCHANGED <<tickets[t], ticketCache[t]>>
    BY <1>6 DEF Continued
  <2>5. GuardianExists(guardians'[t]) => guardians'[t].owner <= Obj.uid
    BY <2>1, <2>2, <2>3 DEF Uids, GuardianFades
  <2>6. GuardianExists(guardians'[t]) => guardians'[t].owner <= ticketCache[t].uid
    BY <1>1, <1>2, <2>1, <2>5 DEF Uids
  <2> QED
    BY <2>1, <2>4, <2>5, <2>6 DEF Uids
<1> QED
  BY <1>3, <1>4, <1>5, <1>6

\* A reference stays one as long as no guardian is made for an earlier ticket.
LEMMA CopyRefersKept ==
  ASSUME NEW t \in Tickets, NEW copy, CopyRefers(t, copy), GuardianFades(t)
  PROVE  /\ copy.guardianRef /\ GuardianExists(guardians'[t])
              => guardians'[t].owner >= copy.uid
         /\ copy.phase = "Ready" => copy.guardianRef
  BY DEF CopyRefers, GuardianFades

LEMMA RefsKept ==
  ASSUME TypeOK, TypeOK', NEW t \in Tickets, Uids(t), Refs(t),
         Quiet(t) \/ Written(t) \/ Started(t) \/ Continued(t)
  PROVE  Refs(t)'
<1>1. /\ tickets[t].uid \in Nat /\ ticketCache[t].uid \in Nat /\ guardians[t].owner \in Nat
      /\ Busy(t) => Obj.uid \in Nat
  BY StoredTyped
<1>2. CASE Quiet(t)
  <2>1. /\ CopyRefers(t, tickets[t])' /\ CopyRefers(t, ticketCache[t])'
        /\ Busy(t)' => CopyRefers(t, Obj)'
    BY <1>2, CopyRefersKept DEF Quiet, WorkerKeeps, Refs, CopyRefers
  <2>2. /\ tickets'[t].guardianRef => ticketCache'[t].uid >= tickets'[t].uid
        /\ Busy(t)' => /\ tickets'[t].guardianRef => Obj'.uid >= tickets'[t].uid
                       /\ ticketCache'[t].guardianRef => Obj'.uid >= ticketCache'[t].uid
    BY <1>1, <1>2 DEF Quiet, WorkerKeeps, Refs
  <2>3. Busy(t)' /\ worker'.call = "checkGuardian" => Obj'.guardianRef
    BY <1>2 DEF Quiet, WorkerKeeps, Refs
  <2> QED
    BY <2>1, <2>2, <2>3 DEF Refs
<1>3. CASE Written(t)
  <2>1. UNCHANGED <<ticketCache[t], guardians[t]>> /\ WorkerKeeps(t)
    BY <1>3 DEF Written
  <2>2. /\ CopyRefers(t, ticketCache[t])'
        /\ Busy(t)' => CopyRefers(t, Obj)'
        /\ Busy(t)' /\ worker'.call = "checkGuardian" => Obj'.guardianRef
        /\ Busy(t)' => (ticketCache'[t].guardianRef => Obj'.uid >= ticketCache'[t].uid)
    BY <2>1 DEF WorkerKeeps, Refs, CopyRefers
  <2>3. CASE ~tickets'[t].guardianRef /\ tickets'[t].phase = ""
    BY <2>2, <2>3 DEF Refs, CopyRefers
  <2>4. CASE /\ tickets'[t].uid = tickets[t].uid
             /\ tickets'[t].guardianRef = tickets[t].guardianRef
             /\ \/ tickets'[t].phase = tickets[t].phase
                \/ tickets[t].phase = "Ready" /\ tickets'[t].phase = "Claimed"
    <3>1. CopyRefers(t, tickets[t])'
      BY <2>1, <2>4 DEF Refs, CopyRefers
    <3>2. /\ tickets'[t].guardianRef => ticketCache'[t].uid >= tickets'[t].uid
          /\ Busy(t)' => (tickets'[t].guardianRef => Obj'.uid >= tickets'[t].uid)
      BY <2>1, <2>4 DEF Refs, WorkerKeeps
    <3> QED
      BY <2>2, <3>1, <3>2 DEF Refs
  <2>5. CASE /\ Busy(t) /\ ~Busy(t)' /\ tickets'[t].uid = Obj.uid
             /\ tickets'[t].guardianRef = Obj.guardianRef /\ tickets'[t].phase = Obj.phase
    <3>1. CopyRefers(t, tickets[t])'
      BY <2>1, <2>5 DEF Refs, CopyRefers
    <3>2. ticketCache'[t].uid >= tickets'[t].uid
      BY <1>1, <2>1, <2>5 DEF Uids
    <3> QED
      BY <2>2, <2>5, <3>1, <3>2 DEF Refs
  <2> QED
    BY <1>3, <2>3, <2>4, <2>5 DEF Written, WrittenBy
<1>4. CASE Started(t)
  <2>1. /\ UNCHANGED <<tickets, ticketCache, guardians>> /\ Busy(t)'
        /\ Obj'.uid = ticketCache[t].uid /\ Obj'.guardianRef = ticketCache[t].guardianRef
        /\ Obj'.phase # "Ready" \/ Obj'.phase = ticketCache[t].phase
        /\ worker'.call = "checkGuardian" => Obj'.guardianRef
    BY <1>4 DEF Started, Starts, Edited
  <2>2. /\ CopyRefers(t, tickets[t])' /\ CopyRefers(t, ticketCache[t])'
        /\ CopyRefers(t, Obj)'
    BY <2>1 DEF Refs, CopyRefers
  <2> QED
    BY <1>1, <2>1, <2>2 DEF Refs
<1>5. CASE Continued(t)
  <2>1. /\ Wt = t /\ Busy(t) /\ Busy(t)' /\ Continues(worker'.call, Obj')
        /\ UNCHANGED <<tickets[t], ticketCache[t]>>
        /\ Obj'.uid = Obj.uid /\ Obj.uid \in Nat
    BY <1>1, <1>5 DEF Continued, Continues, Edited, Busy
  <2>2. /\ tickets'[t].guardianRef => ticketCache'[t].uid >= tickets'[t].uid
        /\ Busy(t)' => /\ tickets'[t].guardianRef => Obj'.uid >= tickets'[t].uid
                       /\ ticketCache'[t].guardianRef => Obj'.uid >= ticketCache'[t].uid
    BY <2>1 DEF Refs
  <2>3. worker'.call = "checkGuardian" => Obj'.guardianRef
    BY <2>1 DEF Continues
  <2>4. Obj'.phase = "Ready" => Obj'.guardianRef
    BY <2>1 DEF Continues, Refs, CopyRefers
  <2>5. CASE GuardianFades(t) /\ (Obj'.guardianRef => Obj.guardianRef)
    <3>1. /\ CopyRefers(t, tickets[t])' /\ CopyRefers(t, ticketCache[t])'
      BY <2>1, <2>5, CopyRefersKept DEF Refs, CopyRefers
    <3>2. CopyRefers(t, Obj)'
      BY <2>1, <2>4, <2>5 DEF Refs, CopyRefers, GuardianFades
    <3> QED
      BY <2>2, <2>3, <3>1, <3>2 DEF Refs
  <2>6. CASE GuardianMade
    <3>1. guardians'[t].owner = Obj.uid
      BY <2>1, <2>6 DEF GuardianMade, NewGuardian, TypeOK, ApiTypeOK
    <3>2. /\ tickets[t].guardianRef => Obj.uid >= tickets[t].uid
          /\ ticketCache[t].guardianRef => Obj.uid >= ticketCache[t].uid
          /\ Obj.uid >= Obj.uid
      BY <2>1 DEF Refs
    <3>3. /\ CopyRefers(t, tickets[t])' /\ CopyRefers(t, ticketCache[t])'
          /\ CopyRefers(t, Obj)'
      BY <2>1, <2>4, <3>1, <3>2 DEF Refs, CopyRefers
    <3> QED
      BY <2>2, <2>3, <3>3 DEF Refs
  <2>7. \/ GuardianMade
        \/ (UNCHANGED guardians \/ GuardianDropped) /\ (Obj'.guardianRef => Obj.guardianRef)
    BY <2>1 DEF Continues
  <2>8. UNCHANGED guardians => GuardianFades(t)
    BY DEF GuardianFades, GuardianLive
  <2> QED
    BY <2>1, <2>5, <2>6, <2>7, <2>8, DroppedFades
<1> QED
  BY <1>2, <1>3, <1>4, <1>5

\* Past is for good: a new ticket of that name has a higher uid.
LEMMA PastKept ==
  ASSUME TypeOK, TypeOK', NEW t \in Tickets, NEW u \in Nat, Past(t, u),
         u <= tickets[t].uid,
         Quiet(t) \/ Written(t) \/ Started(t) \/ Continued(t)
  PROVE  Past(t, u)'
<1>1. CASE Quiet(t)
  BY <1>1 DEF Quiet, Past
<1>2. CASE Started(t) \/ Continued(t)
  BY <1>2 DEF Started, Continued, Past
<1>3. CASE Written(t)
  <2>1. ticketCache'[t] = ticketCache[t] /\ WrittenBy(t, tickets[t], tickets'[t])
    BY <1>3 DEF Written
  <2>2. tickets[t].uid \in Nat /\ tickets'[t].uid \in Nat
    BY DEF TypeOK, ApiTypeOK, TicketObject
  <2>3. ASSUME tickets'[t].exists, tickets'[t].uid = u PROVE tickets'[t].phase \in Spared
    <3>1. ~(tickets'[t].uid > tickets[t].uid)
      BY <2>2, <2>3
    <3>2. /\ tickets[t].exists /\ tickets[t].uid = u
          /\ \/ tickets'[t].phase = tickets[t].phase
             \/ tickets[t].phase = "Ready" /\ tickets'[t].phase = "Claimed"
             \/ Follows(tickets[t].phase, tickets'[t].phase)
      BY <2>1, <2>3, <3>1 DEF WrittenBy
    <3>3. tickets[t].phase \in Spared
      BY <3>2 DEF Past
    <3> QED
      BY <3>2, <3>3 DEF Spared, Follows, PhaseMoves
  <2> QED
    BY <2>1, <2>3 DEF Past
<1> QED
  BY <1>1, <1>2, <1>3

LEMMA SpentKept ==
  ASSUME TypeOK, TypeOK', NEW t \in Tickets, NEW u \in Nat, Spent(t, u),
         u <= tickets[t].uid,
         Quiet(t) \/ Written(t) \/ Started(t) \/ Continued(t)
  PROVE  Spent(t, u)'
<1>1. Past(t, u)'
  BY PastKept DEF Spent
<1>2. ASSUME GuardianFades(t) PROVE ~(GuardianLive(t)' /\ guardians'[t].owner = u)
  BY <1>2 DEF GuardianFades, GuardianLive, Spent
<1>3. CASE Quiet(t)
  BY <1>1, <1>2, <1>3 DEF Quiet, WorkerKeeps, Spent
<1>4. CASE Written(t)
  BY <1>1, <1>4 DEF Written, WorkerKeeps, Spent, GuardianLive
<1>5. CASE Started(t)
  <2>1. /\ UNCHANGED guardians /\ Obj'.uid = ticketCache[t].uid /\ ticketCache[t].exists
        /\ worker'.call = "createGuardian" => ticketCache[t].phase \in {"", "Pending"}
        /\ worker'.call = "checkGuardian" => ticketCache[t].phase = "Ready"
    BY <1>5 DEF Started, Starts, Edited
  <2> QED
    BY <1>1, <2>1 DEF Spent, Past, Spared, GuardianLive
<1>6. CASE Continued(t)
  <2>1. /\ Wt = t /\ Busy(t) /\ Continues(worker'.call, Obj') /\ Obj'.uid = Obj.uid
    BY <1>6 DEF Continued, Continues, Edited, Busy
  <2>2. worker'.call \in {"createGuardian", "checkGuardian"}
          => worker.call \in {"createGuardian", "checkGuardian"}
    BY <2>1 DEF Continues
  <2>3. CASE worker.call = "createGuardian" /\ GuardianMade
    <3>1. guardians'[t].owner = Obj.uid
      BY <2>1, <2>3 DEF GuardianMade, NewGuardian, TypeOK, ApiTypeOK
    <3>2. Obj.uid # u
      BY <2>1, <2>3 DEF Spent
    <3> QED
      BY <1>1, <2>1, <3>1, <3>2 DEF Spent
  <2>4. CASE GuardianFades(t)
    BY <1>1, <1>2, <2>1, <2>2, <2>4 DEF Spent
  <2>5. UNCHANGED guardians => GuardianFades(t)
    BY DEF GuardianFades, GuardianLive
  <2>6. \/ worker.call = "createGuardian" /\ GuardianMade
        \/ UNCHANGED guardians \/ GuardianDropped
    BY <2>1 DEF Continues
  <2> QED
    BY <2>1, <2>3, <2>4, <2>5, <2>6, DroppedFades
<1> QED
  BY <1>3, <1>4, <1>5, <1>6

LEMMA ReleasesKept ==
  ASSUME TypeOK, TypeOK', NEW t \in Tickets, Uids(t), Refs(t), Releases(t),
         Quiet(t) \/ Written(t) \/ Started(t) \/ Continued(t)
  PROVE  Releases(t)'
<1>1. /\ tickets[t].uid \in Nat /\ ticketCache[t].uid \in Nat
      /\ Busy(t) => Obj.uid \in Nat
  BY StoredTyped
<1>2. /\ tickets[t].uid <= tickets[t].uid /\ ticketCache[t].uid <= tickets[t].uid
      /\ Busy(t) => Obj.uid <= tickets[t].uid
  BY <1>1 DEF Uids
\* Every copy of t that there was keeps what is said of it.
<1>3. ASSUME NEW copy, copy = tickets[t] \/ copy = ticketCache[t] \/ (Busy(t) /\ copy = Obj)
      PROVE  copy.phase = "Claimed" /\ ~copy.guardianRef => Spent(t, copy.uid)'
  <2>1. copy.uid \in Nat /\ copy.uid <= tickets[t].uid
    BY <1>1, <1>2, <1>3
  <2>2. CopySpent(t, copy)
    BY <1>3 DEF Releases
  <2>3. ASSUME NEW u \in Nat, u = copy.uid, Spent(t, u) PROVE Spent(t, u)'
    BY <2>1, <2>3, SpentKept
  <2> QED
    BY <2>1, <2>2, <2>3 DEF CopySpent
<1>4. ASSUME NEW copy, copy = ticketCache[t] \/ (Busy(t) /\ copy = Obj)
      PROVE  copy.phase = "Claimed" => Past(t, copy.uid)'
  <2>1. copy.uid \in Nat /\ copy.uid <= tickets[t].uid
    BY <1>1, <1>2, <1>4
  <2>2. CopyPast(t, copy)
    BY <1>4 DEF Releases
  <2>3. ASSUME NEW u \in Nat, u = copy.uid, Past(t, u) PROVE Past(t, u)'
    BY <2>1, <2>3, PastKept
  <2> QED
    BY <2>1, <2>2, <2>3 DEF CopyPast
<1>5. /\ CopySpent(t, tickets[t]) /\ CopySpent(t, ticketCache[t])
      /\ CopyPast(t, ticketCache[t])
  BY DEF Releases
<1>6. ASSUME tickets'[t] = tickets[t] PROVE CopySpent(t, tickets[t])'
  BY <1>3, <1>6 DEF CopySpent
<1>7. ASSUME ticketCache'[t] = ticketCache[t]
      PROVE  CopySpent(t, ticketCache[t])' /\ CopyPast(t, ticketCache[t])'
  BY <1>3, <1>4, <1>7 DEF CopySpent, CopyPast
<1>8. ASSUME WorkerKeeps(t), Busy(t)' PROVE CopySpent(t, Obj)' /\ CopyPast(t, Obj)'
  <2>1. Busy(t) /\ Obj' = Obj
    BY <1>8 DEF WorkerKeeps
  <2> QED
    BY <1>3, <1>4, <2>1 DEF CopySpent, CopyPast
<1>9. CASE Quiet(t)
  <2>1. ASSUME ticketCache'[t] = tickets[t]
        PROVE  CopySpent(t, ticketCache[t])' /\ CopyPast(t, ticketCache[t])'
    <3>1. tickets'[t] = tickets[t]
      BY <1>9 DEF Quiet
    <3>2. CopySpent(t, ticketCache[t])'
      BY <1>3, <2>1 DEF CopySpent
    <3>3. CopyPast(t, ticketCache[t])'
      BY <2>1, <3>1 DEF CopyPast, Past, Spared
    <3> QED
      BY <3>2, <3>3
  <2> QED
    BY <1>6, <1>7, <1>8, <1>9, <2>1 DEF Quiet, Releases
<1>10. CASE Written(t)
  <2>1. /\ ticketCache'[t] = ticketCache[t] /\ WorkerKeeps(t)
        /\ WrittenBy(t, tickets[t], tickets'[t])
    BY <1>10 DEF Written
  <2>2. CopySpent(t, tickets[t])'
    <3>1. CASE tickets'[t].phase = ""
      BY <3>1 DEF CopySpent
    <3>2. CASE /\ tickets'[t].uid = tickets[t].uid /\ tickets'[t].phase = tickets[t].phase
               /\ tickets'[t].guardianRef = tickets[t].guardianRef
      BY <1>3, <3>2 DEF CopySpent
    <3>3. CASE tickets[t].phase = "Ready" /\ tickets'[t].guardianRef = tickets[t].guardianRef
      BY <3>3 DEF CopySpent, Refs, CopyRefers
    <3>4. CASE /\ Busy(t) /\ tickets'[t].uid = Obj.uid /\ tickets'[t].phase = Obj.phase
               /\ tickets'[t].guardianRef = Obj.guardianRef
      BY <1>3, <3>4 DEF CopySpent
    <3> QED
      BY <2>1, <3>1, <3>2, <3>3, <3>4 DEF WrittenBy
  <2> QED
    BY <1>7, <1>8, <2>1, <2>2 DEF Releases
<1>11. CASE Started(t)
  <2>1. /\ UNCHANGED <<tickets, ticketCache>> /\ Obj'.uid = ticketCache[t].uid
        /\ Obj'.guardianRef = ticketCache[t].guardianRef
        /\ Obj'.phase = "Claimed" => ticketCache[t].phase = "Claimed"
    BY <1>11 DEF Started, Starts, Edited
  <2>2. CopySpent(t, Obj)' /\ CopyPast(t, Obj)'
    BY <1>3, <1>4, <2>1 DEF CopySpent, CopyPast
  <2> QED
    BY <1>6, <1>7, <2>1, <2>2 DEF Releases
<1>12. CASE Continued(t)
  <2>1. /\ Wt = t /\ Busy(t) /\ Busy(t)' /\ Continues(worker'.call, Obj')
        /\ tickets'[t] = tickets[t] /\ ticketCache'[t] = ticketCache[t]
        /\ Obj'.uid = Obj.uid
    BY <1>12 DEF Continued, Continues, Edited, Busy
  <2>2. Obj'.phase = "Claimed" => Obj.phase = "Claimed"
    BY <2>1 DEF Continues
  <2>3. CopyPast(t, Obj)'
    BY <1>4, <2>1, <2>2 DEF CopyPast
  <2>4. ASSUME Obj'.phase = "Claimed", ~Obj'.guardianRef PROVE Spent(t, Obj.uid)'
    <3>1. CASE ~Obj.guardianRef
      BY <1>3, <2>1, <2>2, <2>4, <3>1
    <3>2. CASE Obj.guardianRef
      <4>1. worker'.call = "updateStatus" /\ GuardianDropped
        BY <2>1, <2>4, <3>2 DEF Continues
      <4>2. ~GuardianLive(t)'
        BY <2>1, <3>2, <4>1, DroppedFades
      <4> QED
        BY <1>4, <2>1, <2>2, <2>4, <4>1, <4>2 DEF Spent
    <3> QED
      BY <3>1, <3>2
  <2>5. CopySpent(t, Obj)'
    BY <2>4 DEF CopySpent
  <2> QED
    BY <1>6, <1>7, <2>1, <2>3, <2>5 DEF Releases
<1> QED
  BY <1>9, <1>10, <1>11, <1>12

------------------------------------------------------------------------------

LEMMA GuardianInvariant == Spec => []GuardianInv
<1>1. Init => GuardianInv
  <2> SUFFICES ASSUME Init, NEW t \in Tickets PROVE Uids(t) /\ Refs(t) /\ Releases(t)
    BY DEF GuardianInv
  <2>1. /\ tickets[t] = BlankTicket /\ ticketCache[t] = BlankTicket
        /\ guardians[t] = NoGuardian /\ worker = Resting
    BY DEF Init, ApiInit, ControllerInit
  <2>2. /\ BlankTicket.uid = 0 /\ BlankTicket.phase = "" /\ ~BlankTicket.guardianRef
        /\ ~GuardianExists(NoGuardian) /\ Resting.call = "idle"
    BY DEF BlankTicket, NoGuardian, GuardianExists, Resting
  <2>3. ~Busy(t)
    BY <2>1, <2>2 DEF Busy
  <2>4. Uids(t)
    <3>1. tickets[t].uid = 0 /\ ticketCache[t].uid = 0
      BY <2>1, <2>2
    <3>2. ticketCache[t].uid <= tickets[t].uid
      BY <3>1
    <3>3. ~GuardianExists(guardians[t])
      BY <2>1, <2>2
    <3> QED
      BY <2>3, <3>2, <3>3 DEF Uids
  <2>5. CopyRefers(t, BlankTicket) /\ CopySpent(t, BlankTicket) /\ CopyPast(t, BlankTicket)
    BY <2>2 DEF CopyRefers, CopySpent, CopyPast
  <2> QED
    BY <2>1, <2>2, <2>3, <2>4, <2>5 DEF Refs, Releases
<1>2. /\ TypeOK /\ TypeOK' /\ Coherence /\ LifeInv /\ GuardianInv /\ [Next]_vars
      => GuardianInv'
  <2> SUFFICES ASSUME TypeOK, TypeOK', Coherence, LifeInv, GuardianInv, [Next]_vars,
                      NEW t \in Tickets
               PROVE  (Uids(t) /\ Refs(t) /\ Releases(t))'
    BY DEF GuardianInv
  <2>1. Uids(t) /\ Refs(t) /\ Releases(t)
    BY DEF GuardianInv
  <2>2. Quiet(t) \/ Written(t) \/ Started(t) \/ Continued(t)
    BY StepShape
  <2> QED
    BY <2>1, <2>2, UidsKept, RefsKept, ReleasesKept
<1> QED
  BY <1>1, <1>2, Typing, CoherenceInvariant, LifeInvariant, PTL DEF Spec

\* A ready ticket's guardian is its own, however often its name has been used and
\* however stale the copies are that the controller has worked from.
THEOREM GuardianOwned == Spec => []GuardianIsOwn
<1>1. TypeOK /\ GuardianInv => GuardianIsOwn
  <2> SUFFICES ASSUME TypeOK, GuardianInv, NEW t \in Tickets, tickets[t].phase = "Ready",
                      GuardianLive(t)
               PROVE  guardians[t].owner = tickets[t].uid
    BY DEF GuardianIsOwn
  <2>1. Uids(t) /\ Refs(t) /\ GuardianExists(guardians[t])
    BY DEF GuardianInv, GuardianLive
  <2>2. /\ guardians[t].owner >= tickets[t].uid
        /\ guardians[t].owner <= ticketCache[t].uid /\ ticketCache[t].uid <= tickets[t].uid
    BY <2>1 DEF Uids, Refs, CopyRefers
  <2> QED
    BY <2>2, StoredTyped
<1> QED
  BY <1>1, Typing, GuardianInvariant, PTL

\* Once a claimed ticket is recorded as released, nothing of its capacity is held,
\* and no reconciliation from a stale copy brings its guardian back.
THEOREM CapacityReleased == Spec => []ClaimedReleased
<1>1. GuardianInv => ClaimedReleased
  BY DEF GuardianInv, Releases, CopySpent, Spent, ClaimedReleased, GuardianOf
<1> QED
  BY <1>1, GuardianInvariant, PTL
------------------------------------------------------------------------------
(* No claim without a pod *)

\* The pods whose admission is sure to accept what the webhook has mutated.
Plain == Pods \ (ByName \cup Malformed)

\* The API server is about to persist p with ticket t, and will find it valid.
Deciding(p, t) ==
    LET a == admissions[p]
    IN  /\ a.step = "decide" /\ a.op = "create"
        /\ a.pod.claimed = t /\ t \in Wants[p] /\ ticketCache[t].exists

\* An admission ends in the pod it was made for: it creates the pod or the pod is
\* there already, and the ticket it is about to claim is one that the validating
\* webhook will find, because the cache never goes back behind the copy.
Sure(p) ==
    LET a == admissions[p]
    IN  /\ a.step # "none" => a.op = "create" \/ pods[p].exists
        /\ a.step = "bind" => a.t \in Wants[p] /\ a.copy.rv <= ticketCache[a.t].rv

Served(p) ==
    \A t \in Tickets :
        tickets[t].exists /\ tickets[t].claimedPod = p => pods[p].exists \/ Deciding(p, t)

ClaimInv == faults = 0 => \A p \in Plain : Sure(p) /\ Served(p)

\* Faults are counted, so none has happened before a state without any.
LEMMA FaultsCounted ==
  ASSUME TypeOK, [Next]_vars, faults' = 0
  PROVE  faults = 0 /\ ~Fault
<1>1. ~Fault
  <2>1. faults \in 0..MaxFaults
    BY DEF TypeOK, ApiTypeOK
  <2> QED
    BY <2>1, BoundAssumption DEF Fault
<1>2. ASSUME UNCHANGED faults PROVE faults = 0
  BY <1>2
<1>3. ASSUME NEW t \in Tickets, EnvTicketStep(t) PROVE UNCHANGED faults
  BY <1>1, <1>3
  DEF EnvTicketStep, CreateTicket, DeleteTicket, EditTicket, WindowElapses,
      ScheduleGuardian, StartGuardian, EvictGuardian, FailGuardian, FinishGuardian,
      CollectGuardian
<1>4. ASSUME NEW t \in Tickets,
             DeliverTicket(t) \/ DeliverGuardian(t) \/ Resync(t) \/ ReconcileStart(t)
      PROVE  UNCHANGED faults
  BY <1>4
  DEF DeliverTicket, DeliverGuardian, Resync, ReconcileStart, Begin, ReconcileGone,
      ReconcileDeleting, ReconcileUnfinalized, ReconcileExpiring, ReconcilePending,
      ReconcileReady, ReconcileClaimed, ReconcileExpired, apiVars
<1>5. ASSUME WorkerStep PROVE UNCHANGED faults
  BY <1>1, <1>5
  DEF WorkerStep, AddFinalizer, CreateGuardian, GuardianAlreadyExists,
      GuardianCreateFails, GuardianNotFound, GuardianFound, UpdateStatus,
      UpdateStatusConflict, DeleteForDeletion, DeleteForClaimed, DeleteForExpired,
      GuardianDeletion, DeleteExpiredTicket, RemoveFinalizer, CallFails, apiVars
<1>6. ASSUME NEW p \in Pods, PodStep(p) PROVE UNCHANGED faults
  BY <1>1, <1>6
  DEF PodStep, SubmitCreate, SubmitDryRun, SubmitUpdate, Find, Bind, BindFails,
      Decide, TimeOut, SchedulePod, DeletePod, apiVars
<1>7. UNCHANGED vars => UNCHANGED faults
  BY DEF vars, apiVars
<1>8. ~Restart
  BY <1>1 DEF Restart
<1>9. UNCHANGED faults
  BY <1>3, <1>4, <1>5, <1>6, <1>7, <1>8 DEF Next, ControllerStep
<1> QED
  BY <1>1, <1>2, <1>9

\* Only bindPodToTicket puts a pod's name on a ticket.
LEMMA ClaimMade ==
  ASSUME TypeOK, Coherence, [Next]_vars, NEW t \in Tickets, NEW p \in Pods,
         tickets'[t].exists, tickets'[t].claimedPod = p
  PROVE  \/ tickets[t].exists /\ tickets[t].claimedPod = p
         \/ Bind(p) /\ admissions[p].t = t
<1> DEFINE Was == tickets[t].exists /\ tickets[t].claimedPod = p
<1>1. CASE tickets'[t] = tickets[t]
  BY <1>1
<1>2. p # "nil"
  BY PodsAssumption
\* A write of an object that exists under another claim than p's does not make it.
<1>3. ASSUME NEW s \in Tickets, NEW obj \in TicketObject, Store(s, obj),
             obj.exists => tickets[s].exists, obj.exists => obj.claimedPod = tickets[s].claimedPod
      PROVE  Was
  <2>1. /\ \A u \in Tickets \ {s} : tickets'[u] = tickets[u]
        /\ tickets'[s].exists = obj.exists /\ tickets'[s].claimedPod = obj.claimedPod
    BY <1>3, StoreWrites
  <2> QED
    BY <1>3, <2>1
<1>4. ASSUME NEW s \in Tickets, tickets[s].exists, Store(s, MarkDeleted(tickets[s]))
      PROVE  Was
  <2> DEFINE obj == MarkDeleted(tickets[s])
  <2>1. tickets[s] \in TicketObject /\ obj \in TicketObject
    BY StoredTyped, EditsTyped
  <2>2. obj.exists => obj.claimedPod = tickets[s].claimedPod
    BY <2>1 DEF MarkDeleted, Removed, BlankTicket, TicketObject
  <2> HIDE DEF obj
  <2> QED
    BY <1>3, <1>4, <2>1, <2>2 DEF obj
<1>5. ASSUME NEW s \in Tickets, EnvTicketStep(s) PROVE Was
  <2>1. CASE CreateTicket(s)
    <3> DEFINE obj == [BlankTicket EXCEPT !.exists = TRUE, !.uid = tickets[s].uid + 1]
    <3>1. obj \in TicketObject
      <4>1. tickets[s].uid + 1 \in Nat
        BY StoredTyped
      <4> QED
        BY <4>1, BlankTyped DEF TicketObject
    <3>2. obj.claimedPod = "nil" /\ Store(s, obj)
      BY <2>1 DEF CreateTicket, BlankTicket
    <3> HIDE DEF obj
    <3>3. /\ \A u \in Tickets \ {s} : tickets'[u] = tickets[u]
          /\ tickets'[s].claimedPod = "nil"
      BY <3>1, <3>2, StoreWrites
    <3> QED
      BY <1>2, <3>3
  <2>2. CASE DeleteTicket(s)
    BY <1>4, <2>2 DEF DeleteTicket
  <2>3. CASE EditTicket(s)
    <3>1. tickets' = [tickets EXCEPT ![s].rv = @ + 1]
      BY <2>3 DEF EditTicket
    <3>2. /\ \A u \in Tickets \ {s} : tickets'[u] = tickets[u]
          /\ tickets'[s] = [tickets[s] EXCEPT !.rv = @ + 1] /\ tickets[s] \in TicketObject
      BY <3>1 DEF TypeOK, ApiTypeOK
    <3>3. /\ tickets'[s].exists = tickets[s].exists
          /\ tickets'[s].claimedPod = tickets[s].claimedPod
      BY <3>2 DEF TicketObject
    <3> QED
      BY <3>2, <3>3
  <2>4. CASE UNCHANGED tickets
    BY <2>4
  <2> QED
    BY <1>5, <2>1, <2>2, <2>3, <2>4
    DEF EnvTicketStep, WindowElapses, GuardianStep, ScheduleGuardian, StartGuardian,
        EvictGuardian, FailGuardian, FinishGuardian, CollectGuardian
<1>6. ASSUME NEW q \in Pods, PodStep(q) PROVE Was \/ (Bind(p) /\ admissions[p].t = t)
  <2> DEFINE a == admissions[q]
  <2>1. CASE Bind(q)
    <3>1. a.t \in Tickets /\ a.copy \in TicketObject /\ Store(a.t, Claimed(a.copy, q))
      BY <2>1 DEF Bind, TypeOK, PodTypeOK, Admission
    <3> DEFINE obj == Claimed(a.copy, q)
    <3>2. obj \in TicketObject /\ obj.claimedPod = q
      BY <3>1 DEF Claimed, TicketObject, Phases
    <3> HIDE DEF obj
    <3>3. /\ \A u \in Tickets \ {a.t} : tickets'[u] = tickets[u]
          /\ tickets'[a.t].claimedPod = q
      BY <3>1, <3>2, StoreWrites DEF obj
    <3> QED
      BY <1>1, <2>1, <3>1, <3>3
  <2>2. CASE UNCHANGED tickets
    BY <2>2
  <2> QED
    BY <1>6, <2>1, <2>2
    DEF PodStep, SubmitCreate, SubmitDryRun, SubmitUpdate, Find, BindFails, Decide,
        TimeOut, SchedulePod, DeletePod, apiVars
<1>7. ASSUME WorkerStep PROVE Was
  <2>1. Wt \in Tickets /\ Obj \in TicketObject /\ worker.call # "idle" /\ Writes
    BY <1>7, WorkerSummary, WorkerTyped
  <2>2. CASE Current(Wt, Obj) /\ Store(Wt, Obj)
    <3>1. tickets[Wt].exists /\ Obj.claimedPod = tickets[Wt].claimedPod
      BY <2>1, <2>2 DEF Current, Coherence, WorkerCopy
    <3> QED
      BY <1>3, <2>1, <2>2, <3>1
  <2>3. CASE Store(Wt, Removed(Obj))
    <3>1. Removed(Obj) \in TicketObject /\ ~Removed(Obj).exists
      BY <2>1, EditsTyped DEF Removed, BlankTicket
    <3> QED
      BY <1>3, <2>1, <2>3, <3>1
  <2> QED
    BY <1>1, <1>4, <2>1, <2>2, <2>3 DEF Writes
<1> QED
  BY <1>1, <1>5, <1>6, <1>7, StepSummary DEF Starts, Begin, vars, apiVars

\* Without PodStep(p) the request of p rests, and the cache catches up at most.
LEMMA RequestRests ==
  ASSUME TypeOK, [Next]_vars, ~Restart, NEW p \in Pods, ~PodStep(p)
  PROVE  admissions'[p] = admissions[p] /\ pods'[p] = pods[p]
<1>1. ASSUME NEW q \in Pods, PodStep(q)
      PROVE  admissions'[p] = admissions[p] /\ pods'[p] = pods[p]
  <2>1. p # q
    BY <1>1
  <2> QED
    BY <1>1, <2>1
    DEF PodStep, SubmitCreate, SubmitDryRun, SubmitUpdate, Find, Bind, BindFails,
        Decide, TimeOut, SchedulePod, DeletePod, TypeOK, PodTypeOK
<1>2. UNCHANGED podVars => admissions'[p] = admissions[p] /\ pods'[p] = pods[p]
  BY DEF podVars
<1> QED
  BY <1>1, <1>2 DEF Next, vars

LEMMA CacheCatchesUp ==
  ASSUME TypeOK, TypeOK', Coherence, LifeInv, [Next]_vars, NEW t \in Tickets
  PROVE  /\ ticketCache[t].rv <= ticketCache'[t].rv
         /\ ticketCache[t].exists /\ tickets'[t].exists => ticketCache'[t].exists
<1>1. ticketCache'[t] = ticketCache[t] \/ (ticketCache'[t] = tickets[t] /\ tickets'[t] = tickets[t])
  BY StepShape DEF Quiet, Written, Started, Continued
<1>2. ticketCache[t].rv <= tickets[t].rv
  BY DEF Coherence, ReadCopy
<1>3. ticketCache[t].rv \in Nat
  BY DEF TypeOK, ApiTypeOK, TicketObject
<1> QED
  BY <1>1, <1>2, <1>3

\* While p's own request rests, everybody else leaves its claim alone.
LEMMA RestingKept ==
  ASSUME TypeOK, TypeOK', Coherence, LifeInv, [Next]_vars, ~Restart, NEW p \in Plain,
         Sure(p), Served(p), ~PodStep(p)
  PROVE  Sure(p)' /\ Served(p)'
<1>1. p \in Pods /\ admissions'[p] = admissions[p] /\ pods'[p] = pods[p]
  BY RequestRests DEF Plain
<1> DEFINE a == admissions[p]
<1>2. Sure(p)'
  <2>1. ASSUME a.step = "bind" PROVE a.copy.rv <= ticketCache'[a.t].rv
    <3>1. a.t \in Tickets /\ a.copy.rv \in Nat
      BY <1>1, <2>1 DEF TypeOK, PodTypeOK, Admission, TicketObject
    <3>2. ticketCache[a.t].rv \in Nat /\ ticketCache'[a.t].rv \in Nat
      BY <3>1 DEF TypeOK, ApiTypeOK, TicketObject
    <3>3. a.copy.rv <= ticketCache[a.t].rv /\ ticketCache[a.t].rv <= ticketCache'[a.t].rv
      BY <2>1, <3>1, CacheCatchesUp DEF Sure
    <3> QED
      BY <3>1, <3>2, <3>3
  <2> QED
    BY <1>1, <2>1 DEF Sure
<1>3. ASSUME NEW t \in Tickets, tickets'[t].exists, tickets'[t].claimedPod = p
      PROVE  (pods[p].exists \/ Deciding(p, t))'
  <2>1. ~Bind(p)
    BY DEF PodStep
  <2>2. pods[p].exists \/ Deciding(p, t)
    BY <1>1, <1>3, <2>1, ClaimMade DEF Served
  <2> QED
    BY <1>1, <1>3, <2>2, CacheCatchesUp DEF Deciding
<1> QED
  BY <1>2, <1>3 DEF Served

\* A request is found a ticket only when no ticket names the pod yet.
LEMMA FoundKept ==
  ASSUME TypeOK, TypeOK', NEW p \in Plain, Sure(p), Served(p), SubmitCreate(p)
  PROVE  Sure(p)' /\ Served(p)'
<1>1. p \in Pods /\ ~pods[p].exists /\ admissions[p].step = "none"
      /\ UNCHANGED <<tickets, ticketCache, pods>>
  BY DEF Plain, SubmitCreate, Find
<1>2. \A t \in Tickets : ~(tickets[t].exists /\ tickets[t].claimedPod = p)
  BY <1>1 DEF Served, Deciding
<1>3. Sure(p)'
  <2> DEFINE none == [NoAdmission EXCEPT !.step = "decide", !.op = "create", !.pod = BlankPod]
  <2>1. none.step = "decide" /\ none.op = "create"
    BY DEF NoAdmission
  <2>2. DOMAIN admissions = Pods
    BY DEF TypeOK, PodTypeOK
  <2>3. CASE admissions' = [admissions EXCEPT ![p] = none]
    <3> HIDE DEF none
    <3> QED
      BY <1>1, <2>1, <2>2, <2>3 DEF Sure
  <2>4. ASSUME NEW t \in BestTickets(p),
               admissions' = [admissions EXCEPT ![p] =
                  [step |-> "bind", op |-> "create", pod |-> BlankPod, t |-> t,
                   copy |-> ticketCache[t]]]
        PROVE  Sure(p)'
    <3>1. t \in Wants[p] /\ t \in Tickets
      BY <1>1, WantsAssumption DEF BestTickets, Matching
    <3>2. ticketCache[t].rv <= ticketCache[t].rv
      <4>1. ticketCache[t].rv \in Nat
        BY <3>1 DEF TypeOK, ApiTypeOK, TicketObject
      <4> QED
        BY <4>1
    <3>3. /\ admissions'[p].op = "create" /\ admissions'[p].t = t
          /\ admissions'[p].copy = ticketCache[t]
      BY <1>1, <2>2, <2>4
    <3> QED
      BY <1>1, <3>1, <3>2, <3>3 DEF Sure
  <2> HIDE DEF none
  <2> QED
    BY <2>3, <2>4 DEF SubmitCreate, Find, none
<1> QED
  BY <1>1, <1>2, <1>3 DEF Served

\* The claim is made with a copy that the cache has caught up with.
LEMMA BoundKept ==
  ASSUME TypeOK, TypeOK', Coherence, LifeInv, [Next]_vars, NEW p \in Plain,
         Sure(p), Served(p), Bind(p)
  PROVE  Sure(p)' /\ Served(p)'
<1> DEFINE a == admissions[p]
<1>1. /\ p \in Pods /\ a.step = "bind" /\ a.t \in Tickets /\ a.copy \in TicketObject
      /\ a.pod \in PodObject /\ Current(a.t, a.copy)
      /\ UNCHANGED <<ticketCache, pods>>
  BY DEF Plain, Bind, TypeOK, PodTypeOK, Admission
<1>2. ticketCache[a.t].exists
  <2>1. tickets[a.t].exists /\ a.copy.rv = tickets[a.t].rv /\ a.copy.rv <= ticketCache[a.t].rv
    BY <1>1 DEF Current, Sure
  <2>2. ReadCopy(a.t, ticketCache[a.t])
    BY <1>1 DEF Coherence
  <2>3. tickets[a.t].rv \in Nat /\ ticketCache[a.t].rv \in Nat
    BY <1>1 DEF TypeOK, ApiTypeOK, TicketObject
  <2>4. ticketCache[a.t].rv = tickets[a.t].rv
    BY <2>1, <2>2, <2>3 DEF ReadCopy
  <2> QED
    BY <2>1, <2>2, <2>4 DEF ReadCopy
<1>3. /\ admissions'[p].step = "decide" /\ admissions'[p].op = a.op
      /\ admissions'[p].pod.claimed = a.t
  <2> DEFINE m == Mutated(a.pod, a.t, a.copy)
             pod == [m EXCEPT !.bound = @ \cup {<<a.t, a.copy.uid>>}]
             next == [NoAdmission EXCEPT !.step = "decide", !.op = a.op, !.pod = pod]
  <2>1. pod.claimed = a.t
    BY <1>1 DEF Mutated, PodObject
  <2>2. admissions' = [admissions EXCEPT ![p] = next]
    BY DEF Bind
  <2> HIDE DEF pod
  <2>3. next.step = "decide" /\ next.op = a.op /\ next.pod = pod
    BY DEF NoAdmission
  <2> HIDE DEF next
  <2>4. admissions'[p] = next
    BY <1>1, <2>2 DEF TypeOK, PodTypeOK
  <2> QED
    BY <2>1, <2>3, <2>4
<1>4. Sure(p)'
  BY <1>1, <1>3 DEF Sure
<1>5. ASSUME NEW t \in Tickets, tickets'[t].exists, tickets'[t].claimedPod = p
      PROVE  (pods[p].exists \/ Deciding(p, t))'
  <2>1. CASE tickets[t].exists /\ tickets[t].claimedPod = p
    BY <1>1, <2>1 DEF Served, Deciding
  <2>2. CASE a.t = t
    BY <1>1, <1>2, <1>3, <2>2 DEF Sure, Deciding
  <2> QED
    BY <1>1, <1>5, <2>1, <2>2, ClaimMade
<1> QED
  BY <1>4, <1>5 DEF Served

\* A claim that fails has left the tickets alone.
LEMMA UnboundKept ==
  ASSUME TypeOK, TypeOK', NEW p \in Plain, Sure(p), Served(p), BindFails(p)
  PROVE  Sure(p)' /\ Served(p)'
<1> DEFINE a == admissions[p]
           m == Mutated(a.pod, a.t, a.copy)
           next == [NoAdmission EXCEPT !.step = "decide", !.op = a.op, !.pod = m]
<1>1. /\ p \in Pods /\ a.step = "bind" /\ UNCHANGED <<tickets, ticketCache, pods>>
      /\ admissions' = [admissions EXCEPT ![p] = next]
  BY DEF Plain, BindFails
<1> HIDE DEF m
<1>2. next.step = "decide" /\ next.op = a.op
  BY DEF NoAdmission
<1> HIDE DEF next
<1>3. admissions'[p] = next
  BY <1>1 DEF TypeOK, PodTypeOK
<1>4. Sure(p)'
  BY <1>1, <1>2, <1>3 DEF Sure
<1> QED
  BY <1>1, <1>4 DEF Served, Deciding

\* The validating webhook finds the ticket that the mutating one has claimed.
LEMMA DecidedKept ==
  ASSUME TypeOK, TypeOK', NEW p \in Plain, Sure(p), Served(p), Decide(p)
  PROVE  Sure(p)' /\ Served(p)'
<1> DEFINE a == admissions[p]
<1>1. /\ p \in Pods /\ p \notin ByName /\ p \notin Malformed
      /\ admissions'[p] = NoAdmission /\ NoAdmission.step = "none"
      /\ UNCHANGED <<tickets, ticketCache>>
  BY DEF Plain, Decide, NoAdmission, TypeOK, PodTypeOK, apiVars
<1>2. Accepted(p) \/ pods[p].exists => pods'[p].exists
  <2>1. CASE Accepted(p)
    <3>1. a.pod \in PodObject
      BY <1>1 DEF TypeOK, PodTypeOK, Admission
    <3>2. pods'[p] = [a.pod EXCEPT !.exists = TRUE]
      BY <1>1, <2>1 DEF Decide, TypeOK, PodTypeOK
    <3> QED
      BY <3>1, <3>2 DEF PodObject
  <2>2. CASE ~Accepted(p)
    BY <2>2 DEF Decide
  <2> QED
    BY <2>1, <2>2
<1>3. ASSUME NEW t \in Tickets, Deciding(p, t) PROVE Accepted(p)
  <2>1. t \in Matching(p)
    BY <1>1, <1>3 DEF Deciding, Matching
  <2> QED
    BY <1>1, <1>3, <2>1 DEF Deciding, Accepted, Valid
<1> QED
  BY <1>1, <1>2, <1>3 DEF Sure, Served

LEMMA ScheduledKept ==
  ASSUME TypeOK, TypeOK', NEW p \in Plain, Sure(p), Served(p), NEW n \in Nodes,
         SchedulePod(p, n)
  PROVE  Sure(p)' /\ Served(p)'
<1>1. /\ p \in Pods /\ UNCHANGED <<tickets, ticketCache>> /\ pods[p].exists
      /\ pods'[p] = [pods[p] EXCEPT !.node = n] /\ pods[p] \in PodObject
  BY DEF Plain, SchedulePod, TypeOK, PodTypeOK, apiVars
<1>2. pods'[p].exists
  BY <1>1 DEF PodObject
<1>3. /\ admissions'[p] = [admissions[p] EXCEPT !.op = "discard"]
      /\ admissions[p] \in Admission
  BY <1>1 DEF SchedulePod, TypeOK, PodTypeOK
<1>4. /\ admissions'[p].step = admissions[p].step /\ admissions'[p].t = admissions[p].t
      /\ admissions'[p].copy = admissions[p].copy
  BY <1>3 DEF Admission
<1> QED
  BY <1>1, <1>2, <1>4 DEF Sure, Served

LEMMA ClaimInvariant == Spec => []ClaimInv
<1>1. Init => ClaimInv
  <2> SUFFICES ASSUME Init, NEW p \in Plain PROVE Sure(p) /\ Served(p)
    BY DEF ClaimInv
  <2>1. p \in Pods /\ admissions[p].step = "none"
    BY DEF Plain, Init, PodInit, NoAdmission
  <2>2. \A t \in Tickets : ~tickets[t].exists
    BY DEF Init, ApiInit, BlankTicket
  <2> QED
    BY <2>1, <2>2 DEF Sure, Served
<1>2. TypeOK /\ TypeOK' /\ Coherence /\ LifeInv /\ ClaimInv /\ [Next]_vars => ClaimInv'
  <2> SUFFICES ASSUME TypeOK, TypeOK', Coherence, LifeInv, ClaimInv, [Next]_vars,
                      faults' = 0, NEW p \in Plain
               PROVE  Sure(p)' /\ Served(p)'
    BY DEF ClaimInv, Plain
  <2>1. Sure(p) /\ Served(p) /\ ~Fault
    BY FaultsCounted DEF ClaimInv
  <2>2. ~Restart
    BY <2>1 DEF Restart
  <2>3. CASE PodStep(p)
    <3>1. \/ SubmitCreate(p) \/ Bind(p) \/ BindFails(p) \/ Decide(p)
          \/ \E n \in Nodes : SchedulePod(p, n)
      BY <2>1, <2>3 DEF PodStep, SubmitDryRun, SubmitUpdate, TimeOut, DeletePod
    <3> QED
      BY <2>1, <3>1, FoundKept, BoundKept, UnboundKept, DecidedKept, ScheduledKept
  <2> QED
    BY <2>1, <2>2, <2>3, RestingKept
<1> QED
  BY <1>1, <1>2, Typing, CoherenceInvariant, LifeInvariant, PTL DEF Spec

\* Without faults no claim is wasted: the pod that a ticket names exists, or the
\* API server is about to persist it.  The validating webhook looks for the ticket
\* in a cache that may lag, but never behind the copy that the claim was made with.
THEOREM ClaimKeepsPod == Spec => []ClaimHasPod
<1>1. ClaimInv => ClaimHasPod
  BY DEF ClaimInv, Plain, Served, Deciding, ClaimHasPod
<1> QED
  BY <1>1, ClaimInvariant, PTL
------------------------------------------------------------------------------
(* No wake-up is lost *)

\* There is nothing left to do for the ticket obj.
Handled(obj) ==
    /\ obj.finalizer /\ ~obj.deleting /\ obj.phase # ""
    /\ obj.phase = "Claimed" => ~obj.guardianRef
    /\ obj.phase = "Expired" => CleanupPolicy = "Retain"

\* The handler of t works on the copy that is still in the cache, and the status it
\* is about to write moves the ticket or leaves nothing to do.
Working(t) ==
    /\ ticketCache[t].exists /\ Obj.rv = ticketCache[t].rv
    /\ worker.call = "updateStatus" /\ Obj.phase = ticketCache[t].phase => Handled(Obj)

\* A ticket that is not in the queue is being handled, has been, or has changed in
\* a way that the cache, and with it the queue, has still to learn.
RestInv(t) ==
    t \notin queue =>
        IF Busy(t) THEN Working(t)
        ELSE ticketCache[t].exists /\ ticketCache[t] = tickets[t] => Handled(ticketCache[t])

\* The handler is done: its last call has succeeded, or there is no ticket any more.
Returned ==
    \/ worker.call = "updateStatus" /\ Current(Wt, Obj) /\ Store(Wt, Obj)
    \/ worker.call = "deleteTicket" /\ tickets[Wt].exists
       /\ Store(Wt, MarkDeleted(tickets[Wt]))
    \/ worker.call = "removeFinalizer" /\ Current(Wt, Obj) /\ Store(Wt, Removed(Obj))
    \/ ~tickets[Wt].exists /\ UNCHANGED tickets

\* Cache and worker leave t as it is.
Kept(t) ==
    /\ ticketCache'[t] = ticketCache[t]
    /\ Busy(t)' <=> Busy(t)
    /\ Busy(t) => Obj' = Obj /\ worker'.call = worker.call

\* A handler that ends otherwise asks to be called again.
LEMMA WorkerWakes ==
  ASSUME TypeOK, WorkerStep
  PROVE  /\ UNCHANGED ticketCache /\ queue \subseteq queue'
         /\ worker' = Resting => Wt \in queue' \/ Returned
<1>1. worker.call # "idle"
  BY WorkerSummary
<1>2. worker \in [call : Calls, t : Tickets, obj : TicketObject]
  BY <1>1, WorkerTyped
<1> DEFINE Goal == /\ UNCHANGED ticketCache /\ queue \subseteq queue'
                   /\ worker' = Resting => Wt \in queue' \/ Returned
<1>3. ASSUME Requeue, UNCHANGED ticketCache PROVE Goal
  BY <1>3 DEF Requeue, Wt
<1>4. ASSUME NEW call \in Calls, NEW obj, Proceed(call, obj), UNCHANGED ticketCache
      PROVE  Goal
  <2>1. worker'.call = call /\ queue' = queue /\ Resting.call = "idle" /\ "idle" \notin Calls
    BY <1>2, <1>4 DEF Proceed, Resting, Calls
  <2> QED
    BY <1>4, <2>1
<1>5. ASSUME Return, Returned, UNCHANGED ticketCache PROVE Goal
  BY <1>5 DEF Return
<1> HIDE DEF Goal
<1>6. {"checkGuardian", "createGuardian", "updateStatus", "removeFinalizer",
       "deleteTicket"} \subseteq Calls
  BY DEF Calls
<1> SUFFICES Goal
  BY DEF Goal
<1>7. CASE AddFinalizer \/ UpdateStatusConflict \/ CallFails
  BY <1>3, <1>7 DEF AddFinalizer, UpdateStatusConflict, CallFails, apiVars
<1>8. CASE CreateGuardian \/ GuardianCreateFails
  BY <1>4, <1>6, <1>8 DEF CreateGuardian, GuardianCreateFails
<1>9. CASE GuardianAlreadyExists
  BY <1>3, <1>4, <1>6, <1>9 DEF GuardianAlreadyExists, apiVars
<1>10. CASE GuardianNotFound
  BY <1>4, <1>6, <1>10 DEF GuardianNotFound, apiVars
<1>11. CASE GuardianFound
  <2> DEFINE pod == guardianCache[Wt]
             seen == IF pod.node # "" THEN [Obj EXCEPT !.node = pod.node] ELSE Obj
             obj == WithStatus(seen, "Ready", "Running")
  <2>1. UNCHANGED ticketCache /\ (Requeue \/ Proceed("updateStatus", obj))
    BY <1>11 DEF GuardianFound, apiVars
  <2> HIDE DEF obj
  <2> QED
    BY <1>3, <1>4, <1>6, <2>1
<1>12. CASE UpdateStatus
  BY <1>5, <1>12 DEF UpdateStatus, Returned
<1>13. CASE DeleteForDeletion \/ DeleteForClaimed
  BY <1>4, <1>6, <1>13 DEF DeleteForDeletion, DeleteForClaimed, GuardianDeletion
<1>14. CASE DeleteForExpired
  BY <1>3, <1>4, <1>6, <1>14 DEF DeleteForExpired, GuardianDeletion
<1>15. CASE DeleteExpiredTicket
  BY <1>5, <1>15 DEF DeleteExpiredTicket, Returned
<1>16. CASE RemoveFinalizer
  BY <1>3, <1>5, <1>16 DEF RemoveFinalizer, Returned
<1> QED
  BY <1>7, <1>8, <1>9, <1>10, <1>11, <1>12, <1>13, <1>14, <1>15, <1>16 DEF WorkerStep

\* How a ticket leaves the queue, and what happens to one outside of it.
Wakes(t) ==
    \/ t \in queue'
    \/ ~Busy(t)' /\ ~ticketCache'[t].exists
    \/ Started(t)
    \/ /\ t \notin queue
       /\ \/ Kept(t)
          \/ Continued(t)
          \/ Busy(t) /\ ~Busy(t)' /\ UNCHANGED ticketCache /\ Returned

LEMMA WakeShape ==
  ASSUME TypeOK, [Next]_vars, NEW t \in Tickets
  PROVE  Wakes(t)
<1>1. ASSUME queue \subseteq queue', UNCHANGED worker,
             t \in queue' \/ ticketCache'[t] = ticketCache[t]
      PROVE  Wakes(t)
  BY <1>1 DEF Wakes, Kept, Busy, Wt, Obj
<1>2. ASSUME t \notin queue, Kept(t) PROVE Wakes(t)
  BY <1>2 DEF Wakes
<1>3. CASE UNCHANGED vars
  BY <1>1, <1>3 DEF vars, apiVars, controllerVars
<1>4. ASSUME NEW s \in Tickets, EnvTicketStep(s), UNCHANGED <<controllerVars, podVars>>
      PROVE  Wakes(t)
  <2>1. UNCHANGED ticketCache
    BY <1>4
    DEF EnvTicketStep, CreateTicket, DeleteTicket, EditTicket, WindowElapses,
        GuardianStep, ScheduleGuardian, StartGuardian, EvictGuardian, FailGuardian,
        FinishGuardian, CollectGuardian
  <2> QED
    BY <1>1, <1>4, <2>1 DEF controllerVars
<1>5. ASSUME NEW p \in Pods, PodStep(p), UNCHANGED controllerVars PROVE Wakes(t)
  <2>1. UNCHANGED ticketCache
    BY <1>5
    DEF PodStep, SubmitCreate, SubmitDryRun, SubmitUpdate, Find, Bind, BindFails,
        Decide, TimeOut, SchedulePod, DeletePod, apiVars
  <2> QED
    BY <1>1, <1>5, <2>1 DEF controllerVars
<1>6. CASE Restart
  <2>1. ticketCache' = tickets /\ worker' = Resting
        /\ queue' = {s \in Tickets : tickets[s].exists}
    BY <1>6 DEF Restart
  <2> QED
    BY <2>1 DEF Wakes, Busy, Resting
<1>7. ASSUME NEW s \in Tickets, DeliverTicket(s) PROVE Wakes(t)
  <2>1. /\ queue' = queue \cup {s} /\ UNCHANGED worker
        /\ ticketCache' = [ticketCache EXCEPT ![s] = tickets[s]]
    BY <1>7 DEF DeliverTicket
  <2>2. t = s \/ ticketCache'[t] = ticketCache[t]
    BY <2>1 DEF TypeOK, ApiTypeOK
  <2> QED
    BY <1>1, <2>1, <2>2
<1>8. ASSUME NEW s \in Tickets, DeliverGuardian(s) \/ Resync(s) PROVE Wakes(t)
  BY <1>1, <1>8 DEF DeliverGuardian, Resync, apiVars
<1>9. ASSUME NEW s \in Tickets, ReconcileGone(s) PROVE Wakes(t)
  <2>1. /\ Idle /\ ~ticketCache[s].exists /\ queue' = queue \ {s}
        /\ UNCHANGED <<worker, ticketCache>>
    BY <1>9 DEF ReconcileGone, apiVars
  <2>2. ~Busy(t)' /\ ~Busy(t)
    BY <2>1 DEF Busy, Idle
  <2>3. CASE s = t
    BY <2>1, <2>2, <2>3 DEF Wakes
  <2>4. CASE s # t
    BY <1>2, <2>1, <2>2, <2>4 DEF Wakes, Kept
  <2> QED
    BY <2>3, <2>4
<1>10. ASSUME NEW s \in Tickets, NEW call \in Calls, NEW obj \in TicketObject,
              Starts(s, call, obj)
       PROVE  Wakes(t)
  <2>1. /\ worker'.call = call /\ Wt' = s /\ Obj' = obj /\ Idle /\ queue' = queue \ {s}
        /\ UNCHANGED <<tickets, ticketCache, guardians>>
    BY <1>10 DEF Starts, Begin, Wt, Obj, apiVars
  <2>2. CASE s = t
    BY <1>10, <2>1, <2>2 DEF Started, Busy, Calls, Wakes
  <2>3. CASE s # t
    <3>1. ~Busy(t)' /\ ~Busy(t)
      BY <2>1, <2>3 DEF Busy, Idle
    <3> QED
      BY <1>2, <2>1, <2>3, <3>1 DEF Wakes, Kept
  <2> QED
    BY <2>2, <2>3
<1>11. CASE WorkerStep
  <2>1. /\ worker.call # "idle" /\ UNCHANGED ticketCache /\ queue \subseteq queue'
        /\ worker' = Resting => Wt \in queue' \/ Returned
    BY <1>11, WorkerSummary, WorkerWakes
  <2> SUFFICES ASSUME t \notin queue' PROVE Wakes(t)
    BY DEF Wakes
  <2>2. t \notin queue
    BY <2>1
  <2>3. CASE worker' = Resting
    <3>1. ~Busy(t)'
      BY <2>3 DEF Busy, Resting
    <3>2. CASE Wt = t
      BY <2>1, <2>2, <2>3, <3>1, <3>2 DEF Busy, Wakes
    <3>3. CASE Wt # t
      BY <1>2, <2>1, <2>2, <3>1, <3>3 DEF Busy, Kept
    <3> QED
      BY <3>2, <3>3
  <2>4. ASSUME NEW call \in Calls, NEW obj \in TicketObject, Continues(call, obj)
        PROVE  Wakes(t)
    <3>1. worker \in [call : Calls, t : Tickets, obj : TicketObject]
      BY <2>1, WorkerTyped
    <3>2. worker'.call = call /\ Obj' = obj /\ Wt' = Wt /\ UNCHANGED tickets
      BY <2>4, <3>1 DEF Continues, Proceed, Wt, Obj
    <3>3. call # "idle"
      BY <2>4 DEF Calls
    <3>4. CASE Wt = t
      <4>1. Busy(t) /\ Busy(t)'
        BY <2>1, <3>2, <3>3, <3>4 DEF Busy
      <4>2. Continued(t)
        BY <2>1, <2>4, <3>2, <4>1 DEF Continued
      <4> QED
        BY <2>2, <4>2 DEF Wakes
    <3>5. CASE Wt # t
      BY <1>2, <2>1, <2>2, <3>2, <3>5 DEF Busy, Kept
    <3> QED
      BY <3>4, <3>5
  <2> QED
    BY <1>11, <2>3, <2>4, WorkerSummary DEF Ends
<1> QED
  BY <1>3, <1>4, <1>5, <1>6, <1>7, <1>8, <1>9, <1>10, <1>11, StartSummary
  DEF Next, ControllerStep

\* What a handler that is done leaves: a change for the cache to learn, or a ticket
\* for which there is nothing to do.
LEMMA ReturnRests ==
  ASSUME TypeOK, TypeOK', Coherence, LifeInv, [Next]_vars, NEW t \in Tickets,
         Busy(t), Working(t), UNCHANGED ticketCache, Returned
  PROVE  ticketCache'[t].exists /\ ticketCache'[t] = tickets'[t] => Handled(ticketCache'[t])
<1> SUFFICES ASSUME ticketCache[t] = tickets'[t] PROVE Handled(tickets'[t])
  OBVIOUS
<1>1. /\ ticketCache[t] \in TicketObject /\ tickets[t] \in TicketObject
      /\ tickets'[t] \in TicketObject /\ Obj \in TicketObject
      /\ t = Wt /\ worker.call # "idle"
  BY WorkerTyped DEF TypeOK, ApiTypeOK, Busy
<1>2. ticketCache[t].exists /\ Obj.rv = ticketCache[t].rv
  BY DEF Working
<1>3. tickets[t] = tickets'[t]
  <2>1. Advances(t) /\ ticketCache[t].rv <= tickets[t].rv
    BY NextAdvances DEF Coherence, ReadCopy
  <2>2. tickets'[t].rv \in Nat /\ tickets[t].rv \in Nat
    BY <1>1 DEF TicketObject
  <2> QED
    BY <2>1, <2>2 DEF Advances
<1>4. CASE worker.call = "updateStatus" /\ Store(Wt, Obj)
  <2> DEFINE new == [Obj EXCEPT !.rv = NextRv(t, Obj)]
  <2>1. tickets' = [tickets EXCEPT ![t] = new]
    BY <1>1, <1>4 DEF Store
  <2>2. tickets'[t] = new
    BY <2>1 DEF TypeOK, ApiTypeOK
  <2>3. /\ new.phase = Obj.phase /\ new.finalizer = Obj.finalizer
        /\ new.deleting = Obj.deleting /\ new.guardianRef = Obj.guardianRef
    BY <1>1 DEF TicketObject
  <2> HIDE DEF new
  <2>4. Handled(Obj)
    BY <1>4, <2>2, <2>3 DEF Working
  <2> QED
    BY <2>2, <2>3, <2>4 DEF Handled
<1>5. CASE /\ worker.call = "deleteTicket" /\ tickets[Wt].exists
           /\ Store(Wt, MarkDeleted(tickets[Wt]))
  <2>1. ~tickets[t].deleting
    BY <1>1, <1>2, <1>3, <1>5 DEF LifeInv, WorkerPlan
  <2> DEFINE obj == MarkDeleted(tickets[t])
             new == [obj EXCEPT !.rv = NextRv(t, obj)]
  <2>2. obj \in TicketObject
    BY <1>1, EditsTyped
  <2>3. obj.deleting \/ ~obj.exists
    BY <1>1 DEF MarkDeleted, Removed, BlankTicket, TicketObject
  <2>4. tickets' = [tickets EXCEPT ![t] = new]
    BY <1>1, <1>5 DEF Store
  <2>5. tickets'[t] = new
    BY <2>4 DEF TypeOK, ApiTypeOK
  <2> HIDE DEF obj
  <2>6. new.deleting = obj.deleting /\ new.exists = obj.exists
    BY <2>2 DEF TicketObject
  <2> QED
    BY <1>2, <1>3, <2>1, <2>3, <2>5, <2>6
<1>6. CASE Store(Wt, Removed(Obj))
  <2>1. Removed(Obj) \in TicketObject /\ ~Removed(Obj).exists
    BY <1>1, EditsTyped DEF Removed, BlankTicket
  <2>2. ~tickets'[t].exists
    BY <1>1, <1>6, <2>1, StoreWrites
  <2> QED
    BY <1>2, <2>2
<1> QED
  BY <1>1, <1>2, <1>3, <1>4, <1>5, <1>6 DEF Returned

LEMMA RestKept ==
  ASSUME TypeOK, TypeOK', Coherence, LifeInv, [Next]_vars, NEW t \in Tickets, RestInv(t)
  PROVE  RestInv(t)'
<1> SUFFICES ASSUME t \notin queue'
             PROVE  /\ Busy(t)' => Working(t)'
                    /\ ~Busy(t)' /\ ticketCache'[t].exists /\ ticketCache'[t] = tickets'[t]
                         => Handled(ticketCache'[t])
  BY DEF RestInv, Handled
<1>1. CASE ~Busy(t)' /\ ~ticketCache'[t].exists
  BY <1>1
<1>2. CASE Started(t)
  <2>1. /\ Busy(t)' /\ ticketCache'[t] = ticketCache[t] /\ ticketCache[t].exists
        /\ Obj'.rv = ticketCache[t].rv
        /\ worker'.call = "updateStatus" => Obj'.phase # ticketCache[t].phase
    BY <1>2 DEF Started, Starts, Edited
  <2> QED
    BY <2>1 DEF Working
<1>3. CASE t \notin queue /\ Kept(t)
  <2>1. CASE Busy(t)
    BY <1>3, <2>1 DEF Kept, RestInv, Working, Handled
  <2>2. CASE ~Busy(t)
    <3>1. ticketCache'[t] = ticketCache[t] /\ ~Busy(t)'
      BY <1>3, <2>2 DEF Kept
    <3>2. ticketCache[t] = tickets'[t] => tickets'[t] = tickets[t]
      <4>1. Advances(t) /\ ticketCache[t].rv <= tickets[t].rv
        BY NextAdvances DEF Coherence, ReadCopy
      <4>2. tickets'[t].rv \in Nat /\ tickets[t].rv \in Nat
        BY DEF TypeOK, ApiTypeOK, TicketObject
      <4> QED
        BY <4>1, <4>2 DEF Advances
    <3> QED
      BY <1>3, <2>2, <3>1, <3>2 DEF RestInv, Handled
  <2> QED
    BY <2>1, <2>2
<1>4. CASE t \notin queue /\ Continued(t)
  <2>1. /\ Busy(t) /\ Busy(t)' /\ Working(t) /\ ticketCache'[t] = ticketCache[t]
        /\ Continues(worker'.call, Obj') /\ worker.call # "idle"
    BY <1>4 DEF Continued, RestInv, Busy
  <2>2. Obj'.rv = Obj.rv /\ Obj'.deleting = Obj.deleting
    BY <2>1 DEF Continues, Edited
  <2>3. worker'.call = "updateStatus" => Handled(Obj')
    <3>1. /\ worker.call \in {"createGuardian", "checkGuardian"}
                => Obj.finalizer /\ ~Obj.deleting
          /\ worker.call = "deleteGuardian" /\ ~Obj.deleting => Obj.finalizer
      BY <2>1 DEF LifeInv, WorkerPlan
    <3>2. ASSUME worker'.call = "updateStatus"
          PROVE  /\ Obj'.finalizer = Obj.finalizer
                 /\ \/ /\ worker.call \in {"createGuardian", "checkGuardian"}
                       /\ Obj'.phase \in {"Ready", "Pending"}
                    \/ /\ worker.call = "deleteGuardian" /\ ~Obj.deleting
                       /\ Obj'.phase = "Claimed" /\ ~Obj'.guardianRef
                    \/ /\ worker.call = "deleteGuardian" /\ ~Obj.deleting
                       /\ Obj'.phase = "Expired" /\ CleanupPolicy = "Retain"
      BY <2>1, <3>2 DEF Continues
    <3> QED
      BY <2>2, <3>1, <3>2 DEF Handled
  <2> QED
    BY <2>1, <2>2, <2>3 DEF Working
<1>5. CASE /\ t \notin queue /\ Busy(t) /\ ~Busy(t)'
           /\ UNCHANGED ticketCache /\ Returned
  <2>1. Working(t)
    BY <1>5 DEF RestInv
  <2> QED
    BY <1>5, <2>1, ReturnRests
<1> QED
  BY <1>1, <1>2, <1>3, <1>4, <1>5, WakeShape DEF Wakes

LEMMA RestInvariant == Spec => []\A t \in Tickets : RestInv(t)
<1>1. Init => \A t \in Tickets : RestInv(t)
  <2> SUFFICES ASSUME Init, NEW t \in Tickets PROVE RestInv(t)
    OBVIOUS
  <2>1. ~ticketCache[t].exists /\ ~Busy(t)
    BY DEF Init, ApiInit, ControllerInit, Resting, BlankTicket, Busy
  <2> QED
    BY <2>1 DEF RestInv
<1>2. TypeOK /\ TypeOK' /\ Coherence /\ LifeInv /\ [Next]_vars
        /\ (\A t \in Tickets : RestInv(t)) => (\A t \in Tickets : RestInv(t))'
  BY RestKept
<1> QED
  BY <1>1, <1>2, Typing, CoherenceInvariant, LifeInvariant, PTL DEF Spec

\* No wake-up is lost, for any number of tickets, pods and faults: a ticket that
\* nobody is about to look at, and of which there is no news, needs nothing more.
THEOREM WakeUpsKept == Spec => []NothingForgotten
<1>1. (\A t \in Tickets : RestInv(t)) /\ ClaimedReleased => NothingForgotten
  BY DEF RestInv, Busy, Wt, Handled, NothingForgotten, AtRest, ClaimedReleased
<1> QED
  BY <1>1, RestInvariant, CapacityReleased, PTL
==============================================================================
