------------------------------ MODULE KorderApi ------------------------------
(***************************************************************************)
(* What the manager process of korder sees of the cluster: the Ticket      *)
(* objects and the guardian Pods held by the API server, and the informer  *)
(* caches that mgr.GetClient() reads from.  Writes go to the API server    *)
(* and carry the resourceVersion of the copy they were computed from;      *)
(* reads come from a cache, which lags behind the API server but never     *)
(* goes back.  The API server, scheduler, kubelet and garbage collector    *)
(* are not part of the repository: they are modelled from how the code     *)
(* uses them.                                                              *)
(***************************************************************************)
EXTENDS Integers, TicketPhases

CONSTANTS
    Tickets,      \* ticket names of one namespace
    Pods,         \* business pods that may ask for a ticket
    Nodes,        \* cluster nodes
    PinnedNode,   \* ticket -> spec.nodeName, or "" when the scheduler decides
    Mortal,       \* bound: tickets that users delete or whose window ends
    MaxUid,       \* bound: how often a ticket name may be (re)created
    MaxFaults     \* bound: faults and disturbances of the environment

ASSUME PodsAssumption  == "nil" \notin Pods
ASSUME NodesAssumption == "nil" \notin Nodes /\ "" \notin Nodes
ASSUME PinAssumption   == PinnedNode \in [Tickets -> Nodes \cup {""}]
ASSUME BoundAssumption == Mortal \subseteq Tickets /\ MaxUid \in Nat /\ MaxFaults \in Nat

VARIABLES
    tickets,        \* ticket name -> Ticket object at the API server
    ticketCache,    \* ticket name -> Ticket object in the informer cache
    guardians,      \* ticket name -> guardian Pod at the API server
    guardianCache,  \* ticket name -> guardian Pod in the informer cache
    pastWindow,     \* <<ticket, uid>> whose expirationTime lies in the past
    faults          \* how many environment faults have happened

apiVars == <<tickets, ticketCache, guardians, guardianCache, pastWindow, faults>>

------------------------------------------------------------------------------
(* Objects *)

\* The (reason, message) pairs that updateTicketStatus is called with.
Notes == {"none", "Activated", "CreateFailed", "Running", "Claimed",
          "DurationExceeded", "Retained"}

(***************************************************************************)
(* A Ticket as far as the code tells tickets apart.  node is               *)
(* status.nodeName: a nil pointer, the empty string of an unscheduled pod, *)
(* or a node.  guardianRef is status.guardianPod # nil: the name it holds  *)
(* is a function of the ticket's name.  expiry is status.expirationTime #  *)
(* nil.  A name that is not in use keeps its last rv and uid.              *)
(***************************************************************************)
TicketObject ==
    [exists : BOOLEAN, rv : Nat, uid : Nat, finalizer : BOOLEAN,
     deleting : BOOLEAN, phase : Phases, expiry : BOOLEAN,
     node : Nodes \cup {"nil", ""}, guardianRef : BOOLEAN,
     claimedPod : Pods \cup {"nil"}, note : Notes]

BlankTicket ==
    [exists |-> FALSE, rv |-> 0, uid |-> 0, finalizer |-> FALSE,
     deleting |-> FALSE, phase |-> "", expiry |-> FALSE, node |-> "nil",
     guardianRef |-> FALSE, claimedPod |-> "nil", note |-> "none"]

\* owner is the uid of the owning ticket; 0 stands for "no such pod".
GuardianObject ==
    [owner : Nat, node : Nodes \cup {""}, terminating : BOOLEAN,
     phase : {"Pending", "Running", "Failed"}]

NoGuardian ==
    [owner |-> 0, node |-> "", terminating |-> FALSE, phase |-> "Pending"]

GuardianExists(g) == g.owner # 0

ApiTypeOK ==
    /\ tickets \in [Tickets -> TicketObject]
    /\ ticketCache \in [Tickets -> TicketObject]
    /\ guardians \in [Tickets -> GuardianObject]
    /\ guardianCache \in [Tickets -> GuardianObject]
    /\ pastWindow \subseteq Tickets \X Nat
    /\ faults \in 0..MaxFaults

ApiInit ==
    /\ tickets = [t \in Tickets |-> BlankTicket]
    /\ ticketCache = tickets
    /\ guardians = [t \in Tickets |-> NoGuardian]
    /\ guardianCache = guardians
    /\ pastWindow = {}
    /\ faults = 0

------------------------------------------------------------------------------
(* Reads and writes of the client *)

\* Optimistic concurrency: an Update or Status().Update computed from copy is
\* accepted only while copy still is the latest version of the object.
Current(t, copy) == tickets[t].exists /\ tickets[t].rv = copy.rv

\* Store obj under a new resourceVersion; an update that changes nothing is
\* not written and raises no watch event.
NextRv(t, obj) ==
    IF [obj EXCEPT !.rv = tickets[t].rv] = tickets[t]
    THEN tickets[t].rv ELSE tickets[t].rv + 1

Store(t, obj) ==
    tickets' = [tickets EXCEPT ![t] = [obj EXCEPT !.rv = NextRv(t, obj)]]

\* The object left in the store once nothing keeps the ticket alive.
Removed(obj) == [BlankTicket EXCEPT !.rv = obj.rv, !.uid = obj.uid]

\* Delete without preconditions: a finalizer turns it into a mark.
MarkDeleted(obj) ==
    IF obj.finalizer THEN [obj EXCEPT !.deleting = TRUE] ELSE Removed(obj)

\* Delete of a pod: one that runs on a node first terminates gracefully.
PodDeleted(g) ==
    IF GuardianExists(g) /\ g.node # "" THEN [g EXCEPT !.terminating = TRUE]
    ELSE NoGuardian

WindowOver(t, obj) == obj.expiry /\ <<t, obj.uid>> \in pastWindow

\* One more disturbance by the environment, within the bound.
Fault == faults < MaxFaults /\ faults' = faults + 1

------------------------------------------------------------------------------
(* The environment *)

\* A user, or the order controller, creates the ticket.
CreateTicket(t) ==
    /\ ~tickets[t].exists
    /\ tickets[t].uid < MaxUid
    /\ Store(t, [BlankTicket EXCEPT !.exists = TRUE, !.uid = tickets[t].uid + 1])
    /\ UNCHANGED <<ticketCache, guardians, guardianCache, pastWindow, faults>>

\* A user, or the order controller, deletes the ticket.
DeleteTicket(t) ==
    /\ t \in Mortal
    /\ tickets[t].exists /\ ~tickets[t].deleting
    /\ Store(t, MarkDeleted(tickets[t]))
    /\ UNCHANGED <<ticketCache, guardians, guardianCache, pastWindow, faults>>

\* Somebody edits a label or annotation: only the resourceVersion changes.
EditTicket(t) ==
    /\ tickets[t].exists
    /\ tickets' = [tickets EXCEPT ![t].rv = @ + 1]
    /\ Fault
    /\ UNCHANGED <<ticketCache, guardians, guardianCache, pastWindow>>

\* The clock passes the ticket's expirationTime.
WindowElapses(t) ==
    /\ t \in Mortal
    /\ tickets[t].exists /\ tickets[t].expiry
    /\ <<t, tickets[t].uid>> \notin pastWindow
    /\ pastWindow' = pastWindow \cup {<<t, tickets[t].uid>>}
    /\ UNCHANGED <<tickets, ticketCache, guardians, guardianCache, faults>>

\* What only the guardian Pod of t changes.
GuardianStep(t, g) ==
    /\ guardians' = [guardians EXCEPT ![t] = g]
    /\ UNCHANGED <<tickets, ticketCache, guardianCache, pastWindow>>

\* The scheduler binds the guardian to a node.
ScheduleGuardian(t, n) ==
    /\ GuardianExists(guardians[t]) /\ guardians[t].node = ""
    /\ GuardianStep(t, [guardians[t] EXCEPT !.node = n])
    /\ UNCHANGED faults

\* The kubelet reports that the guardian runs.
StartGuardian(t) ==
    /\ guardians[t].node # "" /\ guardians[t].phase = "Pending"
    /\ ~guardians[t].terminating
    /\ GuardianStep(t, [guardians[t] EXCEPT !.phase = "Running"])
    /\ UNCHANGED faults

\* The guardian is drained, preempted or deleted by a user.
EvictGuardian(t) ==
    /\ GuardianExists(guardians[t]) /\ ~guardians[t].terminating
    /\ GuardianStep(t, PodDeleted(guardians[t]))
    /\ Fault

\* The guardian fails for good and stays as a Failed pod.
FailGuardian(t) ==
    /\ guardians[t].node # "" /\ guardians[t].phase # "Failed"
    /\ ~guardians[t].terminating
    /\ GuardianStep(t, [guardians[t] EXCEPT !.phase = "Failed"])
    /\ Fault

\* The kubelet has stopped a terminating guardian: the object disappears.
FinishGuardian(t) ==
    /\ guardians[t].terminating
    /\ GuardianStep(t, NoGuardian)
    /\ UNCHANGED faults

\* The garbage collector deletes a guardian whose owning ticket is gone.
CollectGuardian(t) ==
    /\ GuardianExists(guardians[t]) /\ ~guardians[t].terminating
    /\ ~(tickets[t].exists /\ tickets[t].uid = guardians[t].owner)
    /\ GuardianStep(t, PodDeleted(guardians[t]))
    /\ UNCHANGED faults

EnvTicketStep(t) ==
    \/ CreateTicket(t)
    \/ DeleteTicket(t)
    \/ EditTicket(t)
    \/ WindowElapses(t)
    \/ \E n \in Nodes : ScheduleGuardian(t, n)
    \/ StartGuardian(t)
    \/ EvictGuardian(t)
    \/ FailGuardian(t)
    \/ FinishGuardian(t)
    \/ CollectGuardian(t)
==============================================================================
