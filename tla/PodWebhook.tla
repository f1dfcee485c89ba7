------------------------------ MODULE PodWebhook ------------------------------
(***************************************************************************)
(* Admission of business pods.  For a pod that asks for a ticket, the      *)
(* mutating webhook (PodCustomDefaulter.Default) finds a ticket in the     *)
(* cache and claims it with a status update, while the request is still    *)
(* being decided; the validating webhook (PodCustomValidator) and the API  *)
(* server's own rules then accept or reject the pod.  Requests are handled *)
(* concurrently, each in steps: find, bind, decide.                        *)
(***************************************************************************)
EXTENDS KorderApi

CONSTANTS
    Wants,      \* pod -> tickets that its korder.dev/ticket-request matches
    ByName,     \* pods whose request is name:<ticket>, or a ticket's name and nothing else
    Malformed,  \* pods whose selector holds a part that is not of the form key=value
    Compatible  \* pod -> tickets whose nodeSelector agrees with the pod's

ASSUME WantsAssumption  == Wants \in [Pods -> SUBSET Tickets]
ASSUME ByNameAssumption ==
    ByName \subseteq Pods /\ \A p \in ByName : \E t \in Tickets : Wants[p] = {t}
ASSUME MalformedAssumption  == Malformed \subseteq Pods \ ByName
ASSUME CompatibleAssumption == Compatible \in [Pods -> SUBSET Tickets]

VARIABLES
    pods,       \* business pod -> its persisted object
    admissions  \* business pod -> the admission request in flight for it

podVars == <<pods, admissions>>

NoTicket == "nil"

\* claimed is the ticket-claimed annotation.  bound is a history variable: the
\* <<ticket, uid>> that bindPodToTicket has claimed for the pod with success.
PodObject ==
    [exists : BOOLEAN, node : Nodes \cup {""}, claimed : Tickets \cup {NoTicket},
     bound : SUBSET (Tickets \X Nat)]

BlankPod == [exists |-> FALSE, node |-> "", claimed |-> NoTicket, bound |-> {}]

(***************************************************************************)
(* An admission in flight: its step, what becomes of the pod if it is      *)
(* accepted ("discard" is a dry run, or a request the API server has given *)
(* up on), the pod as mutated so far, and the Find result.                 *)
(***************************************************************************)
Admission ==
    {a \in [step : {"none", "bind", "decide"}, op : {"create", "update", "discard"},
            pod : PodObject, t : Tickets \cup {NoTicket}, copy : TicketObject] :
        a.step = "bind" => a.t \in Tickets /\ a.copy.node # "nil"}

NoAdmission ==
    [step |-> "none", op |-> "discard", pod |-> BlankPod, t |-> NoTicket,
     copy |-> BlankTicket]

PodTypeOK ==
    /\ pods \in [Pods -> PodObject]
    /\ admissions \in [Pods -> Admission]

PodInit ==
    /\ pods = [p \in Pods |-> BlankPod]
    /\ admissions = [p \in Pods |-> NoAdmission]

------------------------------------------------------------------------------
(* TicketHelper: reads of the cache *)

\* Mutant: any ticket with a node is available.
AvailableByNode(t) == ticketCache[t].exists /\ ticketCache[t].node # "nil"

Available(t) ==
    /\ ticketCache[t].exists
    /\ ticketCache[t].phase = "Ready" /\ ticketCache[t].node # "nil"

\* Mutant: every form of request finds available tickets only.
MatchingAvailable(p) == {t \in Wants[p] : Available(t)}

\* FindTicketsByRequest: a request by name fails unless its ticket is
\* available, the other forms return every match whatever its phase.  The parts
\* of a selector that are not of the form key=value are skipped.
Matching(p) ==
    {t \in Wants[p] : IF p \in ByName THEN Available(t) ELSE ticketCache[t].exists}

\* calculateCompatibilityScore; the resource and affinity checks always pass.
Score(p, t) == 40 + (IF t \in Compatible[p] THEN 15 ELSE 0)

\* selectBestTicket: any available match of the best score, the list having no
\* particular order.
BestTickets(p) ==
    {t \in Matching(p) : Available(t)
        /\ \A u \in Matching(p) : Available(u) => Score(p, u) <= Score(p, t)}

------------------------------------------------------------------------------
(* PodCustomDefaulter *)

\* Default up to its status update, for a request that persists as op.
Find(p, op, pod) ==
    /\ admissions[p].step = "none"
    /\ \/ /\ BestTickets(p) = {}
          /\ admissions' = [admissions EXCEPT ![p] =
                [NoAdmission EXCEPT !.step = "decide", !.op = op, !.pod = pod]]
       \/ \E t \in BestTickets(p) :
             admissions' = [admissions EXCEPT ![p] =
                [step |-> "bind", op |-> op, pod |-> pod, t |-> t,
                 copy |-> ticketCache[t]]]
    /\ UNCHANGED <<tickets, ticketCache, guardians, guardianCache, pastWindow, pods>>

\* A user or a controller creates the pod.
SubmitCreate(p) ==
    /\ ~pods[p].exists
    /\ Find(p, "create", BlankPod)
    /\ UNCHANGED faults

\* kubectl create --dry-run=server.
SubmitDryRun(p) ==
    /\ ~pods[p].exists
    /\ Find(p, "discard", BlankPod)
    /\ Fault

\* Somebody edits a label of the pod: Default runs for updates too.
SubmitUpdate(p) ==
    /\ pods[p].exists
    /\ Find(p, "update", pods[p])
    /\ Fault

\* The pod as bindPodToTicket mutates it, before the status update.
Mutated(pod, t, copy) == [pod EXCEPT !.node = copy.node, !.claimed = t]

Claimed(copy, p) == [copy EXCEPT !.phase = "Claimed", !.claimedPod = p]

\* Mutant: the claim is a patch that does not carry the resourceVersion.
BindPatched(p) ==
    LET a == admissions[p]
    IN  /\ a.step = "bind" /\ tickets[a.t].exists
        /\ Store(a.t, Claimed(a.copy, p))
        /\ admissions' = [admissions EXCEPT ![p] =
              [NoAdmission EXCEPT !.step = "decide", !.op = a.op,
                  !.pod = [Mutated(a.pod, a.t, a.copy) EXCEPT
                              !.bound = @ \cup {<<a.t, a.copy.uid>>}]]]
        /\ UNCHANGED <<ticketCache, guardians, guardianCache, pastWindow, faults, pods>>

\* bindPodToTicket claims the ticket.
Bind(p) ==
    LET a == admissions[p]
    IN  /\ a.step = "bind" /\ Current(a.t, a.copy)
        /\ Store(a.t, Claimed(a.copy, p))
        /\ admissions' = [admissions EXCEPT ![p] =
              [NoAdmission EXCEPT !.step = "decide", !.op = a.op,
                  !.pod = [Mutated(a.pod, a.t, a.copy) EXCEPT
                              !.bound = @ \cup {<<a.t, a.copy.uid>>}]]]
        /\ UNCHANGED <<ticketCache, guardians, guardianCache, pastWindow, faults, pods>>

\* The status update fails, mostly with a conflict.  Default returns nil all the same, and the pod
\* keeps the node and the annotations it has been given.
BindFails(p) ==
    LET a == admissions[p]
    IN  /\ a.step = "bind"
        /\ \/ ~Current(a.t, a.copy) /\ UNCHANGED faults
           \/ Fault
        /\ admissions' = [admissions EXCEPT ![p] =
              [NoAdmission EXCEPT !.step = "decide", !.op = a.op,
                  !.pod = Mutated(a.pod, a.t, a.copy)]]
        /\ UNCHANGED <<tickets, ticketCache, guardians, guardianCache, pastWindow, pods>>

------------------------------------------------------------------------------
(* PodCustomValidator, the API server's decision, and the pod's later life *)

\* validateTicketAnnotations for a new pod; updates are always allowed.  Here
\* every part of a selector has to be of the form key=value.
Valid(p, pod) ==
    pod.claimed # NoTicket => p \notin Malformed /\ pod.claimed \in Matching(p)

\* The API server never changes the node of an existing pod.
Accepted(p) ==
    LET a == admissions[p]
    IN  \/ a.op = "create" /\ Valid(p, a.pod)
        \/ a.op = "update" /\ a.pod.node = pods[p].node

Decide(p) ==
    /\ admissions[p].step = "decide"
    /\ pods' = IF Accepted(p)
               THEN [pods EXCEPT ![p] = [admissions[p].pod EXCEPT !.exists = TRUE]]
               ELSE pods
    /\ admissions' = [admissions EXCEPT ![p] = NoAdmission]
    /\ UNCHANGED apiVars

\* The API server gives up on a webhook that still runs: failurePolicy=fail
\* rejects the request, the handler goes on.
TimeOut(p) ==
    /\ admissions[p].step # "none" /\ admissions[p].op # "discard"
    /\ admissions' = [admissions EXCEPT ![p].op = "discard"]
    /\ Fault
    /\ UNCHANGED <<tickets, ticketCache, guardians, guardianCache, pastWindow, pods>>

\* The default scheduler places a pod that was not bound to a ticket's node; an
\* update computed from the pod before that meets a conflict.
SchedulePod(p, n) ==
    /\ pods[p].exists /\ pods[p].node = ""
    /\ pods' = [pods EXCEPT ![p].node = n]
    /\ admissions' = [admissions EXCEPT ![p].op = "discard"]
    /\ UNCHANGED apiVars

\* The pod ends or is deleted; nothing tells its ticket.
DeletePod(p) ==
    /\ pods[p].exists
    /\ pods' = [pods EXCEPT ![p] = BlankPod]
    /\ admissions' = [admissions EXCEPT ![p].op = "discard"]
    /\ Fault
    /\ UNCHANGED <<tickets, ticketCache, guardians, guardianCache, pastWindow>>

PodStep(p) ==
    \/ SubmitCreate(p)
    \/ SubmitDryRun(p)
    \/ SubmitUpdate(p)
    \/ Bind(p)
    \/ BindFails(p)
    \/ Decide(p)
    \/ TimeOut(p)
    \/ \E n \in Nodes : SchedulePod(p, n)
    \/ DeletePod(p)
==============================================================================
