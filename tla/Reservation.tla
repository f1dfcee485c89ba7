------------------------------ MODULE Reservation ------------------------------
(***************************************************************************)
(* What korder promises the users of a ticket, without controllers,        *)
(* caches, webhooks or guardian pods: a ticket is issued, becomes ready,   *)
(* is claimed by at most one pod for the rest of its life, lapses when its *)
(* window is over, and is withdrawn at any time.                           *)
(***************************************************************************)
CONSTANTS Tickets, Pods

VARIABLES
    stage,  \* ticket -> where the ticket is in its life
    holder  \* ticket -> the pod that has claimed it, or "nil"

vars == <<stage, holder>>

Stages == {"absent", "new", "ready", "claimed", "lapsed"}

TypeOK ==
    /\ stage \in [Tickets -> Stages]
    /\ holder \in [Tickets -> Pods \cup {"nil"}]

Init ==
    /\ stage = [t \in Tickets |-> "absent"]
    /\ holder = [t \in Tickets |-> "nil"]

Move(t, from, to) ==
    /\ stage[t] \in from
    /\ stage' = [stage EXCEPT ![t] = to]

Issue(t)    == Move(t, {"absent"}, "new") /\ UNCHANGED holder
Activate(t) == Move(t, {"new"}, "ready") /\ UNCHANGED holder

\* The capacity behind a ready ticket was lost and could not be replaced yet.
Suspend(t)  == Move(t, {"ready"}, "new") /\ UNCHANGED holder

Claim(t, p) == Move(t, {"ready"}, "claimed") /\ holder' = [holder EXCEPT ![t] = p]
Lapse(t)    == Move(t, {"new", "ready", "claimed"}, "lapsed") /\ UNCHANGED holder

Withdraw(t) ==
    /\ Move(t, Stages \ {"absent"}, "absent")
    /\ holder' = [holder EXCEPT ![t] = "nil"]

Next ==
    \E t \in Tickets :
        \/ Issue(t) \/ Activate(t) \/ Suspend(t) \/ Lapse(t) \/ Withdraw(t)
        \/ \E p \in Pods : Claim(t, p)

Spec == Init /\ [][Next]_vars
==============================================================================
