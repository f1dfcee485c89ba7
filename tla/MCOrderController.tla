--------------------------- MODULE MCOrderController ---------------------------
(***************************************************************************)
(* Small instances of OrderController for TLC.                             *)
(***************************************************************************)
EXTENDS OrderController

KeepAll  == {"Never"}
TakeAway == {"Always", "OnClaim"}

\* No ticket is deleted; everything happens; users or the cleanup policy delete
\* tickets of an order that stays.
Growth     == {"spec", "phase"}
AllChanges == {"spec", "phase", "deleteOrder", "deleteTicket"}
Deletions  == {"phase", "deleteTicket"}

\* An order that has its one ticket, and a pod has claimed it.
ClaimedTicket == [NoTicket EXCEPT !.owner = 1, !.phase = "Claimed"]
Settled ==
    /\ tickets = [j \in Index |-> IF j = 0 THEN ClaimedTicket ELSE NoTicket]
    /\ ticketCache = tickets
    /\ \E policy \in RefreshPolicies :
          order = [BlankOrder EXCEPT !.exists = TRUE, !.rv = 3, !.uid = 1, !.finalizer = TRUE,
                      !.replicas = 1, !.refresh = policy, !.status = StatusOf(tickets),
                      !.conditions = {"Ready"}]
    /\ orderCache = order
    /\ queued = TRUE /\ worker = Resting
    /\ changes = 0 /\ faults = 0

\* From the beginning, or from there.
EitherSpec == (Init \/ Settled) /\ [][Next]_vars /\ Fairness
==============================================================================
