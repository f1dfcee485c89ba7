------------------------------ MODULE TicketPhases ------------------------------
(***************************************************************************)
(* The phases of a ticket, and the moves between them.  The ticket side    *)
(* (TicketSystem) has to make no other move; the order side                *)
(* (OrderController) lets its tickets make any of them at any time.        *)
(***************************************************************************)

\* A ticket that no reconciliation has reached yet has no phase.
Phases == {"", "Pending", "Ready", "Claimed", "Expired"}

PhaseMoves ==
    {<<"", "Pending">>, <<"", "Ready">>, <<"Pending", "Ready">>, <<"Ready", "Pending">>,
     <<"Ready", "Claimed">>} \cup {<<from, "Expired">> : from \in Phases \ {"Expired"}}
==============================================================================
