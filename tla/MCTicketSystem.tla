---------------------------- MODULE MCTicketSystem ----------------------------
(***************************************************************************)
(* Small instances of TicketSystem for TLC.                                *)
(***************************************************************************)
EXTENDS TicketSystem

OneTicket  == {"t1"}
TwoTickets == {"t1", "t2"}
OnePod     == {"p1"}
TwoPods    == {"p1", "p2"}
OneNode    == {"n1"}

\* The scheduler decides where every guardian goes.
NotPinned  == [t \in Tickets |-> ""]
\* Every ticket names its node.
AllPinned  == [t \in Tickets |-> "n1"]

\* Every pod asks for every ticket, by group or selector.
WantsAny   == [p \in Pods |-> Tickets]
\* spec.lifecycle.ttlSecondsAfterFinished without a value.
NoTTL      == -1
==============================================================================
