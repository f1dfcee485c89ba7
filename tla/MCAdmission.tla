------------------------------ MODULE MCAdmission ------------------------------
(***************************************************************************)
(* Small instances of Admission for TLC: specs that differ from a plain    *)
(* one in one group of fields.                                             *)
(***************************************************************************)
EXTENDS Admission

Quantities == {-5, 4, 12, 40}
One(r, q)  == [n \in {r} |-> q]

PlainTicket ==
    [start |-> "nil", duration |-> "positive", policy |-> "Delete", ttl |-> "nil",
     scheduler |-> "nil", node |-> "nil", resources |-> FALSE,
     requests |-> NoAmounts, limits |-> NoAmounts]

Timed ==
    {[PlainTicket EXCEPT !.start = s, !.duration = d] :
        s \in {"nil", "", "malformed", "future", "past"},
        d \in {"", "malformed", "nonpositive", "positive"}}
Ending ==
    {[PlainTicket EXCEPT !.policy = p, !.ttl = t, !.node = n] :
        p \in {"Delete", "Retain"}, t \in {"nil", "negative", "set"},
        n \in {"nil", "n1", "n2"}}
Limited ==
    {[PlainTicket EXCEPT !.resources = TRUE, !.requests = q, !.limits = l] :
        q \in {NoAmounts} \cup {One("cpu", c) : c \in Quantities},
        l \in {NoAmounts, One("memory", 8)} \cup {One("cpu", c) : c \in Quantities}}

Tickets == Timed \cup Ending \cup Limited

PlainOrder ==
    [replicas |-> 3, refresh |-> "", selector |-> "nil", owner |-> "nil", template |-> PlainTicket]
Orders ==
    {[PlainOrder EXCEPT !.replicas = r, !.template = t] : r \in {Unset, 3, 40}, t \in Tickets}
    \cup {[PlainOrder EXCEPT !.replicas = r, !.refresh = p, !.selector = s] :
             r \in {-2, 0}, p \in {"", "Never"}, s \in {"nil", "empty", "set"}}
    \cup {[PlainOrder EXCEPT !.owner = u] : u \in {"", "own", "other"}}

Any        == [kind |-> "any"]
Span(a, b) == [kind |-> "range", from |-> a, to |-> b]
Every(n)   == [kind |-> "step", by |-> n]
Only(vs)   == [kind |-> "list", of |-> vs, clean |-> TRUE]

\* Fields tried in every place; some are out of bounds in some of them.
Fields ==
    {Any, [kind |-> "malformed"], [kind |-> "list", of |-> {3}, clean |-> FALSE],
     Span(0, 3), Span(1, 5), Span(5, 1), Span(4, 12), Span(12, 70), Every(0), Every(5),
     Every(40), Only({0, 6}), Only({2}), Only({31, 59})}
Schedules ==
    {<<>>, <<Any>>} \cup {[i \in 1..5 |-> IF i = k THEN f ELSE Any] : k \in 1..5, f \in Fields}
    \cup {[i \in 1..5 |-> IF i \in {k, l} THEN f ELSE Only({2})] :
             k \in 1..5, l \in 1..5, f \in {Any, Span(1, 5), Every(5)}}
Times ==
    {<<m, h, d, n, w>> : m \in {0, 2, 5, 59}, h \in {0, 3, 5}, d \in {1, 2, 31}, n \in {2, 12},
                         w \in {0, 2, 6}}

PlainQuota ==
    [type |-> "Cluster", namespaces |-> {}, selectors |-> {}, hard |-> [n \in {} |-> 0],
     windows |-> {}, allocations |-> {}]
Windows ==
    {[named |-> a, multiplied |-> b, schedule |-> <<Any>>] : a \in BOOLEAN, b \in BOOLEAN}
    \cup {[named |-> TRUE, multiplied |-> TRUE, schedule |-> s] : s \in Schedules}

AllQuotas ==
    {[PlainQuota EXCEPT !.type = t, !.namespaces = n, !.selectors = s] :
        t \in {"", "Cluster", "NamespaceList", "NamespaceSelector", "ObjectSelector"},
        n \in SUBSET {"", "ns"}, s \in {{}, {"NamespaceSelector"}, {"ObjectSelector"}}}
    \cup {[PlainQuota EXCEPT !.hard = [n \in {h} |-> l]] :
             h \in HardNames, l \in {-1, 0, 7}}
    \cup {[PlainQuota EXCEPT !.windows = {w}] : w \in Windows}
    \cup {[PlainQuota EXCEPT !.allocations = {[namespace |-> n, clear |-> c]}] :
             n \in {"", "ns"}, c \in BOOLEAN}
==============================================================================
