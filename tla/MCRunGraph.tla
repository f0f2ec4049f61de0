----------------------------- MODULE MCRunGraph -----------------------------
(***************************************************************************)
(* RunGraph on two or three bank lines: line 1 is settled by the            *)
(* deterministic tiers, the others reach Tier 3 with overlapping candidates.*)
(***************************************************************************)
EXTENDS RunGraph, TLC

CONSTANTS e1, e2, e3, d1, d2

MCDet == [l \in Line |-> IF l = 1 THEN {e1} ELSE {}]

\* The candidates include the entry Tier 0 settles and two that share an entry.
MCOption ==
    [l \in Line |-> CASE l = 1 -> {} [] l = 2 -> {{e1}, {e2}, {e2, e3}} [] OTHER -> {{e2}}]
\* The same with fewer choices, for the runs with several drivers or deaths.
MCFewOptions ==
    [l \in Line |-> CASE l = 1 -> {} [] l = 2 -> {{e1}, {e2}} [] OTHER -> {{e2}}]

MCAnswer ==
    {a \in {[line |-> 2, action |-> "approve", entries |-> {e2}],
            [line |-> 3, action |-> "reject", entries |-> {}]} : a.line \in Line}
\* Two reviewers disagree on line 2; one request can carry both resolutions.
MCRivals ==
    {[line |-> 2, action |-> "approve", entries |-> {e2}],
     [line |-> 2, action |-> "reject", entries |-> {}]}
\* Drivers are interchangeable: no property without fairness tells them apart.
DriverSymmetry == Permutations(Driver)
=============================================================================
