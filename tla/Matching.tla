------------------------------ MODULE Matching ------------------------------
(***************************************************************************)
(* What automatic matching promises: payments and open items are paired one *)
(* pair at a time, each payment with one item and each item with one        *)
(* payment, and a pair once made stays.                                     *)
(***************************************************************************)
CONSTANTS Line, Entry

VARIABLE pairs

Init == pairs = {}

\* A payment nobody settled is settled with an item nobody used.
Pair(l, e) ==
    /\ \A p \in pairs : p[1] # l /\ p[2] # e
    /\ pairs' = pairs \cup {<<l, e>>}

Next == \E l \in Line, e \in Entry : Pair(l, e)

Spec == Init /\ [][Next]_pairs
=============================================================================
