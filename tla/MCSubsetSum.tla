----------------------------- MODULE MCSubsetSum -----------------------------
(***************************************************************************)
(* SubsetSum on every pool of at most five small amounts and two days.      *)
(***************************************************************************)
EXTENDS SubsetSum

Sorted(p) == \A i, j \in 1..Len(p) : i <= j => p[i] <= p[j]

MCPool == {p \in UNION {[1..k -> {1, 2, 3, 5, 6}] : k \in 0..5} : Sorted(p)}

ASSUME PoolsNonnegative == NoNegative
=============================================================================
