------------------------------ MODULE SubsetSum ------------------------------
(***************************************************************************)
(* find_subsets: the bounded depth-first search for combinations of open    *)
(* items that add up to a payment. The recursion of `walk` is a stack of    *)
(* frames; a step is one turn of its loop. Ranking ends the search.         *)
(*                                                                         *)
(* Items are their positions in the pool sorted by amount; a combination is *)
(* a set of positions. Ties of the ranking on document references are left  *)
(* open.                                                                    *)
(***************************************************************************)
EXTENDS Integers, Sequences, FiniteSets

CONSTANTS
    Pool,        \* the sorted pools of this instance: sequences of amounts
    Day,         \* the days an item can be raised on
    Target, Tolerance,   \* target_minor, tolerance_minor
    MaxItems, MaxResults,
    CollectCap,  \* collect_cap
    NodeBudget   \* node_budget

ASSUME PoolAssumption ==
    \A p \in Pool : /\ p \in Seq(Int)
                    /\ \A i, j \in 1..Len(p) : i <= j => p[i] <= p[j]
ASSUME LimitAssumption ==
    /\ Target \in Int /\ Tolerance \in Nat /\ MaxItems \in Nat /\ MaxResults \in Nat
    /\ CollectCap \in Nat \ {0} /\ NodeBudget \in Nat \ {0}

VARIABLES
    amounts, days,   \* the pool: its amounts in ascending order, its entry dates
    stack,           \* the calls of walk: [next, picked, total]
    results,         \* combinations, in the order they were found
    nodes,           \* state["nodes"]
    exhausted,       \* state["exhausted"]
    returned,        \* the ranked and cut result
    phase            \* "start", "walk", "rank", "done"

pool == <<amounts, days>>
vars == <<pool, stack, results, nodes, exhausted, returned, phase>>

Init ==
    /\ amounts \in Pool
    /\ days \in [1..Len(amounts) -> Day]
    /\ stack = <<>> /\ results = <<>> /\ nodes = 0 /\ exhausted = TRUE
    /\ returned = {} /\ phase = "start"

-----------------------------------------------------------------------------
n == Len(amounts)
Abs(k) == IF k < 0 THEN -k ELSE k

\* Sum of the amounts from position i on (suffix_max).
Rest[i \in 1..(n + 1)] == IF i > n THEN 0 ELSE amounts[i] + Rest[i + 1]

Top    == stack[Len(stack)]
Caller == SubSeq(stack, 1, Len(stack) - 1)

\* Nothing to search: reported as searched completely.
StartNothing ==
    /\ phase = "start" /\ (MaxItems < 2 \/ Target <= 0 \/ n = 0)
    /\ phase' = "done"
    /\ UNCHANGED <<pool, stack, results, nodes, exhausted, returned>>

Start ==
    /\ phase = "start" /\ ~ (MaxItems < 2 \/ Target <= 0 \/ n = 0)
    /\ stack' = <<[next |-> 1, picked |-> {}, total |-> 0]>> /\ phase' = "walk"
    /\ UNCHANGED <<pool, results, nodes, exhausted, returned>>

\* The loop of a call is at its end.
Over(f) == f.next > n

\* The search stops as a whole: every caller returns at once.
Stop == exhausted' = FALSE /\ stack' = <<>> /\ phase' = "rank"

\* walk returns to its caller, and at last to find_subsets.
Return ==
    /\ stack' = Caller
    /\ phase' = IF Len(stack) = 1 THEN "rank" ELSE "walk"

LoopEnds ==
    /\ phase = "walk" /\ Over(Top)
    /\ Return
    /\ UNCHANGED <<pool, results, nodes, exhausted, returned>>

\* The node is counted; at the budget the search stops.
BudgetSpent ==
    /\ phase = "walk" /\ ~ Over(Top)
    /\ nodes' = nodes + 1 /\ nodes' >= NodeBudget
    /\ Stop
    /\ UNCHANGED <<pool, results, returned>>

Running == Top.total + amounts[Top.next]
Picked  == Top.picked \cup {Top.next}

\* A node inside the budget.
Node == phase = "walk" /\ ~ Over(Top) /\ nodes' = nodes + 1 /\ nodes' < NodeBudget

TooLarge == Running > Target + Tolerance

Hit == Cardinality(Picked) >= 2 /\ Abs(Running - Target) <= Tolerance

\* Mutant: one item too many.
ReachableOneMore == /\ Cardinality(Picked) <= MaxItems
                    /\ Running + Rest[Top.next + 1] >= Target - Tolerance

\* Mutant: a branch is left when it cannot get above the target.
ReachableAbove == /\ Cardinality(Picked) < MaxItems
                  /\ Running + Rest[Top.next + 1] > Target + Tolerance

\* The branch can still get to the target.
Reachable == /\ Cardinality(Picked) < MaxItems
             /\ Running + Rest[Top.next + 1] >= Target - Tolerance

NextItem == [stack EXCEPT ![Len(stack)].next = @ + 1]

Break ==
    /\ Node /\ TooLarge
    /\ Return
    /\ UNCHANGED <<pool, results, exhausted, returned>>

\* A hit is collected and its supersets are skipped; at the cap the search stops.
Collect ==
    /\ Node /\ ~ TooLarge /\ Hit
    /\ results' = Append(results, Picked)
    /\ IF Len(results') >= CollectCap THEN Stop
       ELSE stack' = NextItem /\ UNCHANGED <<exhausted, phase>>
    /\ UNCHANGED <<pool, returned>>

Descend ==
    /\ Node /\ ~ TooLarge /\ ~ Hit /\ Reachable
    /\ stack' = Append(NextItem, [next |-> Top.next + 1, picked |-> Picked, total |-> Running])
    /\ UNCHANGED <<pool, results, exhausted, returned, phase>>

Skip ==
    /\ Node /\ ~ TooLarge /\ ~ Hit /\ ~ Reachable
    /\ stack' = NextItem
    /\ UNCHANGED <<pool, results, exhausted, returned, phase>>

-----------------------------------------------------------------------------
Found == {results[i] : i \in 1..Len(results)}

Total(c) == LET t[i \in 0..n] == IF i = 0 THEN 0
                                 ELSE t[i - 1] + (IF i \in c THEN amounts[i] ELSE 0)
            IN  t[n]
Delta(c)  == Abs(Total(c) - Target)
Cohort(c) == \A i, j \in c : days[i] = days[j]

\* The ranking: closest first, same-day combinations before others.
Better(c, d) == Delta(c) < Delta(d) \/ (Delta(c) = Delta(d) /\ Cohort(c) /\ ~ Cohort(d))

\* Mutant: combinations are returned in the order they were found.
CutUnranked(kept) == kept = {results[i] : i \in 1..(IF Len(results) < MaxResults
                                                  THEN Len(results) ELSE MaxResults)}

\* ranked[:max_results].
Cut(kept) ==
    /\ Cardinality(kept) = IF Len(results) < MaxResults THEN Len(results) ELSE MaxResults
    /\ \A c \in kept, d \in Found \ kept : ~ Better(d, c)

Rank ==
    /\ phase = "rank" /\ phase' = "done"
    /\ \E kept \in SUBSET Found : Cut(kept) /\ returned' = kept
    /\ UNCHANGED <<pool, stack, results, nodes, exhausted>>

Next == \/ StartNothing \/ Start \/ LoopEnds \/ BudgetSpent
        \/ Break \/ Collect \/ Descend \/ Skip \/ Rank

Spec == Init /\ [][Next]_vars
-----------------------------------------------------------------------------
Fits(c) == Cardinality(c) \in 2..MaxItems /\ Delta(c) <= Tolerance

\* c continues the combination h with larger items.
Extends(c, h) == h # c /\ h \subseteq c /\ \A i \in c \ h, j \in h : j < i

\* What is reported is a combination of the allowed size within the tolerance,
\* and no combination is reported twice (subset_sum.py 62-168).
FoundFits ==
    /\ \A c \in Found : Fits(c)
    /\ Cardinality(Found) = Len(results)

\* No pool has a negative amount: with one, `Rest` is no bound on what can follow.
NoNegative == \A p \in Pool : \A i \in 1..Len(p) : p[i] >= 0

\* A search that says it was exhaustive overlooked nothing: every combination that
\* fits was found, or continues one that was (subset_sum.py 19-22, 55, 140-141).
NothingOverlooked ==
    phase = "done" /\ exhausted /\ MaxItems >= 2 /\ Target > 0 =>
        \A c \in SUBSET (1..n) : Fits(c) => c \in Found \/ \E h \in Found : Extends(c, h)

\* Ranking and cutting drop nothing better than what is returned, whatever was
\* found first (subset_sum.py 73-77, 155-167).
NothingBetterDropped ==
    phase = "done" /\ exhausted =>
        \A c \in SUBSET (1..n) :
            Fits(c) /\ (\A h \in Found : ~ Extends(c, h)) =>
                \/ c \in returned
                \/ Cardinality(returned) >= MaxResults /\ \A r \in returned : ~ Better(c, r)
                \/ MaxItems < 2 \/ Target <= 0
=============================================================================
