------------------------------ MODULE Candidates ------------------------------
(***************************************************************************)
(* Tier 2, candidate generation (generate, _for_line), on what the cascade  *)
(* left: for each line the open entries its generators find, alone or in    *)
(* combinations, ranked in one list and cut once. What is not in the list   *)
(* cannot be chosen by Tier 3.                                              *)
(*                                                                         *)
(* The narrative index answers anything it may hold; the subset search is   *)
(* what SubsetSum shows of it. Ties on document references are left open.   *)
(* Lines do not influence each other: an offer is put away before the next. *)
(***************************************************************************)
EXTENDS Cascade, FiniteSetsExt

CONSTANTS
    Party,                            \* the counterparties a resolved pair can name
    IndexScore,                       \* score_milli of the index in this instance
    Tier2Window,                      \* tier2_date_window_days
    ToleranceBps, ToleranceFloor,     \* amount_tolerance_bps, _floor_minor
    CandidateLimit,                   \* candidate_limit
    ScopedItems, ScopedPool,          \* subset_max_items, subset_max_pool
    UnscopedItems, UnscopedPool       \* subset_unscoped_max_items, _max_pool

ASSUME CandidatesAssumption ==
    /\ \A k \in {Tier2Window, ToleranceBps, ToleranceFloor, CandidateLimit,
                 ScopedItems, ScopedPool, UnscopedItems, UnscopedPool} : k \in Nat
    /\ IndexScore \subseteq 0..1000

VARIABLES
    sets,    \* the lines that have their candidate set
    offer    \* the set at hand: at most one [line, cands, truncated]

cvars == <<vars, sets, offer>>

CInit == Init /\ sets = {} /\ offer = {}

-----------------------------------------------------------------------------
Delta(amount, l) == Abs(amount - Due(l))
Total(ids) == MapThenSumSet(LAMBDA e : ledger[e].amount, ids)

\* _tolerance of Tier 2: relative to the payment, never tighter than the floor.
Bound(l) == Max({(Due(l) * ToleranceBps) \div 10000, ToleranceFloor})

Open == {e \in Entry \ claimed : ledger[e].open}
SameSide(l) == {e \in Open : ledger[e].side = Side(l)}

\* by_counterparty, inside the date window.
OfParty(l, party) ==
    {e \in SameSide(l) : /\ party # NoParty /\ ledger[e].party = party
                         /\ Within(l, e, Tier2Window)}

\* The generators for single entries. Each notes entries with a score.
ByAmount(l) ==
    {[ids |-> {e}, score |-> 1000 - (Delta(ledger[e].amount, l) * 200) \div (Bound(l) + 1)] :
        e \in {o \in SameSide(l) : /\ Within(l, o, Tier2Window)
                                   /\ Delta(ledger[o].amount, l) <= Bound(l)}}

Penalty(e, l) == (Delta(ledger[e].amount, l) * 900) \div Max({ledger[e].amount, 1})

\* Mutant: one score for every entry of the payer.
ByPartyFlat(l) == {[ids |-> {e}, score |-> 900] : e \in OfParty(l, bank[l].party)}

\* What the payment covers of the entry decides.
ByParty(l) ==
    {[ids |-> {e}, score |-> 950 - Min({450, Penalty(e, l)})] : e \in OfParty(l, bank[l].party)}

\* Mutant: a hit is not looked up among the open entries.
ByHybridUnchecked(hits) == {[ids |-> {h.entry}, score |-> Min({h.score, 950})] : h \in hits}

\* The index can be behind: a hit counts only while its entry is open.
ByHybrid(hits) ==
    {[ids |-> {h.entry}, score |-> Min({h.score, 950})] : h \in {x \in hits : x.entry \in Open}}

ByHistory(l, pairs) ==
    UNION {{[ids |-> {e}, score |-> Min({p.score, 900})] : e \in OfParty(l, p.party)} : p \in pairs}

-----------------------------------------------------------------------------
Cohort(ids) == \A e, f \in ids : ledger[e].date = ledger[f].date

\* The two pools of the subset search.
Scoped(l)   == OfParty(l, bank[l].party)
Unscoped(l) == {e \in SameSide(l) : Within(l, e, Tier1Window) /\ ledger[e].amount < Due(l)}

\* pool[:cap] of the pool sorted by amount.
Smallest(pool, cap) ==
    {kept \in SUBSET pool :
        /\ Cardinality(kept) = Min({cap, Cardinality(pool)})
        /\ \A e \in kept, f \in pool \ kept : ledger[e].amount <= ledger[f].amount}

Fits(l, pool, items) ==
    {ids \in SUBSET pool : /\ Cardinality(ids) \in 2..items /\ Due(l) > 0
                           /\ Delta(Total(ids), l) <= Bound(l)}

\* ids continues a combination at which the search left the branch.
Continues(ids, hit) ==
    /\ hit # ids /\ hit \subseteq ids
    /\ \A e \in hit, f \in ids \ hit : ledger[e].amount <= ledger[f].amount

Nearer(c, d, l) ==
    \/ Delta(Total(c), l) < Delta(Total(d), l)
    \/ Delta(Total(c), l) = Delta(Total(d), l) /\ Cohort(c) /\ ~ Cohort(d)

\* With a negative amount in the pool the search abandons branches that could still
\* reach the target: the sum of what follows is no bound on what a part adds.
NoCredit(pool) == \A e \in pool : ledger[e].amount >= 0

\* The results find_subsets may return for the combinations `fits` of the pool.
Search(l, pool, fits, truncated) ==
    {kept \in SUBSET fits : \E found \in SUBSET fits :
        /\ truncated \/ ~ NoCredit(pool)
           \/ \A c \in fits \ found : \E h \in found : Continues(c, h)
        /\ kept \subseteq found
        /\ Cardinality(kept) = Min({CandidateLimit, Cardinality(found)})
        /\ \A c \in kept, d \in found \ kept : ~ Nearer(d, c, l)}

\* Mutant: the scores of exact and inexact combinations are swapped.
SubsetScoreSwapped(ids, l) ==
    IF Total(ids) = Due(l) THEN IF Cohort(ids) THEN 700 ELSE 650
                           ELSE IF Cohort(ids) THEN 940 ELSE 860

SubsetScore(ids, l) ==
    IF Total(ids) # Due(l) THEN IF Cohort(ids) THEN 700 ELSE 650
                           ELSE IF Cohort(ids) THEN 940 ELSE 860

\* The combinations one pool contributes, and whether its search was truncated.
Combinations(l, pool, items, cap) ==
    IF Cardinality(pool) < 2 THEN {[ids |-> {}, truncated |-> FALSE]}
    ELSE UNION {UNION {{[ids |-> kept, truncated |-> t] :
                           kept \in Search(l, top, Fits(l, top, items), t)} : t \in BOOLEAN} :
                   top \in Smallest(pool, cap)}

-----------------------------------------------------------------------------
\* One entry set, one candidate: the best score stays.
Best(raw) == {c \in raw : \A d \in raw : d.ids = c.ids => d.score <= c.score}

Ahead(c, d, l) ==
    \/ c.score > d.score
    \/ c.score = d.score /\ Delta(Total(c.ids), l) < Delta(Total(d.ids), l)

\* One ranked list, cut once.
Ranked(best, l) ==
    {kept \in SUBSET best :
        /\ Cardinality(kept) = Min({CandidateLimit, Cardinality(best)})
        /\ \A c \in kept, d \in best \ kept : ~ Ahead(d, c, l)}

\* The line whose turn it is, of those the cascade left.
Next2(l) == /\ tier = 2 /\ offer = {} /\ l \in Unmatched \ sets
            /\ \A m \in Unmatched \ sets : Before(l, m)

\* The answers: entries of the line's side with a score, parties with a score.
Hits(l) == {hits \in SUBSET [entry: {e \in Entry : ledger[e].side = Side(l)}, score: IndexScore] :
               Cardinality(hits) <= CandidateLimit}
PairHits == {pairs \in SUBSET [party: Party, score: IndexScore] :
               Cardinality(pairs) <= CandidateLimit}

\* _for_line, with what the two searches and the index answered.
Generate(l) ==
    /\ Next2(l)
    /\ \E scoped \in Combinations(l, Scoped(l), ScopedItems, ScopedPool),
          unscoped \in Combinations(l, Unscoped(l), UnscopedItems, UnscopedPool) :
       \E hits \in Hits(l), pairs \in PairHits :
         LET raw == ByAmount(l) \cup ByParty(l) \cup ByHybrid(hits) \cup ByHistory(l, pairs)
                    \cup {[ids |-> c, score |-> SubsetScore(c, l)] :
                            c \in (scoped.ids \cup unscoped.ids)}
         IN  \E kept \in Ranked(Best(raw), l) :
                offer' = {[line |-> l, cands |-> kept,
                           truncated |-> scoped.truncated \/ unscoped.truncated]}
    /\ UNCHANGED <<vars, sets>>

\* The set goes into candidate_sets, in the form the checkpoint keeps.
Save ==
    /\ \E o \in offer : sets' = sets \cup {o.line}
    /\ offer' = {}
    /\ UNCHANGED vars

CNext ==
    \/ Next /\ UNCHANGED <<sets, offer>>
    \/ \E l \in Line : Generate(l)
    \/ Save

CSpec == CInit /\ [][CNext]_cvars
-----------------------------------------------------------------------------
\* Nothing is offered that an earlier tier settled or that was not open, however
\* far the index is behind (tier2_candidates.py 91-92, 153-156).
OffersOnlyOpen ==
    \A o \in offer : \A c \in o.cands : \A e \in c.ids :
        /\ ledger[e].open /\ ledger[e].side = Side(o.line)
        /\ \A x \in matches : x.entry # e

\* The payment is short of the entry by a fee of one per cent or less.
NearlyCovers(l, e) == Penalty(e, l) < 10

\* A combination never takes the place of an entry of the payer that the payment
\* covers but for a fee (tier2_candidates.py 138-145: a flat score "pushed the
\* correct answer out of the ten").
FeeNettedKeepsItsPlace ==
    \A o \in offer : \A e \in Scoped(o.line) : NearlyCovers(o.line, e) =>
        \/ \E c \in o.cands : c.ids = {e}
        \/ \A c \in o.cands : Cardinality(c.ids) = 1

\* The combinations of l in a pool that was not cut and holds no negative amount.
Reachable(l, ids) ==
    \/ /\ ids \in Fits(l, Scoped(l), ScopedItems)
       /\ Cardinality(Scoped(l)) <= ScopedPool /\ NoCredit(Scoped(l))
    \/ /\ ids \in Fits(l, Unscoped(l), UnscopedItems)
       /\ Cardinality(Unscoped(l)) <= UnscopedPool /\ NoCredit(Unscoped(l))

\* An exact combination of a pool without negative amounts reaches Tier 3 unless it
\* continues another one, the search says it was truncated, or what took its place
\* is no less exact and no less of one day (tier2_candidates.py 68-79, 182-186; of a
\* pool with a negative amount the code promises nothing: subset_sum.py 96-100).
ExactCombinationsOffered ==
    \A o \in offer : ~ o.truncated =>
        \A ids \in SUBSET Open : Reachable(o.line, ids) /\ Total(ids) = Due(o.line) =>
            \/ \E c \in o.cands : c.ids = ids
            \/ \E h \in SUBSET ids : Cardinality(h) >= 2 /\ Continues(ids, h)
                                     /\ Delta(Total(h), o.line) <= Bound(o.line)
            \/ /\ Cardinality(o.cands) = CandidateLimit
               /\ \A c \in o.cands : Cardinality(c.ids) > 1 =>
                     Total(c.ids) = Due(o.line) /\ (Cohort(ids) => Cohort(c.ids))
=============================================================================
