--------------------------- MODULE CandidatesProofs ---------------------------
(***************************************************************************)
(* Proofs about Tiers 0 to 2 for any lines, entries, records, windows,      *)
(* tolerances, limits and answers of the index. First the cascade: type     *)
(* correctness, RivalsTakenEarlier, and that it implements Matching; its    *)
(* inductive invariant adds what the code keeps in `claimed` and in the     *)
(* order of the walk. Then the candidates: an offer holds nothing that an   *)
(* earlier tier settled or that was not open, on the line's side of the     *)
(* ledger; an entry of the payer that is short by a fee keeps its place;    *)
(* and an exact combination is offered, or the offer tells why not.         *)
(***************************************************************************)
EXTENDS Candidates, FiniteSetTheorems, WellFoundedInduction, TLAPS

\* `claimed` holds exactly the entries of the matches.
ClaimedAreMatched == \A e \in Entry : e \in claimed <=> \E x \in matches : x.entry = e

\* The matches made so far name no line that is still to be looked at, come from
\* this tier or an earlier one, and this tier's precede every line left.
WalkInOrder ==
    \A x \in matches :
        /\ x.line \notin todo /\ x.tier <= tier
        /\ x.tier = tier => \A l \in todo : Before(x.line, l)

IInv == TypeOK /\ ClaimedAreMatched /\ WalkInOrder /\ RivalsTakenEarlier

-----------------------------------------------------------------------------
\* While the rows stay, so does everything the tiers weigh.
LEMMA RowsKept ==
    ASSUME UNCHANGED rows
    PROVE  /\ \A l, m : Before(l, m)' <=> Before(l, m)
           /\ \A x : Weighed(x)' = Weighed(x)
BY DEF rows, Before, Weighed, Quoted, Exact, Near, SameParty, Side, Due, Within

\* A tier settles a line only with an entry that is not claimed, and all other
\* entries it weighed for the line are.
LEMMA FoundAlone ==
    ASSUME NEW l, NEW e,
           \/ tier = 0 /\ e \in Tier0(l)
           \/ tier = 1 /\ e \in Tier1(l)
    PROVE  /\ e \in Entry \ claimed
           /\ Weighed([line |-> l, entry |-> e, tier |-> tier]) \ {e} \subseteq claimed
BY DEF Tier0, Tier1, Weighed

\* What a turn of one of the two tiers does.
LEMMA TurnCases ==
    ASSUME NEW l \in Line, Tier0Line(l) \/ Tier1Line(l)
    PROVE  /\ tier \in {0, 1} /\ Following(l)
           /\ todo' = todo \ {l} /\ UNCHANGED <<rows, tier>>
           /\ \/ UNCHANGED <<claimed, matches>>
              \/ \E e \in Entry \ claimed :
                   /\ Weighed([line |-> l, entry |-> e, tier |-> tier]) \ {e} \subseteq claimed
                   /\ matches' = matches \cup {[line |-> l, entry |-> e, tier |-> tier]}
                   /\ claimed' = claimed \cup {e}
<1>1. CASE Tier0Line(l)
    <2>1. tier = 0 /\ Turn(l, Tier0(l))
        BY <1>1 DEF Tier0Line
    <2>2. \A e \in Tier0(l) : /\ e \in Entry \ claimed
             /\ Weighed([line |-> l, entry |-> e, tier |-> tier]) \ {e} \subseteq claimed
        BY <2>1, FoundAlone
    <2> QED BY <2>1, <2>2 DEF Turn
<1>2. CASE Tier1Line(l)
    <2>1. tier = 1 /\ Turn(l, Tier1(l))
        BY <1>2 DEF Tier1Line
    <2>2. \A e \in Tier1(l) : /\ e \in Entry \ claimed
             /\ Weighed([line |-> l, entry |-> e, tier |-> tier]) \ {e} \subseteq claimed
        BY <2>1, FoundAlone
    <2> QED BY <2>1, <2>2 DEF Turn
<1> QED BY <1>1, <1>2

-----------------------------------------------------------------------------
\* Nothing is claimed or matched when the cascade starts.
LEMMA InitInv == Init => IInv
BY DEF Init, IInv, TypeOK, ClaimedAreMatched, WalkInOrder, RivalsTakenEarlier

\* A line's turn keeps the invariant: the new match's rivals are claimed, so
\* earlier matches name them, and every earlier match precedes the line.
LEMMA TurnInv ==
    ASSUME IInv, NEW l \in Line, Tier0Line(l) \/ Tier1Line(l)
    PROVE  IInv'
<1> USE DEF IInv
<1>1. /\ tier \in {0, 1} /\ l \in todo /\ \A m \in todo : Before(l, m)
      /\ todo' = todo \ {l} /\ UNCHANGED <<rows, tier>>
    BY TurnCases DEF Following
<1>2. /\ \A a, b : Before(a, b)' <=> Before(a, b)
      /\ \A x : Weighed(x)' = Weighed(x)
    BY <1>1, RowsKept
<1>3. CASE UNCHANGED <<claimed, matches>>
    <2>1. TypeOK' /\ ClaimedAreMatched' /\ WalkInOrder'
        BY <1>1, <1>2, <1>3 DEF TypeOK, ClaimedAreMatched, WalkInOrder, rows
    <2>2. RivalsTakenEarlier'
        BY <1>1, <1>2, <1>3 DEF RivalsTakenEarlier
    <2> QED BY <2>1, <2>2
<1>4. ASSUME NEW e \in Entry \ claimed,
             Weighed([line |-> l, entry |-> e, tier |-> tier]) \ {e} \subseteq claimed,
             matches' = matches \cup {[line |-> l, entry |-> e, tier |-> tier]},
             claimed' = claimed \cup {e}
      PROVE IInv'
    <2> DEFINE new == [line |-> l, entry |-> e, tier |-> tier]
    <2>1. new.line = l /\ new.entry = e /\ new.tier = tier /\ Weighed(new) \ {e} \subseteq claimed
        BY <1>4
    <2>2. matches' = matches \cup {new} /\ new \in [line: Line, entry: Entry, tier: {0, 1}]
        BY <1>1, <1>4
    <2> HIDE DEF new
    <2>3. TypeOK'
        BY <1>1, <1>4, <2>2 DEF TypeOK, rows
    <2>4. ClaimedAreMatched'
        BY <1>4, <2>1, <2>2 DEF ClaimedAreMatched
    <2>5. WalkInOrder'
        BY <1>1, <1>2, <2>1, <2>2 DEF WalkInOrder, TypeOK
    <2>6. ASSUME NEW x \in matches', NEW r \in Weighed(x)' \ {x.entry}
          PROVE  \E y \in matches' :
                    /\ y.entry = r /\ y.line # x.line
                    /\ y.tier < x.tier \/ (y.tier = x.tier /\ Before(y.line, x.line)')
        <3>1. CASE x \in matches
            BY <1>2, <2>2, <2>6, <3>1 DEF RivalsTakenEarlier
        <3>2. CASE x = new
            <4>1. r \in claimed /\ r \in Entry
                BY <1>2, <2>1, <2>6, <3>2 DEF TypeOK
            <4>2. PICK y \in matches : y.entry = r
                BY <4>1 DEF ClaimedAreMatched
            <4>3. y.line # l /\ y.tier <= tier /\ (y.tier = tier => Before(y.line, l))
                BY <1>1, <4>2 DEF WalkInOrder
            <4>4. y.tier \in Int /\ tier \in Int
                BY <4>2, <1>1 DEF TypeOK
            <4> QED BY <1>2, <2>1, <2>2, <3>2, <4>2, <4>3, <4>4
        <3> QED BY <2>2, <3>1, <3>2
    <2>7. RivalsTakenEarlier'
        BY <2>6, <1>2 DEF RivalsTakenEarlier
    <2> QED BY <2>3, <2>4, <2>5, <2>7
<1> QED BY <1>3, <1>4, TurnCases

\* Handing the lines left over to the next tier keeps the invariant.
LEMMA HandOverInv ==
    ASSUME IInv, Tier0Done \/ Tier1Done
    PROVE  IInv'
<1> USE DEF IInv
<1>1. UNCHANGED <<rows, claimed, matches>>
    BY DEF Tier0Done, Tier1Done
<1>2. /\ \A a, b : Before(a, b)' <=> Before(a, b)
      /\ \A x : Weighed(x)' = Weighed(x)
    BY <1>1, RowsKept
<1>3. TypeOK'
    BY <1>1, ConfigAssumption DEF TypeOK, Tier0Done, Tier1Done, Unmatched, rows
<1>4. /\ tier \in 0..2 /\ tier' \in 0..2 /\ tier < tier'
      /\ \A x \in matches : x.line \notin todo'
    BY <1>1, ConfigAssumption DEF TypeOK, Tier0Done, Tier1Done, Unmatched
<1>5. WalkInOrder'
    <2>1. \A x \in matches : x.tier \in Int /\ x.tier <= tier
        BY DEF WalkInOrder, TypeOK
    <2>2. \A x \in matches : x.tier <= tier' /\ x.tier # tier'
        BY <2>1, <1>4
    <2> QED BY <1>1, <1>4, <2>2 DEF WalkInOrder
<1>6. RivalsTakenEarlier' /\ ClaimedAreMatched'
    BY <1>1, <1>2 DEF RivalsTakenEarlier, ClaimedAreMatched
<1> QED BY <1>3, <1>5, <1>6

\* The invariant is inductive.
LEMMA NextInv == IInv /\ [Next]_vars => IInv'
<1> SUFFICES ASSUME IInv, [Next]_vars PROVE IInv'
    OBVIOUS
<1>1. CASE UNCHANGED vars
    BY <1>1, RowsKept DEF vars, rows, IInv, TypeOK, ClaimedAreMatched, WalkInOrder,
        RivalsTakenEarlier
<1> QED BY <1>1, TurnInv, HandOverInv DEF Next

-----------------------------------------------------------------------------
\* Type correctness of the cascade (cascade.py run_deterministic).
THEOREM TypeCorrect == Spec => []TypeOK
<1>1. IInv => TypeOK
    BY DEF IInv
<1> QED BY <1>1, InitInv, NextInv, PTL DEF Spec

\* Whatever the rows are, Tiers 0 and 1 commit nothing ambiguous: every rival of
\* a committed entry was settled with an earlier line or by an earlier tier.
THEOREM RivalsCorrect == Spec => []RivalsTakenEarlier
<1>1. IInv => RivalsTakenEarlier
    BY DEF IInv
<1> QED BY <1>1, InitInv, NextInv, PTL DEF Spec

\* The pairs of the refinement mapping.
Pairs == {<<x.line, x.entry>> : x \in matches}

\* A step of the cascade pairs one free line with one free entry, or nothing.
LEMMA StepPairs == IInv /\ [Next]_vars => [PairsMade!Next]_Pairs
<1> SUFFICES ASSUME IInv, [Next]_vars, Pairs' # Pairs PROVE PairsMade!Next
    OBVIOUS
<1>1. PICK l \in Line : Tier0Line(l) \/ Tier1Line(l)
    BY DEF Next, vars, Tier0Done, Tier1Done, Pairs
<1>2. PICK e \in Entry \ claimed : matches' = matches \cup {[line |-> l, entry |-> e, tier |-> tier]}
    BY <1>1, TurnCases DEF Pairs
<1>3. Pairs' = Pairs \cup {<<l, e>>}
    BY <1>2 DEF Pairs
<1>4. ASSUME NEW p \in Pairs PROVE p[1] # l /\ p[2] # e
    <2>1. PICK x \in matches : p = <<x.line, x.entry>>
        BY DEF Pairs
    <2>2. l \in todo
        BY <1>1, TurnCases DEF Following
    <2> QED BY <2>1, <2>2, <1>2 DEF IInv, WalkInOrder, ClaimedAreMatched
<1> QED BY <1>3, <1>4 DEF PairsMade!Next, PairsMade!Pair, Pairs

\* The cascade implements the abstract matching: one open item never settles
\* two bank lines in Tiers 0-1 (cascade.py 3-5).
THEOREM PairsCorrect == Spec => PairsOneToOne
<1>1. Init => PairsMade!Init
    BY DEF Init, PairsMade!Init
<1>2. IInv /\ [Next]_vars => [PairsMade!Next]_Pairs
    BY StepPairs
<1> QED BY <1>1, <1>2, InitInv, NextInv, PTL DEF Spec, PairsOneToOne, PairsMade!Spec, Pairs
-----------------------------------------------------------------------------
\* What may be offered to l.
Fitting(l) == {e \in Open : ledger[e].side = Side(l)}

OfferInv ==
    /\ IInv
    /\ offer # {} => tier = 2
    /\ \A o \in offer : \A c \in o.cands : c.ids \subseteq Fitting(o.line)

-----------------------------------------------------------------------------
\* Every single generator stays on the line's side and among the open entries.
LEMMA SinglesFit ==
    ASSUME NEW l, NEW hits \in Hits(l), NEW pairs,
           NEW c \in ByAmount(l) \cup ByParty(l) \cup ByHybrid(hits) \cup ByHistory(l, pairs)
    PROVE  c.ids \subseteq Fitting(l)
<1>1. \A party : OfParty(l, party) \subseteq Fitting(l)
    BY DEF OfParty, SameSide, Fitting
<1>2. CASE c \in ByAmount(l)
    <2>1. PICK e \in SameSide(l) : c.ids = {e}
        BY <1>2 DEF ByAmount
    <2> QED BY <2>1 DEF SameSide, Fitting
<1>3. CASE c \in ByParty(l)
    <2>1. PICK e \in OfParty(l, bank[l].party) :
             c = [ids |-> {e}, score |-> 950 - Min({450, Penalty(e, l)})]
        BY <1>3, Zenon DEF ByParty
    <2>2. c.ids = {e}
        BY <2>1, Zenon
    <2> QED BY <1>1, <2>2
<1>4. CASE c \in ByHybrid(hits)
    <2>1. PICK h \in {x \in hits : x.entry \in Open} :
             c = [ids |-> {h.entry}, score |-> Min({h.score, 950})]
        BY <1>4, Zenon DEF ByHybrid
    <2>2. c.ids = {h.entry}
        BY <2>1, Zenon
    <2>3. h \in [entry: {e \in Entry : ledger[e].side = Side(l)}, score: IndexScore]
        BY <2>1 DEF Hits
    <2> QED BY <2>1, <2>3, <2>2 DEF Fitting
<1>5. CASE c \in ByHistory(l, pairs)
    <2>1. PICK p \in pairs :
             c \in {[ids |-> {e}, score |-> Min({p.score, 900})] : e \in OfParty(l, p.party)}
        BY <1>5, Zenon DEF ByHistory
    <2>2. PICK e \in OfParty(l, p.party) : c.ids = {e}
        BY <2>1
    <2> QED BY <1>1, <2>2
<1> QED BY <1>2, <1>3, <1>4, <1>5

\* A combination is made of entries of its pool, wherever the pool was cut and the
\* search ended.
LEMMA CombinationsFit ==
    ASSUME NEW l, NEW pool, pool \subseteq Fitting(l), NEW items, NEW cap,
           NEW found \in Combinations(l, pool, items, cap), NEW ids \in found.ids
    PROVE  ids \subseteq Fitting(l)
<1>1. CASE Cardinality(pool) < 2
    BY <1>1 DEF Combinations
<1>2. CASE ~ (Cardinality(pool) < 2)
    <2>1. PICK top \in Smallest(pool, cap) :
             found \in UNION {{[ids |-> kept, truncated |-> t] :
                                  kept \in Search(l, top, Fits(l, top, items), t)} : t \in BOOLEAN}
        BY <1>2, Zenon DEF Combinations
    <2>2. PICK t \in BOOLEAN :
             found \in {[ids |-> kept, truncated |-> t] : kept \in Search(l, top, Fits(l, top, items), t)}
        BY <2>1, Zenon
    <2>3. PICK kept \in Search(l, top, Fits(l, top, items), t) : found = [ids |-> kept, truncated |-> t]
        BY <2>2
    <2>4. kept \subseteq Fits(l, top, items)
        BY <2>3 DEF Search
    <2>5. ids \subseteq top
        BY <2>3, <2>4 DEF Fits
    <2>6. top \subseteq pool
        BY <2>1 DEF Smallest
    <2> QED BY <2>5, <2>6
<1> QED BY <1>1, <1>2

\* What the generators note of entries alone, and of combinations.
Singles(l, hits, pairs) == ByAmount(l) \cup ByParty(l) \cup ByHybrid(hits) \cup ByHistory(l, pairs)
Several(l, combos) == {[ids |-> c, score |-> SubsetScore(c, l)] : c \in combos}

\* The offer made of the answers of the two searches and of the index.
Made(l, scoped, unscoped, hits, pairs, kept) ==
    /\ kept \in Ranked(Best(Singles(l, hits, pairs) \cup Several(l, scoped.ids \cup unscoped.ids)), l)
    /\ offer' = {[line |-> l, cands |-> kept,
                  truncated |-> scoped.truncated \/ unscoped.truncated]}

LEMMA Generated ==
    ASSUME NEW l, Generate(l)
    PROVE  \E scoped \in Combinations(l, Scoped(l), ScopedItems, ScopedPool),
              unscoped \in Combinations(l, Unscoped(l), UnscopedItems, UnscopedPool) :
           \E hits \in Hits(l), pairs \in PairHits : \E kept :
              Made(l, scoped, unscoped, hits, pairs, kept)
<1>1. PICK scoped \in Combinations(l, Scoped(l), ScopedItems, ScopedPool),
           unscoped \in Combinations(l, Unscoped(l), UnscopedItems, UnscopedPool) :
       \E hits \in Hits(l), pairs \in PairHits :
         \E kept \in Ranked(Best(ByAmount(l) \cup ByParty(l) \cup ByHybrid(hits) \cup ByHistory(l, pairs)
                    \cup {[ids |-> c, score |-> SubsetScore(c, l)] :
                            c \in (scoped.ids \cup unscoped.ids)}), l) :
                offer' = {[line |-> l, cands |-> kept,
                           truncated |-> scoped.truncated \/ unscoped.truncated]}
    BY Zenon DEF Generate
<1>2. PICK hits \in Hits(l), pairs \in PairHits :
         \E kept \in Ranked(Best(ByAmount(l) \cup ByParty(l) \cup ByHybrid(hits) \cup ByHistory(l, pairs)
                    \cup {[ids |-> c, score |-> SubsetScore(c, l)] :
                            c \in (scoped.ids \cup unscoped.ids)}), l) :
                offer' = {[line |-> l, cands |-> kept,
                           truncated |-> scoped.truncated \/ unscoped.truncated]}
    BY <1>1, Zenon
<1>3. \E kept : Made(l, scoped, unscoped, hits, pairs, kept)
    BY <1>2, Zenon DEF Made, Singles, Several
<1> QED BY <1>3, Zenon

LEMMA GenerateInv == ASSUME OfferInv, NEW l \in Line, Generate(l) PROVE OfferInv'
<1>1. PICK scoped \in Combinations(l, Scoped(l), ScopedItems, ScopedPool),
           unscoped \in Combinations(l, Unscoped(l), UnscopedItems, UnscopedPool) :
       \E hits \in Hits(l), pairs \in PairHits : \E kept :
          Made(l, scoped, unscoped, hits, pairs, kept)
    BY Generated, Zenon
<1>2. PICK hits \in Hits(l), pairs \in PairHits : \E kept :
          Made(l, scoped, unscoped, hits, pairs, kept)
    BY <1>1, Zenon
<1> DEFINE singles == Singles(l, hits, pairs)
           several == Several(l, scoped.ids \cup unscoped.ids)
<1>3. PICK kept \in Ranked(Best(singles \cup several), l) :
         offer' = {[line |-> l, cands |-> kept,
                    truncated |-> scoped.truncated \/ unscoped.truncated]}
    BY <1>2, Zenon DEF Made
<1>4. Scoped(l) \subseteq Fitting(l) /\ Unscoped(l) \subseteq Fitting(l)
    BY DEF Scoped, Unscoped, OfParty, SameSide, Fitting
<1>5. \A c \in singles : c.ids \subseteq Fitting(l)
    BY SinglesFit DEF Singles
<1>6. \A c \in several : c.ids \subseteq Fitting(l)
    <2>1. \A ids \in scoped.ids \cup unscoped.ids : ids \subseteq Fitting(l)
        BY <1>4, CombinationsFit
    <2> QED BY <2>1 DEF Several
<1> HIDE DEF singles, several
<1>7. kept \subseteq singles \cup several
    BY <1>3 DEF Ranked, Best
<1>8. UNCHANGED vars /\ tier = 2
    BY DEF Generate, Next2
<1>9. IInv'
    BY <1>8, NextInv DEF OfferInv
<1>10. Fitting(l)' = Fitting(l)
    BY <1>8 DEF vars, rows, Fitting, Open, Side
<1>11. \A o \in offer' : o.line = l /\ o.cands = kept
    BY <1>3
<1>12. \A o \in offer' : \A c \in o.cands : c.ids \subseteq Fitting(o.line)'
    BY <1>5, <1>6, <1>7, <1>10, <1>11
<1> QED BY <1>8, <1>9, <1>12 DEF OfferInv, vars

\* While an offer is at hand the cascade is over: nothing is claimed meanwhile.
LEMMA OfferStep == OfferInv /\ [CNext]_cvars => OfferInv'
<1> SUFFICES ASSUME OfferInv, [CNext]_cvars PROVE OfferInv'
    OBVIOUS
<1>1. CASE UNCHANGED cvars
    <2>1. UNCHANGED vars /\ UNCHANGED offer
        BY <1>1 DEF cvars
    <2>2. IInv'
        BY <2>1, NextInv DEF OfferInv
    <2> QED BY <2>1, <2>2 DEF OfferInv, vars, rows, Fitting, Open, Side
<1>2. CASE Next /\ UNCHANGED <<sets, offer>>
    <2>1. tier # 2
        BY <1>2 DEF Next, Tier0Line, Tier1Line, Tier0Done, Tier1Done
    <2>2. offer = {} /\ offer' = {}
        BY <1>2, <2>1 DEF OfferInv
    <2>3. IInv'
        BY <1>2, NextInv DEF OfferInv
    <2> QED BY <2>2, <2>3 DEF OfferInv
<1>3. CASE \E l \in Line : Generate(l)
    BY <1>3, GenerateInv
<1>4. CASE Save
    <2>1. IInv'
        BY <1>4, NextInv DEF OfferInv, Save
    <2> QED BY <1>4, <2>1 DEF Save, OfferInv
<1> QED BY <1>1, <1>2, <1>3, <1>4 DEF CNext

\* OffersOnlyOpen: Tier 3 is never shown an entry that Tiers 0 or 1 settled or the
\* ledger closed, however far the index is behind (tier2_candidates.py 91-92, 153-156).
THEOREM OffersCorrect == CSpec => []OffersOnlyOpen
<1>1. CInit => OfferInv
    BY InitInv DEF CInit, OfferInv
<1>2. OfferInv => OffersOnlyOpen
    BY DEF OfferInv, OffersOnlyOpen, Fitting, Open, IInv, ClaimedAreMatched
<1> QED BY <1>1, <1>2, OfferStep, PTL DEF CSpec

-----------------------------------------------------------------------------
\* A set of naturals that is not empty has a least element.
LEMMA LeastElement ==
    ASSUME NEW T \in SUBSET Nat, T # {}
    PROVE  \E k \in T : \A m \in T : k <= m
<1> DEFINE R == OpToRel(<, Nat)
<1>1. \A m, k \in Nat : m < k => <<m, k>> \in R
    BY Zenon DEF OpToRel
<1>2. IsWellFoundedOn(R, Nat)
    BY NatLessThanWellFounded, Zenon
<1> HIDE DEF R
<1>3. PICK k \in T : \A m \in T : ~ (<<m, k>> \in R)
    BY <1>2, WFMin, Zenon
<1>4. \A m \in T : ~ (m < k)
    BY <1>1, <1>3, Zenon
<1> QED BY <1>4

\* A set of naturals that holds 0 and with each number the next holds all of them.
LEMMA SetInduction ==
    ASSUME NEW T \in SUBSET Nat, 0 \in T, \A k \in T : k + 1 \in T
    PROVE  T = Nat
<1> SUFFICES ASSUME Nat \ T # {} PROVE FALSE
    OBVIOUS
<1>1. PICK k \in Nat \ T : \A m \in Nat \ T : k <= m
    BY LeastElement
<1>2. k # 0 /\ k - 1 \in Nat
    BY <1>1
<1>3. k - 1 \in T
    BY <1>1, <1>2
<1> QED BY <1>1, <1>3

LEMMA PairMin ==
    ASSUME NEW a \in Int, NEW b \in Int
    PROVE  Min({a, b}) = IF a <= b THEN a ELSE b
<1>1. PICK m \in {a, b} : \A y \in {a, b} : m =< y
    OBVIOUS
<1>2. Min({a, b}) \in {a, b} /\ \A y \in {a, b} : Min({a, b}) =< y
    BY <1>1, Zenon DEF Min
<1> QED BY <1>2

LEMMA PairMax ==
    ASSUME NEW a \in Int, NEW b \in Int
    PROVE  Max({a, b}) = IF a >= b THEN a ELSE b
<1>1. PICK m \in {a, b} : \A y \in {a, b} : m >= y
    OBVIOUS
<1>2. Max({a, b}) \in {a, b} /\ \A y \in {a, b} : Max({a, b}) >= y
    BY <1>1, Zenon DEF Max
<1> QED BY <1>2

\* The quotients of the scores.
LEMMA Quotient ==
    ASSUME NEW a \in Nat, NEW b \in Nat \ {0}
    PROVE  a \div b \in Nat
OBVIOUS

\* The numbers the scores are made of.
LEMMA Numbers ==
    ASSUME TypeOK, NEW l \in Line
    PROVE  /\ Due(l) \in Nat /\ Bound(l) \in Nat
           /\ \A e \in Entry : /\ ledger[e].amount \in Int /\ Delta(ledger[e].amount, l) \in Nat
                               /\ Penalty(e, l) \in Nat
<1>1. bank[l].amount \in Int /\ \A e \in Entry : ledger[e].amount \in Int
    BY RecordAssumption DEF TypeOK
<1>2. Due(l) \in Nat
    BY <1>1 DEF Due, Abs
<1>3. Bound(l) \in Nat
    <2>1. Due(l) * ToleranceBps \in Nat /\ ToleranceFloor \in Nat
        BY <1>2, CandidatesAssumption
    <2>2. (Due(l) * ToleranceBps) \div 10000 \in Nat
        BY <2>1, Quotient
    <2> QED BY <2>1, <2>2, PairMax DEF Bound
<1>4. ASSUME NEW e \in Entry
      PROVE  Delta(ledger[e].amount, l) \in Nat /\ Penalty(e, l) \in Nat
    <2>1. Delta(ledger[e].amount, l) \in Nat
        BY <1>1, <1>2 DEF Delta, Abs
    <2>2. Max({ledger[e].amount, 1}) \in Nat \ {0}
        BY <1>1, PairMax
    <2>3. Delta(ledger[e].amount, l) * 900 \in Nat
        BY <2>1
    <2> QED BY <2>1, <2>2, <2>3, Quotient DEF Penalty
<1> QED BY <1>1, <1>2, <1>3, <1>4

\* A candidate of one entry, with a score of at most 1000.
Single(c) ==
    /\ c = [ids |-> c.ids, score |-> c.score]
    /\ c.score \in Int /\ c.score <= 1000 /\ \E e \in Entry : c.ids = {e}

LEMMA SingleScores ==
    ASSUME TypeOK, NEW l \in Line, NEW hits \in Hits(l), NEW pairs \in PairHits,
           NEW c \in Singles(l, hits, pairs)
    PROVE  Single(c)
<1>1. IndexScore \subseteq Int
    BY CandidatesAssumption
<1>2. \A party : OfParty(l, party) \subseteq Entry
    BY DEF OfParty, SameSide, Open
<1>3. CASE c \in ByAmount(l)
    <2>1. PICK e \in {o \in SameSide(l) : /\ Within(l, o, Tier2Window)
                                         /\ Delta(ledger[o].amount, l) <= Bound(l)} :
             c = [ids |-> {e}, score |-> 1000 - (Delta(ledger[e].amount, l) * 200) \div (Bound(l) + 1)]
        BY <1>3, Zenon DEF ByAmount
    <2>2. e \in Entry
        BY DEF SameSide, Open
    <2>3. Delta(ledger[e].amount, l) * 200 \in Nat /\ Bound(l) + 1 \in Nat \ {0}
        BY <2>2, Numbers
    <2>4. (Delta(ledger[e].amount, l) * 200) \div (Bound(l) + 1) \in Nat
        BY <2>3, Quotient
    <2>5. c.ids = {e} /\ c.score = 1000 - (Delta(ledger[e].amount, l) * 200) \div (Bound(l) + 1)
          /\ c = [ids |-> c.ids, score |-> c.score]
        BY <2>1, Zenon
    <2> QED BY <2>2, <2>4, <2>5 DEF Single
<1>4. CASE c \in ByParty(l)
    <2>1. PICK e \in OfParty(l, bank[l].party) :
             c = [ids |-> {e}, score |-> 950 - Min({450, Penalty(e, l)})]
        BY <1>4, Zenon DEF ByParty
    <2>2. c.ids = {e} /\ c.score = 950 - Min({450, Penalty(e, l)})
          /\ c = [ids |-> c.ids, score |-> c.score]
        BY <2>1, Zenon
    <2>3. e \in Entry /\ Penalty(e, l) \in Nat
        BY <1>2, Numbers
    <2>4. Min({450, Penalty(e, l)}) = IF 450 <= Penalty(e, l) THEN 450 ELSE Penalty(e, l)
        BY <2>3, PairMin
    <2>5. c.score \in Int /\ c.score <= 1000
        BY <2>2, <2>3, <2>4
    <2> QED BY <2>2, <2>3, <2>5 DEF Single
<1>5. CASE c \in ByHybrid(hits)
    <2>1. PICK h \in {x \in hits : x.entry \in Open} :
             c = [ids |-> {h.entry}, score |-> Min({h.score, 950})]
        BY <1>5, Zenon DEF ByHybrid
    <2>2. c.ids = {h.entry} /\ c.score = Min({h.score, 950})
          /\ c = [ids |-> c.ids, score |-> c.score]
        BY <2>1, Zenon
    <2>3. h \in [entry: {e \in Entry : ledger[e].side = Side(l)}, score: IndexScore]
        BY <2>1 DEF Hits
    <2>4. h.entry \in Entry /\ h.score \in Int
        BY <1>1, <2>3
    <2>5. Min({h.score, 950}) = IF h.score <= 950 THEN h.score ELSE 950
        BY <2>4, PairMin
    <2>6. c.score \in Int /\ c.score <= 1000
        BY <2>2, <2>4, <2>5
    <2> QED BY <2>2, <2>4, <2>6 DEF Single
<1>6. CASE c \in ByHistory(l, pairs)
    <2>1. PICK p \in pairs :
             c \in {[ids |-> {e}, score |-> Min({p.score, 900})] : e \in OfParty(l, p.party)}
        BY <1>6, Zenon DEF ByHistory
    <2>2. PICK e \in OfParty(l, p.party) : c = [ids |-> {e}, score |-> Min({p.score, 900})]
        BY <2>1, Zenon
    <2>3. c.ids = {e} /\ c.score = Min({p.score, 900})
          /\ c = [ids |-> c.ids, score |-> c.score]
        BY <2>2, Zenon
    <2>4. p.score \in Int /\ e \in Entry
        BY <1>1, <1>2, <2>1 DEF PairHits
    <2>5. Min({p.score, 900}) = IF p.score <= 900 THEN p.score ELSE 900
        BY <2>4, PairMin
    <2>6. c.score \in Int /\ c.score <= 1000
        BY <2>3, <2>4, <2>5
    <2> QED BY <2>3, <2>4, <2>6 DEF Single
<1> QED BY <1>3, <1>4, <1>5, <1>6 DEF Singles

LEMMA SingleAlone ==
    ASSUME NEW c, Single(c)
    PROVE  Cardinality(c.ids) = 1
<1>1. PICK e \in Entry : c.ids = {e}
    BY Zenon DEF Single
<1>2. Cardinality({e}) = 1
    BY FS_Singleton
<1> QED BY <1>1, <1>2, Zenon

LEMMA SeveralScores ==
    ASSUME NEW l, NEW combos, NEW c \in Several(l, combos)
    PROVE  /\ c.ids \in combos /\ c.score = SubsetScore(c.ids, l) /\ c.score \in {650, 700, 860, 940}
           /\ c = [ids |-> c.ids, score |-> c.score]
<1>1. PICK ids \in combos : c = [ids |-> ids, score |-> SubsetScore(ids, l)]
    BY Zenon DEF Several
<1>2. c.ids = ids /\ c.score = SubsetScore(ids, l) /\ c = [ids |-> c.ids, score |-> c.score]
    BY <1>1, Zenon
<1> QED BY <1>2 DEF SubsetScore

\* Everything noted is in the list with its best score.
LEMMA BestOf ==
    ASSUME NEW raw, \A c \in raw : c.score \in Int /\ c.score <= 1000, NEW d \in raw
    PROVE  \E b \in Best(raw) : b.ids = d.ids /\ b.score \in Int /\ b.score >= d.score
<1> DEFINE short == {k \in Nat : \E c \in raw : c.ids = d.ids /\ k = 1000 - c.score}
<1>1. 1000 - d.score \in short
    OBVIOUS
<1>2. PICK k \in short : \A m \in short : k <= m
    <2>1. short \in SUBSET Nat /\ short # {}
        BY <1>1
    <2> HIDE DEF short
    <2> QED BY <2>1, LeastElement
<1>3. PICK b \in raw : b.ids = d.ids /\ k = 1000 - b.score
    OBVIOUS
<1>4. \A c \in raw : c.ids = d.ids => c.score <= b.score
    <2> SUFFICES ASSUME NEW c \in raw, c.ids = d.ids PROVE c.score <= b.score
        OBVIOUS
    <2>1. 1000 - c.score \in short
        OBVIOUS
    <2>2. k <= 1000 - c.score
        BY <1>2, <2>1
    <2> QED BY <1>3, <2>2
<1>5. b \in Best(raw)
    BY <1>3, <1>4 DEF Best
<1> QED BY <1>3, <1>4, <1>5

\* What the cut leaves out has no better score than what it keeps.
LEMMA CutScores ==
    ASSUME NEW best, NEW l, NEW kept \in Ranked(best, l), NEW b \in best, NEW c \in kept, b \notin kept,
           b.score \in Int, c.score \in Int
    PROVE  b.score <= c.score
BY DEF Ranked, Ahead

-----------------------------------------------------------------------------
\* One entry of the payer in one offer.
KeepsPlace(o, e) ==
    NearlyCovers(o.line, e) => \/ \E c \in o.cands : c.ids = {e}
                               \/ \A c \in o.cands : Cardinality(c.ids) = 1

LEMMA FeeNettedGenerated ==
    ASSUME TypeOK, NEW l \in Line, Generate(l), NEW o \in offer', NEW e \in Scoped(o.line)
    PROVE  KeepsPlace(o, e)
<1>1. PICK scoped \in Combinations(l, Scoped(l), ScopedItems, ScopedPool),
           unscoped \in Combinations(l, Unscoped(l), UnscopedItems, UnscopedPool) :
       \E hits \in Hits(l), pairs \in PairHits : \E kept :
          Made(l, scoped, unscoped, hits, pairs, kept)
    BY Generated, Zenon
<1>2. PICK hits \in Hits(l), pairs \in PairHits : \E kept :
          Made(l, scoped, unscoped, hits, pairs, kept)
    BY <1>1, Zenon
<1> DEFINE singles == Singles(l, hits, pairs)
           several == Several(l, scoped.ids \cup unscoped.ids)
           raw     == singles \cup several
<1>3. PICK kept \in Ranked(Best(raw), l) :
         offer' = {[line |-> l, cands |-> kept,
                    truncated |-> scoped.truncated \/ unscoped.truncated]}
    BY <1>2, Zenon DEF Made
<1>4. o.line = l /\ o.cands = kept
    BY <1>3
<1>5. \A c \in singles : Single(c)
    BY SingleScores
<1>6. \A c \in several : c.score \in {650, 700, 860, 940}
    BY SeveralScores
<1> SUFFICES ASSUME Penalty(e, l) < 10,
                    NEW d \in kept, Cardinality(d.ids) # 1
             PROVE  \E c \in kept : c.ids = {e}
    BY <1>4 DEF KeepsPlace, NearlyCovers
<1> DEFINE own == [ids |-> {e}, score |-> 950 - Min({450, Penalty(e, l)})]
<1>7. e \in Entry /\ Penalty(e, l) \in Nat
    BY <1>4, Numbers DEF Scoped, OfParty, SameSide, Open
<1>8. own \in singles
    <2>1. own \in ByParty(l)
        <3>1. e \in OfParty(l, bank[l].party)
            BY <1>4 DEF Scoped
        <3>2. \E x \in OfParty(l, bank[l].party) :
                 own = [ids |-> {x}, score |-> 950 - Min({450, Penalty(x, l)})]
            BY <3>1, Zenon
        <3> HIDE DEF own
        <3> QED BY <3>2 DEF ByParty
    <2> QED BY <2>1 DEF Singles
<1>9. own.ids = {e} /\ own.score > 940
    <2>1. Min({450, Penalty(e, l)}) = IF 450 <= Penalty(e, l) THEN 450 ELSE Penalty(e, l)
        BY <1>7, PairMin
    <2> QED BY <1>7, <2>1
<1> HIDE DEF own, singles, several
<1>10. \A c \in raw : c.score \in Int /\ c.score <= 1000
    BY <1>5, <1>6 DEF Single
<1>11. PICK b \in Best(raw) : b.ids = {e} /\ b.score \in Int /\ b.score > 940
    <2>1. own \in raw /\ own.score \in Int
        BY <1>8, <1>10
    <2>2. PICK b \in Best(raw) : b.ids = own.ids /\ b.score \in Int /\ b.score >= own.score
        BY <1>10, <2>1, BestOf
    <2> QED BY <1>9, <2>1, <2>2
<1>12. d \in several
    <2>1. d \in raw
        BY DEF Ranked, Best
    <2>2. d \notin singles
        BY <1>5, SingleAlone, Zenon
    <2> QED BY <2>1, <2>2
<1>13. d.score \in Int /\ d.score <= 940
    BY <1>6, <1>12
<1>14. b \in kept
    BY <1>11, <1>13, CutScores
<1> QED BY <1>11, <1>14

\* FeeNettedKeepsItsPlace: a combination never takes the place of an entry of the
\* payer that the payment covers but for a fee (tier2_candidates.py 138-145).
THEOREM FeeNettedCorrect == CSpec => []FeeNettedKeepsItsPlace
<1>1. CInit => OfferInv /\ FeeNettedKeepsItsPlace
    BY InitInv DEF CInit, OfferInv, FeeNettedKeepsItsPlace
<1>2. ASSUME OfferInv, FeeNettedKeepsItsPlace, [CNext]_cvars
      PROVE  FeeNettedKeepsItsPlace'
    <2>1. ASSUME UNCHANGED vars, \A o \in offer' : \A e \in Scoped(o.line) : KeepsPlace(o, e)
          PROVE  FeeNettedKeepsItsPlace'
        BY <2>1 DEF FeeNettedKeepsItsPlace, KeepsPlace, NearlyCovers, Penalty, Delta, Due, Scoped,
                    OfParty, SameSide, Side, Open, Within, vars, rows
    <2>2. CASE UNCHANGED cvars
        BY <1>2, <2>1, <2>2 DEF cvars, FeeNettedKeepsItsPlace, KeepsPlace
    <2>3. CASE Next /\ UNCHANGED <<sets, offer>>
        <3>1. tier # 2
            BY <2>3 DEF Next, Tier0Line, Tier1Line, Tier0Done, Tier1Done
        <3> QED BY <1>2, <2>3, <3>1 DEF OfferInv, FeeNettedKeepsItsPlace
    <2>4. CASE \E l \in Line : Generate(l)
        <3>1. PICK l \in Line : Generate(l)
            BY <2>4
        <3>2. UNCHANGED vars /\ TypeOK
            BY <1>2, <3>1 DEF Generate, OfferInv, IInv
        <3> QED BY <2>1, <3>1, <3>2, FeeNettedGenerated
    <2>5. CASE Save
        BY <2>5 DEF Save, FeeNettedKeepsItsPlace
    <2> QED BY <1>2, <2>2, <2>3, <2>4, <2>5 DEF CNext
<1> QED BY <1>1, <1>2, OfferStep, PTL DEF CSpec

-----------------------------------------------------------------------------
\* The fold over the amounts of S, on the subsets of at most k elements.
Few(S, k) == {s \in SUBSET S : Cardinality(s) <= k}
Some(s) == CHOOSE x \in s : TRUE
FoldsUp(f, S, k) ==
    f = [s \in Few(S, k) |-> IF s = {} THEN 0 ELSE ledger[Some(s)].amount + f[s \ {Some(s)}]]

LEMMA Smaller ==
    ASSUME NEW S, IsFiniteSet(S), NEW s \in SUBSET S, s # {}
    PROVE  /\ Some(s) \in s /\ s \ {Some(s)} \in SUBSET S /\ Cardinality(s) \in Nat \ {0}
           /\ Cardinality(s \ {Some(s)}) = Cardinality(s) - 1
<1>1. Some(s) \in s
    BY Zenon DEF Some
<1>2. IsFiniteSet(s)
    BY FS_Subset
<1>3. Cardinality(s) \in Nat /\ Cardinality(s) # 0
    BY <1>2, FS_CardinalityType, FS_EmptySet
<1>4. Cardinality(s \ {Some(s)}) = Cardinality(s) - 1
    BY <1>1, <1>2, FS_RemoveElement
<1> QED BY <1>1, <1>3, <1>4

LEMMA FoldsExist ==
    ASSUME NEW S, IsFiniteSet(S), NEW m \in Nat
    PROVE  \E f : FoldsUp(f, S, m)
<1> DEFINE T == {k \in Nat : \E f : FoldsUp(f, S, k)}
<1>1. 0 \in T
    <2> DEFINE f == [s \in Few(S, 0) |-> 0]
    <2>1. ASSUME NEW s \in Few(S, 0), s # {}
          PROVE  FALSE
        <3>1. s \in SUBSET S /\ Cardinality(s) <= 0
            BY DEF Few
        <3>2. Cardinality(s) \in Nat \ {0}
            BY <2>1, <3>1, Smaller
        <3> QED BY <3>1, <3>2
    <2>2. FoldsUp(f, S, 0)
        BY <2>1 DEF FoldsUp
    <2> QED BY <2>2
<1>2. \A k \in T : k + 1 \in T
    <2> SUFFICES ASSUME NEW k \in Nat, NEW f, FoldsUp(f, S, k)
                 PROVE  \E g : FoldsUp(g, S, k + 1)
        OBVIOUS
    <2> DEFINE g == [s \in Few(S, k + 1) |->
                       IF s = {} THEN 0 ELSE ledger[Some(s)].amount + f[s \ {Some(s)}]]
    <2>1. \A s \in Few(S, k) : f[s] = g[s]
        <3> SUFFICES ASSUME NEW s \in Few(S, k) PROVE f[s] = g[s]
            OBVIOUS
        <3>1. s \in Few(S, k + 1)
            <4>1. Cardinality(s) \in Nat
                BY FS_Subset, FS_CardinalityType DEF Few
            <4> QED BY <4>1 DEF Few
        <3>2. f[s] = IF s = {} THEN 0 ELSE ledger[Some(s)].amount + f[s \ {Some(s)}]
            BY Zenon DEF FoldsUp
        <3> QED BY <3>1, <3>2
    <2>2. \A s \in Few(S, k + 1) : s # {} => s \ {Some(s)} \in Few(S, k)
        BY Smaller DEF Few
    <2>3. g = [s \in Few(S, k + 1) |->
                 IF s = {} THEN 0 ELSE ledger[Some(s)].amount + g[s \ {Some(s)}]]
        BY <2>1, <2>2
    <2> QED BY <2>3 DEF FoldsUp
<1> HIDE DEF T
<1>3. T = Nat
    BY <1>1, <1>2, SetInduction DEF T
<1> QED BY <1>3 DEF T

\* The total of a combination is a number.
LEMMA IntTotal ==
    ASSUME TypeOK, NEW ids \in SUBSET Entry
    PROVE  Total(ids) \in Int
<1>1. IsFiniteSet(ids) /\ \A e \in Entry : ledger[e].amount \in Int
    BY FS_Subset, EntryAssumption, RecordAssumption DEF TypeOK
<1>2. Cardinality(ids) \in Nat /\ Few(ids, Cardinality(ids)) = SUBSET ids
    BY <1>1, FS_Subset, FS_CardinalityType DEF Few
<1> DEFINE f == CHOOSE g : g = [s \in SUBSET ids |->
                  IF s = {} THEN 0 ELSE ledger[Some(s)].amount + g[s \ {Some(s)}]]
<1>3. Total(ids) = f[ids]
    BY DEF Total, MapThenSumSet, MapThenFoldSet, Some
<1>4. f = [s \in SUBSET ids |-> IF s = {} THEN 0 ELSE ledger[Some(s)].amount + f[s \ {Some(s)}]]
    <2>1. PICK h : FoldsUp(h, ids, Cardinality(ids))
        BY <1>1, <1>2, FoldsExist
    <2>2. h = [s \in SUBSET ids |-> IF s = {} THEN 0 ELSE ledger[Some(s)].amount + h[s \ {Some(s)}]]
        BY <1>2, <2>1 DEF FoldsUp
    <2> QED BY <2>2, Zenon
<1> HIDE DEF f
<1> DEFINE T == {k \in Nat : \A s \in SUBSET ids : Cardinality(s) = k => f[s] \in Int}
<1>5. 0 \in T
    <2>1. \A s \in SUBSET ids : Cardinality(s) = 0 => s = {}
        BY <1>1, Smaller
    <2> QED BY <1>4, <2>1
<1>6. \A k \in T : k + 1 \in T
    <2> SUFFICES ASSUME NEW k \in T, NEW s \in SUBSET ids, Cardinality(s) = k + 1
                 PROVE  f[s] \in Int
        OBVIOUS
    <2>1. s # {}
        BY FS_EmptySet
    <2>2. Some(s) \in s /\ s \ {Some(s)} \in SUBSET ids /\ Cardinality(s \ {Some(s)}) = k
        BY <1>1, <2>1, Smaller
    <2>3. f[s \ {Some(s)}] \in Int /\ ledger[Some(s)].amount \in Int
        BY <1>1, <2>2
    <2>4. f[s] = ledger[Some(s)].amount + f[s \ {Some(s)}]
        BY <1>4, <2>1
    <2> QED BY <2>3, <2>4
<1> HIDE DEF T
<1>7. T = Nat
    BY <1>5, <1>6, SetInduction DEF T
<1>8. f[ids] \in Int
    BY <1>2, <1>7 DEF T
<1> QED BY <1>3, <1>8

-----------------------------------------------------------------------------
\* r is as exact as the exact combination ids, and of one day if ids is.
AsGood(ids, r, l) == Total(r) = Due(l) /\ (Cohort(ids) => Cohort(r))

\* h is a part of ids at which the search may have left the branch.
Shortens(h, ids, l) ==
    Cardinality(h) >= 2 /\ Continues(ids, h) /\ Delta(Total(h), l) <= Bound(l)

\* What a search that was not truncated says of an exact combination of a pool that
\* was not cut and holds no negative amount: it returns it, or a part, or enough
\* that are as good.
LEMMA SearchFinds ==
    ASSUME TypeOK, NEW l \in Line, NEW pool \in SUBSET Entry, NEW items, NEW cap \in Nat,
           NEW found \in Combinations(l, pool, items, cap), ~ found.truncated,
           Cardinality(pool) <= cap, NoCredit(pool), items \in Nat,
           NEW ids \in Fits(l, pool, items), Total(ids) = Due(l)
    PROVE  \/ ids \in found.ids
           \/ \E h \in SUBSET ids : Shortens(h, ids, l)
           \/ /\ IsFiniteSet(found.ids) /\ Cardinality(found.ids) = CandidateLimit
              /\ \A r \in found.ids : AsGood(ids, r, l)
<1>1. ids \in SUBSET pool /\ Cardinality(ids) \in 2..items /\ IsFiniteSet(pool)
    BY FS_Subset, EntryAssumption DEF Fits
<1>2. Cardinality(pool) \in Nat /\ ~ (Cardinality(pool) < 2)
    <2>1. Cardinality(pool) \in Nat
        BY <1>1, FS_CardinalityType
    <2>2. Cardinality(ids) <= Cardinality(pool)
        BY <1>1, FS_Subset
    <2>3. Cardinality(ids) \in Nat /\ Cardinality(ids) >= 2
        BY <1>1
    <2> QED BY <2>1, <2>2, <2>3
<1>3. PICK top \in Smallest(pool, cap) :
         found \in UNION {{[ids |-> kept, truncated |-> t] :
                              kept \in Search(l, top, Fits(l, top, items), t)} : t \in BOOLEAN}
    BY <1>2, Zenon DEF Combinations
<1>4. PICK t \in BOOLEAN :
         found \in {[ids |-> kept, truncated |-> t] : kept \in Search(l, top, Fits(l, top, items), t)}
    BY <1>3, Zenon
<1>5. PICK kept \in Search(l, top, Fits(l, top, items), t) : found = [ids |-> kept, truncated |-> t]
    BY <1>4, Zenon
<1>6. t = FALSE /\ found.ids = kept
    BY <1>5
<1>7. top = pool
    <2>1. top \in SUBSET pool /\ Cardinality(top) = Min({cap, Cardinality(pool)})
        BY <1>3 DEF Smallest
    <2>2. Cardinality(top) = Cardinality(pool)
        BY <1>2, <2>1, PairMin
    <2> QED BY <1>1, <2>1, <2>2, FS_Subset
<1> DEFINE fits == Fits(l, pool, items)
<1>8. PICK all \in SUBSET fits :
         /\ \A c \in fits \ all : \E h \in all : Continues(c, h)
         /\ kept \subseteq all
         /\ Cardinality(kept) = Min({CandidateLimit, Cardinality(all)})
         /\ \A c \in kept, d \in all \ kept : ~ Nearer(d, c, l)
    BY <1>6, <1>7 DEF Search
<1>9. CASE ids \notin all
    <2>1. PICK h \in all : Continues(ids, h)
        BY <1>8, <1>9
    <2>2. Cardinality(h) \in 2..items /\ Delta(Total(h), l) <= Bound(l)
        BY DEF Fits
    <2> QED BY <2>1, <2>2 DEF Continues, Shortens
<1>10. CASE ids \in all /\ ids \notin kept
    <2>1. IsFiniteSet(all) /\ IsFiniteSet(kept)
        <3>1. all \in SUBSET (SUBSET pool)
            BY DEF Fits
        <3> QED BY <1>1, <1>8, <3>1, FS_SUBSET, FS_Subset
    <2>2. Cardinality(kept) = CandidateLimit
        <3>1. Cardinality(kept) <= Cardinality(all) /\ Cardinality(kept) # Cardinality(all)
            BY <1>8, <1>10, <2>1, FS_Subset
        <3>2. Cardinality(all) \in Nat /\ CandidateLimit \in Nat
            BY <2>1, FS_CardinalityType, CandidatesAssumption
        <3> QED BY <1>8, <3>1, <3>2, PairMin
    <2>3. ASSUME NEW r \in kept
          PROVE  AsGood(ids, r, l)
        <3>1. ~ Nearer(ids, r, l)
            BY <1>8, <1>10
        <3>2. Due(l) \in Nat /\ Total(r) \in Int
            BY <1>8, Numbers, IntTotal DEF Fits
        <3>3. Delta(Total(ids), l) = 0
            BY <3>2 DEF Delta, Abs
        <3>4. Total(r) = Due(l) /\ Delta(Total(r), l) = 0
            BY <3>1, <3>2, <3>3 DEF Nearer, Delta, Abs
        <3> QED BY <3>1, <3>3, <3>4 DEF Nearer, AsGood
    <2> QED BY <1>6, <2>1, <2>2, <2>3
<1> QED BY <1>6, <1>9, <1>10

-----------------------------------------------------------------------------
\* The list is finite: one candidate per entry set.
LEMMA BestFinite ==
    ASSUME NEW raw, \A c \in raw : /\ c = [ids |-> c.ids, score |-> c.score]
                                   /\ c.ids \in SUBSET Entry /\ c.score \in Int
    PROVE  IsFiniteSet(Best(raw))
<1> DEFINE f == [c \in Best(raw) |-> c.ids]
<1>1. \A c \in Best(raw) : c \in raw
    BY DEF Best
<1>2. f \in [Best(raw) -> SUBSET Entry]
    BY <1>1
<1>3. ASSUME NEW c \in Best(raw), NEW d \in Best(raw), f[c] = f[d]
      PROVE  c = d
    <2>1. c.ids = d.ids
        BY <1>3
    <2>2. c.score <= d.score /\ d.score <= c.score
        BY <2>1 DEF Best
    <2>3. c.score = d.score
        BY <1>1, <2>2
    <2> QED BY <1>1, <2>1, <2>3, Zenon
<1>4. f \in Injection(Best(raw), SUBSET Entry)
    BY <1>2, <1>3 DEF Injection, IsInjective
<1> HIDE DEF f
<1> QED BY <1>4, FS_Injection, FS_SUBSET, EntryAssumption

\* A candidate that scores like an exact combination is exact, and of one day if the
\* other is.
LEMMA ScoresTell ==
    ASSUME NEW l, NEW r, NEW c, Total(r) = Due(l), SubsetScore(r, l) <= SubsetScore(c, l)
    PROVE  AsGood(r, c, l)
BY DEF AsGood, SubsetScore

\* A list that cuts off a candidate is full.
LEMMA ListFull ==
    ASSUME NEW best, IsFiniteSet(best), NEW l, NEW kept \in Ranked(best, l),
           kept # best \/ Cardinality(best) >= CandidateLimit
    PROVE  Cardinality(kept) = CandidateLimit
<1>1. kept \in SUBSET best /\ Cardinality(kept) = Min({CandidateLimit, Cardinality(best)})
    BY DEF Ranked
<1>2. Cardinality(best) \in Nat /\ CandidateLimit \in Nat
    BY FS_CardinalityType, CandidatesAssumption
<1>3. Cardinality(kept) = IF CandidateLimit <= Cardinality(best) THEN CandidateLimit ELSE Cardinality(best)
    BY <1>1, <1>2, PairMin
<1>4. kept # best => Cardinality(kept) # Cardinality(best)
    BY <1>1, FS_Subset
<1> QED BY <1>2, <1>3, <1>4

\* The list holds the exact combination, or is full of what is as good.
LEMMA ListFills ==
    ASSUME NEW singles, NEW several, NEW l, NEW combos \in SUBSET (SUBSET Entry),
           several = Several(l, combos), \A c \in singles : Single(c),
           NEW kept \in Ranked(Best(singles \cup several), l),
           NEW ids, Total(ids) = Due(l),
           \/ ids \in combos
           \/ \E rs \in SUBSET combos : /\ IsFiniteSet(rs) /\ Cardinality(rs) = CandidateLimit
                                        /\ \A r \in rs : AsGood(ids, r, l)
    PROVE  \/ \E c \in kept : c.ids = ids
           \/ /\ Cardinality(kept) = CandidateLimit
              /\ \A c \in kept : Cardinality(c.ids) > 1 => AsGood(ids, c.ids, l)
<1> DEFINE raw == singles \cup several
           best == Best(raw)
<1>1. ASSUME NEW c \in several
      PROVE  /\ c.ids \in combos /\ c.score = SubsetScore(c.ids, l) /\ c.score \in {650, 700, 860, 940}
             /\ c = [ids |-> c.ids, score |-> c.score]
    BY SeveralScores
<1>2. ASSUME NEW c \in raw
      PROVE  /\ c = [ids |-> c.ids, score |-> c.score]
             /\ c.ids \in SUBSET Entry /\ c.score \in Int /\ c.score <= 1000
    BY <1>1 DEF Single
<1>3. IsFiniteSet(best)
    BY <1>2, BestFinite
<1>4. kept \subseteq best /\ best \subseteq raw
    BY DEF Ranked, Best
<1>5. ASSUME NEW r \in combos
      PROVE  \E b \in best : b.ids = r
    <2>1. [ids |-> r, score |-> SubsetScore(r, l)] \in raw
        BY Zenon DEF Several
    <2>2. PICK d \in raw : d.ids = r
        BY <2>1
    <2> QED BY <1>2, <2>2, BestOf
<1>6. ASSUME NEW r \in combos, NEW b \in best, b.ids = r
      PROVE  SubsetScore(r, l) <= b.score
    <2>1. [ids |-> r, score |-> SubsetScore(r, l)] \in raw
        BY Zenon DEF Several
    <2>2. PICK d \in raw : d.ids = r /\ d.score = SubsetScore(r, l)
        BY <2>1
    <2> QED BY <1>6, <2>2 DEF Best
\* One that was cut off leaves only what is as good.
<1>7. ASSUME NEW r \in combos, NEW b \in best, b.ids = r, b \notin kept, Total(r) = Due(l),
             NEW c \in kept, Cardinality(c.ids) > 1
      PROVE  AsGood(r, c.ids, l)
    <2>1. c \in several
        <3>1. c \notin singles
            BY <1>7, SingleAlone
        <3> QED BY <1>4, <3>1
    <2>2. b.score <= c.score /\ b.score \in Int /\ c.score \in Int
        <3>1. b.score \in Int /\ c.score \in Int
            <4>1. b \in raw /\ c \in raw
                BY <1>4
            <4> HIDE DEF raw, best
            <4> QED BY ONLY <1>2, <4>1
        <3>2. kept \in Ranked(best, l)
            OBVIOUS
        <3> HIDE DEF best, raw
        <3> QED BY <1>7, <3>1, <3>2, CutScores
    <2>3. SubsetScore(r, l) <= b.score
        BY <1>6, <1>7
    <2>4. SubsetScore(r, l) \in Int
        BY DEF SubsetScore
    <2>5. SubsetScore(r, l) <= SubsetScore(c.ids, l)
        <3>1. c.score = SubsetScore(c.ids, l)
            BY <1>1, <2>1
        <3>2. SubsetScore(r, l) <= c.score
            BY <2>2, <2>3, <2>4
        <3> QED BY <3>1, <3>2
    <2> QED BY <1>7, <2>5, ScoresTell
<1> HIDE DEF raw, best
<1>8. CASE ids \in combos
    <2>1. PICK b \in best : b.ids = ids
        BY <1>5, <1>8
    <2>2. CASE b \in kept
        BY <2>1, <2>2
    <2>3. CASE b \notin kept
        <3>1. Cardinality(kept) = CandidateLimit
            BY <1>3, <2>1, <2>3, ListFull DEF best, raw
        <3> QED BY <1>7, <1>8, <2>1, <2>3, <3>1
    <2> QED BY <2>2, <2>3
<1>9. ASSUME NEW rs \in SUBSET combos, IsFiniteSet(rs), Cardinality(rs) = CandidateLimit,
             \A r \in rs : AsGood(ids, r, l)
      PROVE  /\ Cardinality(kept) = CandidateLimit
             /\ \A c \in kept : Cardinality(c.ids) > 1 => AsGood(ids, c.ids, l)
    <2> DEFINE g == [r \in rs |-> CHOOSE b \in best : b.ids = r]
               own == {g[r] : r \in rs}
    <2>1. ASSUME NEW r \in rs
          PROVE  g[r] \in best /\ g[r].ids = r
        <3>1. \E b \in best : b.ids = r
            BY <1>5
        <3> QED BY <3>1, Zenon
    <2>2. g \in Bijection(rs, own)
        <3>1. DOMAIN g = rs /\ g \in [rs -> own]
            OBVIOUS
        <3> HIDE DEF g
        <3>2. \A r, q \in rs : g[r] = g[q] => r = q
            BY <2>1, Zenon
        <3> QED BY <3>1, <3>2 DEF Bijection, Injection, IsInjective, Surjection
    <2> HIDE DEF g
    <2>3. IsFiniteSet(own) /\ Cardinality(own) = CandidateLimit
        BY <1>9, <2>2, FS_Bijection DEF ExistsBijection
    <2>4. own \in SUBSET best
        BY <2>1
    <2>5. Cardinality(best) >= CandidateLimit
        <3>1. Cardinality(own) <= Cardinality(best)
            BY <1>3, <2>4, FS_Subset
        <3>2. Cardinality(best) \in Nat /\ CandidateLimit \in Nat
            BY <1>3, FS_CardinalityType, CandidatesAssumption
        <3> QED BY <2>3, <3>1, <3>2
    <2>6. Cardinality(kept) = CandidateLimit
        BY <1>3, <2>5, ListFull DEF best, raw
    <2>7. ASSUME NEW c \in kept, Cardinality(c.ids) > 1
          PROVE  AsGood(ids, c.ids, l)
        <3>1. CASE own \subseteq kept
            <4>1. IsFiniteSet(kept)
                BY <1>3, <1>4, FS_Subset
            <4>2. own = kept
                BY <2>3, <2>6, <3>1, <4>1, FS_Subset
            <4>3. PICK r \in rs : c = g[r]
                BY <4>2
            <4> QED BY <1>9, <2>1, <4>3
        <3>2. CASE ~ (own \subseteq kept)
            <4>1. PICK r \in rs : g[r] \notin kept
                BY <3>2
            <4>2. AsGood(ids, r, l) /\ r \in combos /\ g[r] \in best /\ g[r].ids = r
                BY <1>9, <2>1
            <4>3. AsGood(r, c.ids, l)
                BY <1>7, <2>7, <4>1, <4>2 DEF AsGood
            <4> QED BY <4>2, <4>3 DEF AsGood
        <3> QED BY <3>1, <3>2
    <2> QED BY <2>6, <2>7
<1> QED BY <1>8, <1>9

-----------------------------------------------------------------------------
\* One exact combination of one offer.
Offered(o, ids) ==
    ~ o.truncated /\ Reachable(o.line, ids) /\ Total(ids) = Due(o.line) =>
        \/ \E c \in o.cands : c.ids = ids
        \/ \E h \in SUBSET ids : Cardinality(h) >= 2 /\ Continues(ids, h)
                                 /\ Delta(Total(h), o.line) <= Bound(o.line)
        \/ /\ Cardinality(o.cands) = CandidateLimit
           /\ \A c \in o.cands : Cardinality(c.ids) > 1 =>
                 Total(c.ids) = Due(o.line) /\ (Cohort(ids) => Cohort(c.ids))

LEMMA ExactGenerated ==
    ASSUME TypeOK, NEW l \in Line, Generate(l), NEW o \in offer', NEW ids \in SUBSET Open
    PROVE  Offered(o, ids)
<1>1. PICK scoped \in Combinations(l, Scoped(l), ScopedItems, ScopedPool),
           unscoped \in Combinations(l, Unscoped(l), UnscopedItems, UnscopedPool) :
       \E hits \in Hits(l), pairs \in PairHits : \E kept :
          Made(l, scoped, unscoped, hits, pairs, kept)
    BY Generated, Zenon
<1>2. PICK hits \in Hits(l), pairs \in PairHits : \E kept :
          Made(l, scoped, unscoped, hits, pairs, kept)
    BY <1>1, Zenon
<1> DEFINE combos  == scoped.ids \cup unscoped.ids
           singles == Singles(l, hits, pairs)
           several == Several(l, combos)
<1>3. PICK kept \in Ranked(Best(singles \cup several), l) :
         offer' = {[line |-> l, cands |-> kept,
                    truncated |-> scoped.truncated \/ unscoped.truncated]}
    BY <1>2, Zenon DEF Made
<1>4. o.line = l /\ o.cands = kept /\ o.truncated = (scoped.truncated \/ unscoped.truncated)
    BY <1>3
<1>5. \A c \in singles : Single(c)
    BY SingleScores
<1>6. Scoped(l) \in SUBSET Fitting(l) /\ Unscoped(l) \in SUBSET Fitting(l) /\ Fitting(l) \subseteq Entry
    BY DEF Scoped, Unscoped, OfParty, SameSide, Fitting, Open
<1>7. combos \in SUBSET (SUBSET Entry)
    <2>1. \A c \in combos : c \subseteq Fitting(l)
        BY <1>6, CombinationsFit
    <2> QED BY <1>6, <2>1
<1> HIDE DEF singles
<1> SUFFICES ASSUME ~ scoped.truncated, ~ unscoped.truncated, Reachable(l, ids), Total(ids) = Due(l),
                    \A h \in SUBSET ids : ~ Shortens(h, ids, l)
             PROVE  \/ \E c \in kept : c.ids = ids
                    \/ /\ Cardinality(kept) = CandidateLimit
                       /\ \A c \in kept : Cardinality(c.ids) > 1 => AsGood(ids, c.ids, l)
    BY <1>4 DEF Offered, AsGood, Shortens
<1>8. \/ ids \in combos
      \/ \E rs \in SUBSET combos : /\ IsFiniteSet(rs) /\ Cardinality(rs) = CandidateLimit
                                   /\ \A r \in rs : AsGood(ids, r, l)
    <2>1. ScopedItems \in Nat /\ ScopedPool \in Nat /\ UnscopedItems \in Nat /\ UnscopedPool \in Nat
        BY CandidatesAssumption
    <2>2. CASE /\ ids \in Fits(l, Scoped(l), ScopedItems)
               /\ Cardinality(Scoped(l)) <= ScopedPool /\ NoCredit(Scoped(l))
        <3>1. \/ ids \in scoped.ids
              \/ /\ IsFiniteSet(scoped.ids) /\ Cardinality(scoped.ids) = CandidateLimit
                 /\ \A r \in scoped.ids : AsGood(ids, r, l)
            <4>1. Scoped(l) \in SUBSET Entry
                BY <1>6
            <4> QED BY <2>1, <2>2, <4>1, SearchFinds
        <3> QED BY <3>1
    <2>3. CASE /\ ids \in Fits(l, Unscoped(l), UnscopedItems)
               /\ Cardinality(Unscoped(l)) <= UnscopedPool /\ NoCredit(Unscoped(l))
        <3>1. \/ ids \in unscoped.ids
              \/ /\ IsFiniteSet(unscoped.ids) /\ Cardinality(unscoped.ids) = CandidateLimit
                 /\ \A r \in unscoped.ids : AsGood(ids, r, l)
            <4>1. Unscoped(l) \in SUBSET Entry
                BY <1>6
            <4> QED BY <2>1, <2>3, <4>1, SearchFinds
        <3> QED BY <3>1
    <2> QED BY <2>2, <2>3 DEF Reachable
<1> HIDE DEF combos
<1> QED BY <1>5, <1>7, <1>8, ListFills

\* Sums, pools and bounds stay while the rows and the claims do.
LEMMA OfferedKept ==
    ASSUME UNCHANGED vars, NEW o, NEW ids
    PROVE  Offered(o, ids)' <=> Offered(o, ids)
<1>1. bank' = bank /\ ledger' = ledger /\ claimed' = claimed
    BY DEF vars, rows
<1>2. ASSUME NEW c
      PROVE  Total(c)' = Total(c) /\ (Cohort(c)' <=> Cohort(c))
    BY <1>1 DEF Total, MapThenSumSet, MapThenFoldSet, Cohort
<1>3. ASSUME NEW l
      PROVE  /\ Due(l)' = Due(l) /\ Bound(l)' = Bound(l)
             /\ Scoped(l)' = Scoped(l) /\ Unscoped(l)' = Unscoped(l)
    BY <1>1 DEF Due, Bound, Scoped, Unscoped, OfParty, SameSide, Side, Open, Within
<1>4. ASSUME NEW c, NEW l
      PROVE  Delta(Total(c), l)' = Delta(Total(c), l)
    BY <1>2, <1>3 DEF Delta
<1>5. ASSUME NEW l, NEW c
      PROVE  Reachable(l, c)' <=> Reachable(l, c)
    BY <1>1, <1>3, <1>4 DEF Reachable, Fits, NoCredit
<1>6. ASSUME NEW c, NEW h
      PROVE  Continues(c, h)' <=> Continues(c, h)
    BY <1>1 DEF Continues
<1> QED BY <1>2, <1>3, <1>4, <1>5, <1>6 DEF Offered

\* ExactCombinationsOffered: an exact combination of a pool without negative amounts
\* reaches Tier 3 unless it continues another one, the search says it was truncated,
\* or what took its place is no less exact and no less of one day
\* (tier2_candidates.py 68-79, 182-186).
THEOREM ExactCorrect == CSpec => []ExactCombinationsOffered
<1>1. CInit => OfferInv /\ ExactCombinationsOffered
    BY InitInv DEF CInit, OfferInv, ExactCombinationsOffered
<1>2. ASSUME OfferInv, ExactCombinationsOffered, [CNext]_cvars
      PROVE  ExactCombinationsOffered'
    <2>1. ASSUME UNCHANGED vars, \A o \in offer' : \A ids \in SUBSET Open : Offered(o, ids)
          PROVE  ExactCombinationsOffered'
        <3>1. Open' = Open
            BY <2>1 DEF Open, vars, rows
        <3>2. ASSUME NEW o \in offer', NEW ids \in SUBSET Open
              PROVE  Offered(o, ids)'
            BY <2>1, OfferedKept
        <3> QED BY <3>1, <3>2 DEF ExactCombinationsOffered, Offered
    <2>2. CASE UNCHANGED cvars
        BY <1>2, <2>1, <2>2 DEF cvars, ExactCombinationsOffered, Offered
    <2>3. CASE Next /\ UNCHANGED <<sets, offer>>
        <3>1. tier # 2
            BY <2>3 DEF Next, Tier0Line, Tier1Line, Tier0Done, Tier1Done
        <3> QED BY <1>2, <2>3, <3>1 DEF OfferInv, ExactCombinationsOffered
    <2>4. CASE \E l \in Line : Generate(l)
        <3>1. PICK l \in Line : Generate(l)
            BY <2>4
        <3>2. UNCHANGED vars /\ TypeOK
            BY <1>2, <3>1 DEF Generate, OfferInv, IInv
        <3> QED BY <2>1, <3>1, <3>2, ExactGenerated
    <2>5. CASE Save
        BY <2>5 DEF Save, ExactCombinationsOffered
    <2> QED BY <1>2, <2>2, <2>3, <2>4, <2>5 DEF CNext
<1> QED BY <1>1, <1>2, OfferStep, PTL DEF CSpec
=============================================================================
