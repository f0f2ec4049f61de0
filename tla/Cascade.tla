------------------------------- MODULE Cascade -------------------------------
(***************************************************************************)
(* Tiers 0 and 1, the deterministic cascade (run_deterministic): the lines  *)
(* are walked in one total order, each tier tries the lines the tier before *)
(* left over, and an entry a line was settled with is claimed.              *)
(*                                                                         *)
(* The rows are chosen in Init and never change: matchers are pure          *)
(* functions over the stored rows. A step is one line of one tier.          *)
(***************************************************************************)
EXTENDS Integers, FiniteSets

CONSTANTS
    Line,           \* bank_lines ids; they break ties of the line order
    Entry,          \* ledger_entries ids
    BankLine,       \* the bank line records of this instance
    LedgerEntry,    \* the ledger entry records of this instance
    NoParty,        \* a counterparty that is not known
    Tier0Window,    \* tier0_date_window_days
    Tier1Window,    \* tier1_date_window_days
    FxBps,          \* tier1_fx_tolerance_bps
    MaxTier         \* max_tier of run_deterministic

ASSUME LineAssumption   == Line \subseteq Int
ASSUME EntryAssumption  == IsFiniteSet(Entry)
ASSUME RecordAssumption ==
    /\ \A b \in BankLine : b.amount \in Int /\ b.date \in Int
    /\ \A g \in LedgerEntry : g.amount \in Int /\ g.date \in Int
ASSUME ConfigAssumption ==
    Tier0Window \in Nat /\ Tier1Window \in Nat /\ FxBps \in Nat /\ MaxTier \in Nat

VARIABLES
    bank,      \* the lines: amount (signed), date, refs quoted, counterparty
    ledger,    \* the entries: amount, date, doc_ref, counterparty, side, open
    tier,      \* the tier that runs, 2 when the cascade returned
    todo,      \* lines this tier has not looked at yet
    claimed,   \* entries settled so far
    matches    \* set of [line, entry, tier]

rows == <<bank, ledger>>
vars == <<rows, tier, todo, claimed, matches>>

Init ==
    /\ bank \in [Line -> BankLine]
    /\ ledger \in [Entry -> LedgerEntry]
    /\ tier = 0 /\ todo = Line /\ claimed = {} /\ matches = {}

-----------------------------------------------------------------------------
Abs(n) == IF n < 0 THEN -n ELSE n
Side(l) == IF bank[l].amount > 0 THEN "AR" ELSE "AP"
Due(l) == Abs(bank[l].amount)
Within(l, e, days) == Abs(bank[l].date - ledger[e].date) <= days

\* _ordered_lines: by value date, then by reference and id.
Before(l, m) ==
    \/ bank[l].date < bank[m].date
    \/ bank[l].date = bank[m].date /\ l <= m

\* The line a tier looks at next.
Following(l) == l \in todo /\ \A m \in todo : Before(l, m)

\* match_tier0: the entries whose reference the line quotes and that fit it.
Quoted(l) ==
    {e \in Entry : /\ ledger[e].doc \in bank[l].refs /\ ledger[e].side = Side(l)
                   /\ ledger[e].open
                   /\ ledger[e].amount = Due(l) /\ Within(l, e, Tier0Window)}

\* match_tier1: the entries of the line's counterparty inside the wider window.
SameParty(l) ==
    {e \in Entry : /\ bank[l].party # NoParty /\ ledger[e].party = bank[l].party
                   /\ ledger[e].side = Side(l) /\ ledger[e].open
                   /\ Within(l, e, Tier1Window)}

Tolerance(amount) == (amount * FxBps) \div 10000

\* Those that have the line's amount, and those within the FX band of theirs.
Exact(l) == {e \in SameParty(l) : ledger[e].amount = Due(l)}
Near(l)  == {e \in SameParty(l) :
               /\ ledger[e].amount # Due(l)
               /\ Abs(ledger[e].amount - Due(l)) <= Tolerance(ledger[e].amount)}

\* Mutant: claimed entries are offered again.
Tier0Reuses(l) == {e \in Entry : Quoted(l) = {e}}

\* The entries Tier 0 would settle l with: at most one.
Tier0(l) == {e \in Entry : Quoted(l) \ claimed = {e}}

\* Mutant: the only exact amount wins, whatever is near it.
Tier1IgnoresNear(l) ==
    LET exact == Exact(l) \ claimed
        near  == Near(l) \ claimed
    IN  {e \in Entry : exact = {e} \/ (exact = {} /\ near = {e})}

\* The same for Tier 1: the only exact amount when none is near it, or the only
\* near one when none is exact.
Tier1(l) ==
    LET exact == Exact(l) \ claimed
        near  == Near(l) \ claimed
    IN  {e \in Entry : \/ exact = {e} /\ near = {}
                       \/ exact = {} /\ near = {e}}

-----------------------------------------------------------------------------
\* Mutant: the line's id is added to the claimed ids.
TurnClaimsLine(l, found) ==
    /\ Following(l)
    /\ todo' = todo \ {l}
    /\ \/ \E e \in found :
            /\ matches' = matches \cup {[line |-> l, entry |-> e, tier |-> tier]}
            /\ claimed' = claimed \cup {l}
       \/ found = {} /\ UNCHANGED <<claimed, matches>>
    /\ UNCHANGED <<rows, tier>>

\* A line's turn: it is settled with the one entry in `found`, if there is one.
Turn(l, found) ==
    /\ Following(l)
    /\ todo' = todo \ {l}
    /\ \/ \E e \in found :
            /\ matches' = matches \cup {[line |-> l, entry |-> e, tier |-> tier]}
            /\ claimed' = claimed \cup {e}
       \/ found = {} /\ UNCHANGED <<claimed, matches>>
    /\ UNCHANGED <<rows, tier>>

Tier0Line(l) == tier = 0 /\ Turn(l, Tier0(l))
Tier1Line(l) == tier = 1 /\ Turn(l, Tier1(l))

\* The lines no match names.
Unmatched == {l \in Line : \A x \in matches : x.line # l}

\* Tier 1 starts on what Tier 0 left; with max_tier = 0 the cascade returns.
Tier0Done ==
    /\ tier = 0 /\ todo = {}
    /\ tier' = IF MaxTier >= 1 THEN 1 ELSE 2
    /\ todo' = IF MaxTier >= 1 THEN Unmatched ELSE {}
    /\ UNCHANGED <<rows, claimed, matches>>

Tier1Done ==
    /\ tier = 1 /\ todo = {}
    /\ tier' = 2
    /\ UNCHANGED <<rows, todo, claimed, matches>>

Next ==
    \/ \E l \in Line : Tier0Line(l) \/ Tier1Line(l)
    \/ Tier0Done \/ Tier1Done

Spec == Init /\ [][Next]_vars
-----------------------------------------------------------------------------
\* The variables hold lines, entries and records of this instance.
TypeOK ==
    /\ bank \in [Line -> BankLine]
    /\ ledger \in [Entry -> LedgerEntry]
    /\ tier \in 0..2
    /\ todo \subseteq Line
    /\ claimed \subseteq Entry
    /\ matches \subseteq [line: Line, entry: Entry, tier: {0, 1}]

\* What a tier weighs for a line, claimed or not.
Weighed(x) == IF x.tier = 0 THEN Quoted(x.line) ELSE Exact(x.line) \cup Near(x.line)

\* Nothing ambiguous is committed: every other entry a match could have named had
\* been settled with another line, in an earlier tier or earlier in the
\* (value_date, bank_ref, id) order (tier0_exact.py 6-9, tier1_struct.py 64-72).
RivalsTakenEarlier ==
    \A x \in matches : \A e \in Weighed(x) \ {x.entry} : \E y \in matches :
        /\ y.entry = e /\ y.line # x.line
        /\ y.tier < x.tier \/ (y.tier = x.tier /\ Before(y.line, x.line))

\* Tiers 0 and 1 pair lines and entries one to one and never undo a pair.
PairsMade == INSTANCE Matching WITH pairs <- {<<x.line, x.entry>> : x \in matches}
PairsOneToOne == PairsMade!Spec
=============================================================================
