------------------------------ MODULE Dataset ------------------------------
(***************************************************************************)
(* The seeded dataset (seed/generator.py): the cases of each period are     *)
(* built class by class, every document takes the next number of its series,*)
(* and the golden set is drawn from the first period, stratified by class.  *)
(*                                                                         *)
(* Of a case stay its documents and the reference its narrative quotes      *)
(* wrongly; names, amounts and days come from the seeded generator. A loop  *)
(* with nothing to interleave is one step.                                  *)
(***************************************************************************)
EXTENDS Integers, Sequences, SequencesExt

CONSTANTS
    Period,        \* sequence of [mix, distractors]
    Quota,         \* the sizes of the golden halves of this instance: [Half -> Nat]
    MinPerClass    \* MIN_PER_CLASS

\* The classes of the mixes in sorted order.
Class == <<"h_batch", "h_dup_amount", "h_fee_netted", "h_feedback", "h_fx",
           "h_narrative_only", "h_no_match", "h_partial", "h_transposed_ref",
           "t0_rent_exact", "t0_supplier_exact", "t1_recurring_fee",
           "t1_standing_order", "t1_unique_counterparty">>
HardClass == {Class[k] : k \in 1..9}
Deferred == {"h_transposed_ref"}
Half == {"clean", "hard"}

ASSUME PeriodAssumption ==
    /\ Len(Period) \in Nat \ {0} /\ DOMAIN Period = 1..Len(Period)
    /\ \A k \in DOMAIN Period :
         /\ DOMAIN Period[k].mix \subseteq Range(Class)
         /\ \A c \in DOMAIN Period[k].mix : Period[k].mix[c] \in Nat
         /\ Period[k].distractors \in Nat
ASSUME SampleAssumption == Quota \subseteq [Half -> Nat] /\ MinPerClass \in Nat

VARIABLES
    period,    \* the period that is built
    phase,     \* "cases", "distractors", "mistyped"; per half "floor", "share", "top"; "drawn"
    class,     \* position in Class
    issued,    \* numbers issued in this period, per series
    phantom,   \* references taken from the block that is never issued
    built,     \* the cases of a class in a period: their number, their series and numbers
    mistyped,  \* the cases that quote a wrong reference: document and quoted number
    quota,     \* the sizes of the halves
    pool,      \* the labelled cases of the first period, per half and class
    half,      \* the half that is drawn
    take,      \* cases to draw of each class of the half
    golden     \* cases drawn of each class, per half that is complete

building == <<period, phase, class, issued, phantom, built, mistyped>>
drawing == <<quota, pool, half, take, golden>>
dvars == <<building, drawing>>

\* f, and what only g has.
Merged(f, g) == [x \in DOMAIN f \cup DOMAIN g |-> IF x \in DOMAIN f THEN f[x] ELSE g[x]]

NoneIssued == [AR |-> 0, AP |-> 0]

DInit ==
    /\ period = 1 /\ phase = "cases" /\ class = 1
    /\ issued = NoneIssued /\ phantom = 0 /\ built = {} /\ mistyped = {}
    /\ quota = <<>> /\ pool = <<>> /\ half = "clean" /\ take = <<>> /\ golden = <<>>

-----------------------------------------------------------------------------
\* Cases of a class in a period; those with a shared display name come in pairs.
Cases(k, c) ==
    LET count == IF c \in DOMAIN Period[k].mix THEN Period[k].mix[c] ELSE 0
    IN  IF c = "h_dup_amount" THEN 2 * (count \div 2) ELSE count
Mix(c) == Cases(period, c)

\* What the builder of a class invoices or bills: six invoices to an agent, nothing
\* where no entry exists, else one document.
DocsPerCase(c) == CASE c = "h_batch" -> 6 [] c = "h_no_match" -> 0 [] OTHER -> 1
SideOf(c) == IF c \in {"t0_supplier_exact", "t1_recurring_fee"} THEN "AP" ELSE "AR"

\* _ar_ref, _ap_ref: `count` cases that take the next numbers of their series.
Block(c, side, count, docs) ==
    [period |-> period, class |-> c, count |-> count, side |-> side,
     numbers |-> (issued[side] + 1)..(issued[side] + docs)]

\* The cases of one class of the mix, in sorted order. Those that quote a wrong
\* reference are left for later.
BuildClass ==
    /\ phase = "cases"
    /\ LET c == Class[class]
           side == SideOf(c)
           count == IF c \in Deferred THEN 0 ELSE Mix(c)
       IN  /\ built' = built \cup {Block(c, side, count, count * DocsPerCase(c))}
           /\ issued' = [issued EXCEPT ![side] = @ + count * DocsPerCase(c)]
    /\ class' = class + 1
    /\ phase' = IF class = Len(Class) THEN "distractors" ELSE "cases"
    /\ UNCHANGED <<period, phantom, mistyped, drawing>>

\* _add_distractor: documents nobody pays, every third a bill.
AddDistractors ==
    /\ phase = "distractors"
    /\ LET all == Period[period].distractors
           bills == (all + 2) \div 3
       IN  /\ built' = built \cup {Block("distractor", "AP", 0, bills),
                                   Block("distractor", "AR", 0, all - bills)}
           /\ issued' = [AR |-> issued.AR + all - bills, AP |-> issued.AP + bills]
    /\ phase' = "mistyped"
    /\ UNCHANGED <<period, class, phantom, mistyped, drawing>>

\* The number with two of its four digits exchanged.
Digit(n, k) == (n \div 10^(4 - k)) % 10
Exchanged(n, a, b) == n + (Digit(n, b) - Digit(n, a)) * (10^(4 - a) - 10^(4 - b))
Tried(n) == <<Exchanged(n, 2, 3), Exchanged(n, 1, 2), Exchanged(n, 3, 4), Exchanged(n, 1, 4)>>

\* Mutant: any exchange that reads differently will do.
ExchangesAny(n) == {k \in DOMAIN Tried(n) : Tried(n)[k] # n}

\* _mistyped_ref: the exchanges that name no document issued so far, n included.
Exchanges(n) == {k \in DOMAIN Tried(n) : Tried(n)[k] # n /\ Tried(n)[k] \notin 1..n}

\* A case that quotes a wrong reference, built when all others are.
BuildMistyped ==
    /\ phase = "mistyped"
    /\ Cardinality({m \in mistyped : m.period = period}) < Mix("h_transposed_ref")
    /\ LET n == issued.AR + 1
           found == Exchanges(n)
       IN  /\ mistyped' = mistyped \cup
                 {[period |-> period, number |-> n,
                   quoted |-> IF found = {} THEN 9001 + phantom ELSE Tried(n)[Min(found)]]}
           /\ phantom' = IF found = {} THEN phantom + 1 ELSE phantom
           /\ issued' = [issued EXCEPT !.AR = n]
    /\ UNCHANGED <<period, phase, class, built, drawing>>

\* The labelled cases of the first period, per class.
InJune(c) ==
    IF c \in Deferred
    THEN Cardinality({m \in mistyped : m.period = 1})
    ELSE SumSet({b.count : b \in {b \in built : b.period = 1 /\ b.class = c}})
JuneClasses == {c \in Range(Class) : InJune(c) > 0}

\* The next period starts its series anew. After the last, _golden_set takes the
\* first period's cases, clean and hard apart.
PeriodBuilt ==
    /\ phase = "mistyped"
    /\ Cardinality({m \in mistyped : m.period = period}) = Mix("h_transposed_ref")
    /\ IF period < Len(Period)
       THEN /\ period' = period + 1 /\ phase' = "cases"
            /\ class' = 1 /\ phantom' = 0 /\ issued' = NoneIssued
            /\ UNCHANGED <<quota, pool>>
       ELSE /\ phase' = "floor" /\ quota' \in Quota
            /\ pool' = [h \in Half |-> [c \in {c \in JuneClasses : c \in HardClass <=> h = "hard"}
                                          |-> InJune(c)]]
            /\ UNCHANGED <<period, class, phantom, issued>>
    /\ UNCHANGED <<built, mistyped, half, take, golden>>

-----------------------------------------------------------------------------
\* Mutant: no floor.
LeastNone(n) == 0

Least(n) == Min({MinPerClass, n})

\* _stratified: first the floor of every class.
TakeFloor ==
    /\ phase = "floor"
    /\ take' = [c \in DOMAIN pool[half] |-> Least(pool[half][c])]
    /\ phase' = "share"
    /\ UNCHANGED <<period, class, issued, phantom, built, mistyped, quota, pool, half, golden>>

\* Mutant: the shares are rounded up.
TakeShareUp ==
    /\ phase = "share"
    /\ LET spare  == [c \in DOMAIN take |-> pool[half][c] - take[c]]
           budget == quota[half] - SumFunction(take)
           total  == SumFunction(spare)
       IN  take' = [c \in DOMAIN take |->
                      take[c] + IF budget > 0 /\ total > 0
                                THEN Min({spare[c], (budget * spare[c] + total - 1) \div total})
                                ELSE 0]
    /\ phase' = "top"
    /\ UNCHANGED <<period, class, issued, phantom, built, mistyped, quota, pool, half, golden>>

\* Then each class its share of what is left of the quota, rounded down.
TakeShare ==
    /\ phase = "share"
    /\ LET spare  == [c \in DOMAIN take |-> pool[half][c] - take[c]]
           budget == quota[half] - SumFunction(take)
           total  == SumFunction(spare)
       IN  take' = [c \in DOMAIN take |->
                      take[c] + IF budget > 0 /\ total > 0
                                THEN Min({spare[c], (budget * spare[c]) \div total})
                                ELSE 0]
    /\ phase' = "top"
    /\ UNCHANGED <<period, class, issued, phantom, built, mistyped, quota, pool, half, golden>>

\* The class most of whose cases are not taken, the first by name of several.
Left(c) == pool[half][c] - take[c]
MostLeft == {k \in DOMAIN Class :
    /\ Class[k] \in DOMAIN take /\ Left(Class[k]) > 0
    /\ \A m \in DOMAIN Class : Class[m] \in DOMAIN take =>
          \/ Left(Class[m]) < Left(Class[k])
          \/ Left(Class[m]) = Left(Class[k]) /\ k <= m}

\* Then one at a time, as long as the quota is not full.
TopUp ==
    /\ phase = "top" /\ SumFunction(take) < quota[half]
    /\ \E k \in MostLeft : take' = [take EXCEPT ![Class[k]] = @ + 1]
    /\ UNCHANGED <<building, quota, pool, half, golden>>

\* The references are drawn. Above the quota the program loops and trims, for ever
\* when only floors are left: here it has no step, and SampleIsStratified says that
\* it never comes to it.
Draw ==
    /\ phase = "top"
    /\ \/ SumFunction(take) = quota[half]
       \/ SumFunction(take) < quota[half] /\ MostLeft = {}
    /\ golden' = Merged([h \in {half} |-> take], golden)
    /\ take' = <<>>
    /\ IF half = "clean" THEN half' = "hard" /\ phase' = "floor"
                         ELSE half' = half /\ phase' = "drawn"
    /\ UNCHANGED <<period, class, issued, phantom, built, mistyped, quota, pool>>

DNext ==
    \/ BuildClass \/ AddDistractors \/ BuildMistyped \/ PeriodBuilt
    \/ TakeFloor \/ TakeShare \/ TopUp \/ Draw
-----------------------------------------------------------------------------
\* What the properties ask of the mixes and quotas. The invoices a class takes from
\* their series in a period, those of the first p - 1 classes, those issued before the
\* wrong references are chosen, and all.
Invoices(k, p) ==
    LET c == Class[p]
    IN  IF SideOf(c) = "AR" /\ c \notin Deferred THEN Cases(k, c) * DocsPerCase(c) ELSE 0
InvoicesBefore(k, p) ==
    SumFunction([i \in 1..Len(Class) |-> IF i < p THEN Invoices(k, i) ELSE 0])
Known(k) == InvoicesBefore(k, Len(Class) + 1)
            + Period[k].distractors - (Period[k].distractors + 2) \div 3
Issued(k) == Known(k) + Cases(k, "h_transposed_ref")

\* Of every invoice whose reference is mistyped, one of the first two exchanges puts a
\* greater digit forward and so leads past all numbers of the period.
ExchangesLeadPast ==
    \A k \in DOMAIN Period :
        /\ Issued(k) <= 9000 /\ Issued(k) - Known(k) <= 90
        /\ \A n \in (Known(k) + 1)..Issued(k) :
              Digit(n, 2) < Digit(n, 3) \/ Digit(n, 1) < Digit(n, 2)

\* Every quota holds the floors of all classes of its half.
RoomForFloors == \A q \in Quota : q["clean"] >= 5 * MinPerClass /\ q["hard"] >= 9 * MinPerClass
-----------------------------------------------------------------------------
\* Both periods are complete, the golden set comes next.
Written == phase = "floor" /\ half = "clean"

\* A wrong reference names no document of its period, those issued after it was
\* chosen included: else Tier 0 would commit a match that the label calls wrong
\* (generator.py 355-360).
MistypedNamesNothing ==
    Written =>
        \A m \in mistyped :
            /\ \A b \in built : b.period = m.period /\ b.side = "AR" => m.quoted \notin b.numbers
            /\ \A k \in mistyped : k.period = m.period => k.number # m.quoted

\* A half never exceeds its quota and ends with it, or with everything there is; no
\* class is left out, and none is sampled less than a smaller one (generator.py
\* 715-752). The quotas are at least the floors of all classes.
SampleIsStratified ==
    /\ phase \in {"share", "top"} => SumFunction(take) <= quota[half]
    /\ \A h \in DOMAIN golden :
         LET all == pool[h]
             drawn == golden[h]
         IN  /\ SumFunction(drawn) = Min({quota[h], SumFunction(all)})
             /\ \A c \in DOMAIN all : drawn[c] \in Least(all[c])..all[c]
             /\ \A c, d \in DOMAIN all : all[c] < all[d] => drawn[c] <= drawn[d]
=============================================================================
