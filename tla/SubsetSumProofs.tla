--------------------------- MODULE SubsetSumProofs ---------------------------
(***************************************************************************)
(* Proofs about SubsetSum for any pools, days, targets, tolerances and      *)
(* limits: what the search finds fits and is found once; when it says it    *)
(* was exhaustive nothing was overlooked, and ranking drops nothing better, *)
(* if no amount of the pool is negative.                                    *)
(*                                                                         *)
(* The sums are recursive functions; what they compute is proved by         *)
(* induction over the naturals in its set form, which follows from the      *)
(* well-foundedness of their order.                                         *)
(***************************************************************************)
EXTENDS SubsetSum, FiniteSetTheorems, SequenceTheorems, TLAPS

-----------------------------------------------------------------------------
\* A set of naturals that is not empty has a least element.
LEMMA LeastElement ==
    ASSUME NEW T \in SUBSET Nat, T # {}
    PROVE  \E k \in T : \A m \in T : k <= m
<1> DEFINE R == OpToRel(<, Nat)
<1>1. \A m, k \in Nat : m < k => <<m, k>> \in R
    BY Zenon DEF OpToRel
<1>2. IsWellFoundedOn(R, Nat)
    BY NatLessThanWellFounded, Zenon
<1> HIDE DEF R
<1>3. PICK k \in T : \A m \in T : ~ (<<m, k>> \in R)
    BY <1>2, WFMin, Zenon
<1>4. \A m \in T : ~ (m < k)
    BY <1>1, <1>3, Zenon
<1> QED BY <1>4

\* A set of naturals that holds 0 and with each number the next holds all of them.
LEMMA SetInduction ==
    ASSUME NEW T \in SUBSET Nat, 0 \in T, \A k \in T : k + 1 \in T
    PROVE  T = Nat
<1> SUFFICES ASSUME Nat \ T # {} PROVE FALSE
    OBVIOUS
<1>1. PICK k \in Nat \ T : \A m \in Nat \ T : k <= m
    BY LeastElement
<1>2. k # 0 /\ k - 1 \in Nat
    BY <1>1
<1>3. k - 1 \in T
    BY <1>1, <1>2
<1> QED BY <1>1, <1>3

-----------------------------------------------------------------------------
\* f holds the partial sums of v, from nothing up to the first m terms.
SumsUp(f, v, m) == f = [i \in 0..m |-> IF i = 0 THEN 0 ELSE f[i - 1] + v[i]]

\* Partial sums exist: there is a function that satisfies the recursive equation.
LEMMA SumsExist ==
    ASSUME NEW m \in Nat, NEW v
    PROVE  \E f : SumsUp(f, v, m)
<1> DEFINE T == {k \in Nat : \E f : SumsUp(f, v, k)}
<1>1. 0 \in T
    <2> DEFINE f == [i \in 0..0 |-> 0]
    <2>1. SumsUp(f, v, 0)
        BY DEF SumsUp
    <2> QED BY <2>1
<1>2. \A k \in T : k + 1 \in T
    <2> SUFFICES ASSUME NEW k \in Nat, NEW f, SumsUp(f, v, k)
                 PROVE  \E g : SumsUp(g, v, k + 1)
        OBVIOUS
    <2> DEFINE g == [i \in 0..(k + 1) |-> IF i <= k THEN f[i] ELSE f[k] + v[k + 1]]
    <2>1. \A i \in 0..k : f[i] = IF i = 0 THEN 0 ELSE f[i - 1] + v[i]
        BY DEF SumsUp
    <2>2. \A i \in 0..(k + 1) : g[i] = IF i = 0 THEN 0 ELSE g[i - 1] + v[i]
        BY <2>1
    <2>3. g = [i \in 0..(k + 1) |-> IF i = 0 THEN 0 ELSE g[i - 1] + v[i]]
        BY <2>2
    <2> QED BY <2>3 DEF SumsUp
<1> HIDE DEF T
<1>3. T = Nat
    BY <1>1, <1>2, SetInduction DEF T
<1> QED BY <1>3 DEF T

\* The terms of the total of c.
Term(c) == [i \in 1..n |-> IF i \in c THEN amounts[i] ELSE 0]

\* t holds the totals of what c has of the first positions.
Totals(t, c) ==
    /\ t \in [0..n -> Int] /\ t[0] = 0 /\ Total(c) = t[n]
    /\ \A i \in 1..n : t[i] = t[i - 1] + IF i \in c THEN amounts[i] ELSE 0

\* The total of a combination is the last of the partial sums of its terms.
LEMMA TotalSums ==
    ASSUME amounts \in Seq(Int), NEW c
    PROVE  \E t : Totals(t, c)
<1>1. n \in Nat /\ \A i \in 1..n : amounts[i] \in Int
    BY DEF n
<1> DEFINE t == CHOOSE f : f = [i \in 0..n |-> IF i = 0 THEN 0
                                 ELSE f[i - 1] + (IF i \in c THEN amounts[i] ELSE 0)]
<1>2. Total(c) = t[n]
    BY DEF Total
<1>3. PICK f : SumsUp(f, Term(c), n)
    BY <1>1, SumsExist
<1>4. f = [i \in 0..n |-> IF i = 0 THEN 0 ELSE f[i - 1] + (IF i \in c THEN amounts[i] ELSE 0)]
    <2>1. \A i \in 0..n : (IF i = 0 THEN 0 ELSE f[i - 1] + Term(c)[i]) =
                          (IF i = 0 THEN 0 ELSE f[i - 1] + (IF i \in c THEN amounts[i] ELSE 0))
        BY <1>1 DEF Term
    <2> QED BY <1>3, <2>1 DEF SumsUp
<1>5. t = [i \in 0..n |-> IF i = 0 THEN 0 ELSE t[i - 1] + (IF i \in c THEN amounts[i] ELSE 0)]
    BY <1>4, Zenon
<1> HIDE DEF t
<1>6. t[0] = 0 /\ \A i \in 1..n : t[i] = t[i - 1] + IF i \in c THEN amounts[i] ELSE 0
    BY <1>1, <1>5
<1>7. \A i \in 0..n : t[i] \in Int
    <2> DEFINE T == {k \in Nat : k <= n => t[k] \in Int}
    <2>1. 0 \in T
        BY <1>6
    <2>2. \A k \in T : k + 1 \in T
        <3> SUFFICES ASSUME NEW k \in T, k + 1 <= n PROVE t[k + 1] \in Int
            BY <1>1
        <3>1. t[k] \in Int /\ k + 1 \in 1..n /\ (k + 1) - 1 = k
            BY <1>1
        <3>2. t[k + 1] = t[k] + IF k + 1 \in c THEN amounts[k + 1] ELSE 0
            BY <1>6, <3>1
        <3> QED BY <1>1, <3>1, <3>2
    <2> HIDE DEF T
    <2>3. T = Nat
        BY <2>1, <2>2, SetInduction DEF T
    <2> QED BY <1>1, <2>3 DEF T
<1>8. t \in [0..n -> Int]
    BY <1>5, <1>7
<1> QED BY <1>2, <1>6, <1>8 DEF Totals

\* Disjoint combinations add up; one item counts with its amount, none with nothing.
LEMMA TotalUnion ==
    ASSUME amounts \in Seq(Int), NEW c, NEW d, c \cap d = {}
    PROVE  Total(c) \in Int /\ Total(d) \in Int /\ Total(c \cup d) = Total(c) + Total(d)
<1>1. n \in Nat /\ \A i \in 1..n : amounts[i] \in Int
    BY DEF n
<1>2. PICK t : Totals(t, c)
    BY TotalSums
<1>3. PICK u : Totals(u, d)
    BY TotalSums
<1>4. PICK w : Totals(w, c \cup d)
    BY TotalSums
<1> DEFINE T == {k \in Nat : k <= n => w[k] = t[k] + u[k]}
<1>5. 0 \in T
    BY <1>2, <1>3, <1>4 DEF Totals
<1>6. \A k \in T : k + 1 \in T
    <2> SUFFICES ASSUME NEW k \in T, k + 1 <= n PROVE w[k + 1] = t[k + 1] + u[k + 1]
        BY <1>1
    <2>1. k \in 0..n /\ w[k] = t[k] + u[k] /\ k + 1 \in 1..n /\ (k + 1) - 1 = k
        BY <1>1
    <2>2. t[k] \in Int /\ u[k] \in Int /\ amounts[k + 1] \in Int
        BY <1>1, <1>2, <1>3, <2>1 DEF Totals
    <2>3. k + 1 \notin c \/ k + 1 \notin d
        OBVIOUS
    <2>4. /\ t[k + 1] = t[k] + IF k + 1 \in c THEN amounts[k + 1] ELSE 0
          /\ u[k + 1] = u[k] + IF k + 1 \in d THEN amounts[k + 1] ELSE 0
          /\ w[k + 1] = w[k] + IF k + 1 \in c \cup d THEN amounts[k + 1] ELSE 0
        BY <1>2, <1>3, <1>4, <2>1 DEF Totals
    <2> QED BY <2>1, <2>2, <2>3, <2>4
<1> HIDE DEF T
<1>7. T = Nat
    BY <1>5, <1>6, SetInduction DEF T
<1>8. w[n] = t[n] + u[n]
    BY <1>1, <1>7 DEF T
<1>9. n \in 0..n
    BY <1>1
<1> QED BY <1>2, <1>3, <1>4, <1>8, <1>9 DEF Totals

LEMMA TotalEmpty ==
    ASSUME amounts \in Seq(Int)
    PROVE  Total({}) = 0
<1>1. Total({}) \in Int /\ Total({} \cup {}) = Total({}) + Total({})
    BY TotalUnion
<1>2. {} \cup {} = {}
    OBVIOUS
<1> QED BY <1>1, <1>2

LEMMA TotalSingle ==
    ASSUME amounts \in Seq(Int), NEW j \in 1..n
    PROVE  Total({j}) = amounts[j]
<1>1. n \in Nat /\ \A i \in 1..n : amounts[i] \in Int
    BY DEF n
<1>2. PICK t : Totals(t, {j})
    BY TotalSums
<1> DEFINE T == {k \in Nat : k <= n => t[k] = IF k < j THEN 0 ELSE amounts[j]}
<1>3. 0 \in T
    BY <1>2 DEF Totals
<1>4. \A k \in T : k + 1 \in T
    <2> SUFFICES ASSUME NEW k \in T, k + 1 <= n
                 PROVE  t[k + 1] = IF k + 1 < j THEN 0 ELSE amounts[j]
        BY <1>1
    <2>1. k \in Nat /\ t[k] = (IF k < j THEN 0 ELSE amounts[j])
          /\ k + 1 \in 1..n /\ (k + 1) - 1 = k
        BY <1>1
    <2>2. t[k + 1] = t[k] + IF k + 1 = j THEN amounts[j] ELSE 0
        BY <1>2, <2>1 DEF Totals
    <2> QED BY <1>1, <2>1, <2>2
<1> HIDE DEF T
<1>5. T = Nat
    BY <1>3, <1>4, SetInduction DEF T
<1>6. t[n] = amounts[j]
    BY <1>1, <1>5 DEF T
<1> QED BY <1>2, <1>6 DEF Totals

\* No amount is negative.
Nonnegative == \A i \in 1..n : amounts[i] >= 0

\* Then no total is.
LEMMA TotalNonnegative ==
    ASSUME amounts \in Seq(Int), Nonnegative, NEW c
    PROVE  Total(c) \in Int /\ Total(c) >= 0
<1>1. n \in Nat /\ \A i \in 1..n : amounts[i] \in Int
    BY DEF n
<1>2. PICK t : Totals(t, c)
    BY TotalSums
<1> DEFINE T == {k \in Nat : k <= n => t[k] >= 0}
<1>3. 0 \in T
    BY <1>2 DEF Totals
<1>4. \A k \in T : k + 1 \in T
    <2> SUFFICES ASSUME NEW k \in T, k + 1 <= n PROVE t[k + 1] >= 0
        BY <1>1
    <2>1. t[k] \in Int /\ t[k] >= 0 /\ k + 1 \in 1..n /\ (k + 1) - 1 = k
        BY <1>1, <1>2 DEF Totals
    <2>2. t[k + 1] = t[k] + IF k + 1 \in c THEN amounts[k + 1] ELSE 0
        BY <1>2, <2>1 DEF Totals
    <2> QED BY <1>1, <2>1, <2>2 DEF Nonnegative
<1> HIDE DEF T
<1>5. T = Nat
    BY <1>3, <1>4, SetInduction DEF T
<1>6. t[n] >= 0 /\ n \in 0..n
    BY <1>1, <1>5 DEF T
<1> QED BY <1>2, <1>6 DEF Totals

\* A combination costs at least what any of its parts does.
LEMMA TotalGrows ==
    ASSUME amounts \in Seq(Int), Nonnegative, NEW c, NEW d, c \subseteq d
    PROVE  Total(c) <= Total(d)
<1>1. Total(c \cup (d \ c)) = Total(c) + Total(d \ c) /\ c \cup (d \ c) = d
    BY TotalUnion
<1>2. Total(c) \in Int /\ Total(d \ c) \in Int /\ Total(d \ c) >= 0
    BY TotalNonnegative
<1>3. Total(d) = Total(c) + Total(d \ c)
    BY <1>1, Zenon
<1> QED BY <1>2, <1>3

\* The total of an interval, from its first item on.
LEMMA TotalFrom ==
    ASSUME amounts \in Seq(Int), NEW i \in 1..n
    PROVE  Total(i..n) = amounts[i] + Total((i + 1)..n)
<1>1. n \in Nat
    BY DEF n
<1>2. i..n = {i} \cup ((i + 1)..n) /\ {i} \cap ((i + 1)..n) = {}
    BY <1>1
<1>3. Total({i} \cup ((i + 1)..n)) = Total({i}) + Total((i + 1)..n)
    BY <1>2, TotalUnion
<1> QED BY <1>2, <1>3, TotalSingle, Zenon

\* suffix_max at a position is the total of all items from there on.
LEMMA RestIsTotal ==
    ASSUME amounts \in Seq(Int), NEW i \in 1..(n + 1)
    PROVE  Rest[i] = Total(i..n)
<1>1. n \in Nat
    BY DEF n
<1> DEFINE f == [k \in 1..(n + 1) |-> Total(k..n)]
<1>2. (n + 1)..n = {}
    BY <1>1
<1>3. f = [k \in 1..(n + 1) |-> IF k > n THEN 0 ELSE amounts[k] + f[k + 1]]
    <2>1. ASSUME NEW k \in 1..(n + 1)
          PROVE  f[k] = IF k > n THEN 0 ELSE amounts[k] + f[k + 1]
        <3>1. CASE k > n
            <4>1. k = n + 1
                BY <1>1, <3>1
            <4>2. f[k] = Total((n + 1)..n)
                BY <4>1
            <4> QED BY <1>2, <3>1, <4>2, TotalEmpty
        <3>2. CASE ~ (k > n)
            <4>1. k \in 1..n /\ k + 1 \in 1..(n + 1)
                BY <1>1, <3>2
            <4>2. f[k + 1] = Total((k + 1)..n) /\ f[k] = Total(k..n)
                BY <4>1
            <4> QED BY <3>2, <4>1, <4>2, TotalFrom
        <3> QED BY <3>1, <3>2
    <2> QED BY <2>1
<1> HIDE DEF f
<1>4. Rest = [k \in 1..(n + 1) |-> IF k > n THEN 0 ELSE amounts[k] + Rest[k + 1]]
    BY <1>3, Zenon DEF Rest
<1> DEFINE T == {k \in Nat : k <= n => Rest[n + 1 - k] = Total((n + 1 - k)..n)}
<1>5. 0 \in T
    <2>1. Rest[n + 1] = 0
        BY <1>1, <1>4
    <2> QED BY <1>1, <1>2, <2>1, TotalEmpty
<1>6. \A k \in T : k + 1 \in T
    <2> SUFFICES ASSUME NEW k \in T, k + 1 <= n
                 PROVE  Rest[n + 1 - (k + 1)] = Total((n + 1 - (k + 1))..n)
        BY <1>1
    <2>1. PICK j \in 1..n : j = n + 1 - (k + 1) /\ j + 1 = n + 1 - k /\ j + 1 \in 1..(n + 1)
        BY <1>1
    <2>2. Rest[j + 1] = Total((j + 1)..n)
        BY <1>1, <2>1
    <2>3. Rest[j] = amounts[j] + Rest[j + 1]
        BY <1>1, <1>4, <2>1
    <2>4. Rest[j] = Total(j..n)
        BY <2>1, <2>2, <2>3, TotalFrom
    <2> QED BY <2>1, <2>4
<1> HIDE DEF T
<1>7. T = Nat
    BY <1>5, <1>6, SetInduction DEF T
<1>8. CASE i = n + 1
    <2>1. Rest[i] = 0
        BY <1>1, <1>4, <1>8
    <2> QED BY <1>2, <1>8, <2>1, TotalEmpty
<1>9. CASE i # n + 1
    <2>1. PICK k \in Nat : k <= n /\ n + 1 - k = i
        <3>1. n + 1 - i \in Nat /\ n + 1 - i <= n /\ n + 1 - (n + 1 - i) = i
            BY <1>1
        <3> QED BY <3>1
    <2> QED BY <1>7, <2>1 DEF T
<1> QED BY <1>8, <1>9

\* So it bounds what any combination of the items from there on adds.
LEMMA RestBounds ==
    ASSUME amounts \in Seq(Int), Nonnegative, NEW i \in 1..(n + 1), NEW c, c \subseteq i..n
    PROVE  Total(c) <= Rest[i] /\ Rest[i] \in Int
BY RestIsTotal, TotalGrows, TotalNonnegative

-----------------------------------------------------------------------------
Frame == [next: Nat, picked: SUBSET Nat, total: Int]

\* A combination is ahead of a call that has part of it and comes to the rest.
Ahead(c, f) == f.picked \subseteq c /\ c # f.picked /\ c \ f.picked \subseteq f.next..n

\* The calls on the stack: each knows the total of its items, which precede its
\* position, has one item more than its caller, and holds the item its caller is at.
Frames(s) ==
    /\ s \in Seq(Frame)
    /\ \A k \in 1..Len(s) :
         /\ s[k].next \in 1..(n + 1) /\ s[k].picked \subseteq 1..(s[k].next - 1)
         /\ s[k].total = Total(s[k].picked) /\ Cardinality(s[k].picked) = k - 1
         /\ k <= MaxItems
         /\ \A j \in 1..(k - 1) : s[j].next - 1 \in s[k].picked \ s[j].picked

SetOf(r) == {r[i] : i \in 1..Len(r)}

\* What was found fits, is found once, and lies behind every call.
Sound(s, r) ==
    /\ Frames(s)
    /\ r \in Seq(SUBSET (1..n))
    /\ IsFiniteSet(SetOf(r)) /\ Cardinality(SetOf(r)) = Len(r)
    /\ \A h \in SetOf(r) : Fits(h) /\ \A k \in 1..Len(s) : ~ Ahead(h, s[k])

\* What fits was found, continues what was found, or is ahead of a call.
Covered(s, r) ==
    \A c \in SUBSET (1..n) : Fits(c) =>
        \/ c \in SetOf(r) \/ \E h \in SetOf(r) : Extends(c, h)
        \/ \E k \in 1..Len(s) : Ahead(c, s[k])

Phases ==
    /\ amounts \in Pool /\ amounts \in Seq(Int)
    /\ phase \in {"start", "walk", "rank", "done"}
    /\ (phase = "walk") <=> stack # <<>>
    /\ phase \in {"walk", "rank"} => MaxItems >= 2 /\ Target > 0
    /\ phase = "start" => results = <<>>

\* The search's invariant.
SInv == Phases /\ Sound(stack, results)

CInv ==
    phase # "start" /\ exhausted /\ MaxItems >= 2 /\ Target > 0 => Covered(stack, results)

RankInv ==
    /\ phase = "start" => returned = {}
    /\ phase = "done" => returned \subseteq Found /\ Cut(returned)

-----------------------------------------------------------------------------
\* What a step does to the stack, call by call.
LEMMA StackSteps ==
    ASSUME Frames(stack), stack # <<>>
    PROVE  /\ Len(stack) \in Nat \ {0} /\ Top = stack[Len(stack)] /\ Top \in Frame
           /\ Caller \in Seq(Frame) /\ Len(Caller) = Len(stack) - 1
           /\ \A k \in 1..Len(Caller) : Caller[k] = stack[k]
           /\ NextItem \in Seq(Frame) /\ Len(NextItem) = Len(stack)
           /\ \A k \in 1..(Len(stack) - 1) : NextItem[k] = stack[k]
           /\ NextItem[Len(stack)] = [Top EXCEPT !.next = @ + 1]
<1>1. stack \in Seq(Frame) /\ Len(stack) \in Nat \ {0}
    BY DEF Frames
<1>2. Top = stack[Len(stack)] /\ Top \in Frame
    BY <1>1 DEF Top
<1>3. Caller \in Seq(Frame) /\ Len(Caller) = Len(stack) - 1
      /\ \A k \in 1..Len(Caller) : Caller[k] = stack[k]
    <2>1. PICK m \in Nat : m = Len(stack) - 1
        BY <1>1
    <2>2. \A k \in 1..m : stack[k] \in Frame
        BY <1>1, <2>1
    <2>3. /\ SubSeq(stack, 1, m) \in Seq(Frame)
          /\ Len(SubSeq(stack, 1, m)) = IF 1 <= m THEN m - 1 + 1 ELSE 0
          /\ \A k \in 1..(m - 1 + 1) : SubSeq(stack, 1, m)[k] = stack[1 + k - 1]
        BY <2>2, SubSeqProperties
    <2>4. \A k \in 1..m : SubSeq(stack, 1, m)[k] = stack[k]
        BY <2>3
    <2>5. Caller = SubSeq(stack, 1, m) /\ Len(Caller) = m
        BY <2>1, <2>3 DEF Caller
    <2> QED BY <2>1, <2>3, <2>4, <2>5
<1>4. [Top EXCEPT !.next = @ + 1] \in Frame
    BY <1>2 DEF Frame
<1>5. NextItem = [stack EXCEPT ![Len(stack)] = [Top EXCEPT !.next = @ + 1]]
    BY <1>1 DEF NextItem, Top
<1>6. NextItem \in Seq(Frame) /\ Len(NextItem) = Len(stack)
      /\ (\A k \in 1..(Len(stack) - 1) : NextItem[k] = stack[k])
      /\ NextItem[Len(stack)] = [Top EXCEPT !.next = @ + 1]
    BY <1>1, <1>4, <1>5
<1> QED BY <1>1, <1>2, <1>3, <1>6

\* The item the top call is at, and what it makes of the call's items.
LEMMA PickedFacts ==
    ASSUME amounts \in Seq(Int), Frames(stack), stack # <<>>, ~ Over(Top)
    PROVE  /\ n \in Nat /\ Top.next \in 1..n /\ Top.next \notin Top.picked
           /\ Top.picked \subseteq 1..(Top.next - 1) /\ Picked \in SUBSET (1..n)
           /\ IsFiniteSet(Picked) /\ Cardinality(Picked) = Len(stack)
           /\ Running = Total(Picked) /\ Running \in Int
<1>1. n \in Nat /\ \A i \in 1..n : amounts[i] \in Int
    BY DEF n
<1>2. Len(stack) \in 1..Len(stack) /\ Top = stack[Len(stack)] /\ Len(stack) \in Nat
    BY StackSteps
<1>3. /\ Top.next \in 1..(n + 1) /\ Top.picked \subseteq 1..(Top.next - 1)
      /\ Top.total = Total(Top.picked) /\ Cardinality(Top.picked) = Len(stack) - 1
    BY <1>2 DEF Frames
<1>4. Top.next \in 1..n /\ Top.next \notin Top.picked /\ Picked \in SUBSET (1..n)
    BY <1>1, <1>3 DEF Over, Picked
<1>5. IsFiniteSet(Top.picked)
    <2>1. IsFiniteSet(1..n)
        BY <1>1, FS_Interval
    <2>2. Top.picked \in SUBSET (1..n)
        BY <1>4 DEF Picked
    <2> QED BY <2>1, <2>2, FS_Subset
<1>6. IsFiniteSet(Picked) /\ Cardinality(Picked) = Len(stack)
    <2>1. IsFiniteSet(Top.picked \cup {Top.next})
          /\ Cardinality(Top.picked \cup {Top.next}) = Cardinality(Top.picked) + 1
        BY <1>4, <1>5, FS_AddElement
    <2> QED BY <1>2, <1>3, <2>1 DEF Picked
<1>7. Running = Total(Picked) /\ Running \in Int
    <2>1. Top.picked \cap {Top.next} = {}
        BY <1>4
    <2>2. Total(Top.picked \cup {Top.next}) = Total(Top.picked) + Total({Top.next})
          /\ Total(Top.picked) \in Int
        BY <2>1, TotalUnion
    <2>3. Total({Top.next}) = amounts[Top.next]
        BY <1>4, TotalSingle
    <2> QED BY <1>1, <1>3, <1>4, <2>2, <2>3 DEF Running, Picked
<1> QED BY <1>1, <1>3, <1>4, <1>6, <1>7

-----------------------------------------------------------------------------
\* A call that returns leaves its callers as they are.
LEMMA FramesPop ==
    ASSUME Frames(stack), stack # <<>>
    PROVE  Frames(Caller)
<1>1. /\ Len(stack) \in Nat \ {0} /\ Caller \in Seq(Frame) /\ Len(Caller) = Len(stack) - 1
      /\ \A k \in 1..Len(Caller) : Caller[k] = stack[k]
    BY StackSteps
<1>2. ASSUME NEW k \in 1..Len(Caller)
      PROVE  /\ Caller[k] = stack[k] /\ k \in 1..Len(stack)
             /\ \A j \in 1..(k - 1) : Caller[j] = stack[j]
    BY <1>1
<1> QED BY <1>1, <1>2 DEF Frames

LEMMA FramesNext ==
    ASSUME amounts \in Seq(Int), Frames(stack), stack # <<>>, ~ Over(Top)
    PROVE  Frames(NextItem)
<1>1. /\ Len(stack) \in Nat \ {0} /\ Top = stack[Len(stack)] /\ Top \in Frame
      /\ NextItem \in Seq(Frame) /\ Len(NextItem) = Len(stack)
      /\ \A k \in 1..(Len(stack) - 1) : NextItem[k] = stack[k]
      /\ NextItem[Len(stack)].next = Top.next + 1
      /\ NextItem[Len(stack)].picked = Top.picked /\ NextItem[Len(stack)].total = Top.total
    BY StackSteps DEF Frame
<1>2. n \in Nat /\ Top.next \in 1..n
    BY PickedFacts
<1> SUFFICES ASSUME NEW k \in 1..Len(stack)
             PROVE  /\ NextItem[k].next \in 1..(n + 1)
                    /\ NextItem[k].picked \subseteq 1..(NextItem[k].next - 1)
                    /\ NextItem[k].total = Total(NextItem[k].picked)
                    /\ Cardinality(NextItem[k].picked) = k - 1 /\ k <= MaxItems
                    /\ \A j \in 1..(k - 1) : NextItem[j].next - 1 \in NextItem[k].picked \ NextItem[j].picked
    BY <1>1 DEF Frames
<1>3. /\ stack[k].next \in 1..(n + 1) /\ stack[k].picked \subseteq 1..(stack[k].next - 1)
      /\ stack[k].total = Total(stack[k].picked) /\ Cardinality(stack[k].picked) = k - 1
      /\ k <= MaxItems
      /\ \A j \in 1..(k - 1) : stack[j].next - 1 \in stack[k].picked \ stack[j].picked
    BY DEF Frames
<1>4. NextItem[k].picked = stack[k].picked /\ NextItem[k].total = stack[k].total
      /\ NextItem[k].next = IF k = Len(stack) THEN stack[k].next + 1 ELSE stack[k].next
    <2>1. CASE k = Len(stack)
        BY <1>1, <2>1
    <2>2. CASE k # Len(stack)
        <3>1. NextItem[k] = stack[k]
            BY <1>1, <2>2
        <3> QED BY <2>2, <3>1
    <2> QED BY <2>1, <2>2
<1>5. \A j \in 1..(k - 1) : NextItem[j] = stack[j]
    BY <1>1
<1> QED BY <1>1, <1>2, <1>3, <1>4, <1>5

\* The call for what follows the item the top call is at.
Deeper == [next |-> Top.next + 1, picked |-> Picked, total |-> Running]

LEMMA FramesDescend ==
    ASSUME amounts \in Seq(Int), Frames(stack), stack # <<>>, ~ Over(Top),
           Cardinality(Picked) < MaxItems
    PROVE  /\ Frames(Append(NextItem, Deeper)) /\ Len(Append(NextItem, Deeper)) = Len(stack) + 1
           /\ \A k \in 1..Len(stack) : Append(NextItem, Deeper)[k] = NextItem[k]
           /\ Append(NextItem, Deeper)[Len(stack) + 1] = Deeper
<1> DEFINE s == Append(NextItem, Deeper)
<1>1. /\ n \in Nat /\ Top.next \in 1..n /\ Top.next \notin Top.picked
      /\ Top.picked \subseteq 1..(Top.next - 1) /\ Picked \in SUBSET (1..n)
      /\ Cardinality(Picked) = Len(stack) /\ Running = Total(Picked) /\ Running \in Int
    BY PickedFacts
<1>2. Deeper \in Frame
    BY <1>1 DEF Deeper, Frame
<1>3. Frames(NextItem) /\ NextItem \in Seq(Frame) /\ Len(NextItem) = Len(stack) /\ Len(stack) \in Nat \ {0}
    BY FramesNext, StackSteps
<1>4. s \in Seq(Frame) /\ Len(s) = Len(stack) + 1 /\ s[Len(stack) + 1] = Deeper
      /\ \A k \in 1..Len(stack) : s[k] = NextItem[k]
    BY <1>2, <1>3
<1> HIDE DEF s
<1>5. ASSUME NEW k \in 1..Len(stack)
      PROVE  /\ s[k].next \in 1..(n + 1) /\ s[k].picked \subseteq 1..(s[k].next - 1)
             /\ s[k].total = Total(s[k].picked) /\ Cardinality(s[k].picked) = k - 1
             /\ k <= MaxItems
             /\ \A j \in 1..(k - 1) : s[j].next - 1 \in s[k].picked \ s[j].picked
    <2>1. s[k] = NextItem[k] /\ \A j \in 1..(k - 1) : s[j] = NextItem[j]
        BY <1>3, <1>4
    <2> QED BY <1>3, <2>1 DEF Frames
<1>6. /\ Deeper.next \in 1..(n + 1) /\ Deeper.picked \subseteq 1..(Deeper.next - 1)
      /\ Deeper.total = Total(Deeper.picked) /\ Cardinality(Deeper.picked) = Len(stack)
      /\ Len(stack) + 1 <= MaxItems
    BY <1>1, <1>3, LimitAssumption DEF Deeper, Picked
<1>7. ASSUME NEW j \in 1..Len(stack)
      PROVE  NextItem[j].next - 1 \in Picked \ NextItem[j].picked
    <2>1. CASE j = Len(stack)
        <3>1. NextItem[j] = [Top EXCEPT !.next = @ + 1] /\ Top \in Frame
            BY <2>1, StackSteps
        <3>2. NextItem[j].next = Top.next + 1 /\ NextItem[j].picked = Top.picked
            BY <3>1 DEF Frame
        <3>3. NextItem[j].next - 1 = Top.next
            BY <1>1, <3>2
        <3> QED BY <1>1, <3>2, <3>3 DEF Picked
    <2>2. CASE j # Len(stack)
        <3>1. NextItem[j] = stack[j] /\ j \in 1..(Len(stack) - 1) /\ Top = stack[Len(stack)]
              /\ Len(stack) \in 1..Len(stack)
            BY <1>3, <2>2, StackSteps
        <3>2. stack[j].next - 1 \in stack[Len(stack)].picked \ stack[j].picked
            BY <3>1 DEF Frames
        <3> QED BY <3>1, <3>2 DEF Picked
    <2> QED BY <2>1, <2>2
<1>8. Frames(s)
    <2>1. ASSUME NEW k \in 1..Len(s), k \notin 1..Len(stack)
          PROVE  /\ k = Len(stack) + 1 /\ s[k] = Deeper
                 /\ \A j \in 1..(k - 1) : s[j].next - 1 \in s[k].picked \ s[j].picked
        <3>1. k = Len(stack) + 1 /\ s[k] = Deeper
            BY <1>3, <1>4, <2>1
        <3>2. s[k].picked = Picked /\ \A j \in 1..(k - 1) : s[j] = NextItem[j] /\ j \in 1..Len(stack)
            BY <1>3, <1>4, <3>1 DEF Deeper
        <3> QED BY <1>7, <3>1, <3>2
    <2> QED BY <1>3, <1>4, <1>5, <1>6, <2>1 DEF Frames
<1> QED BY <1>4, <1>8 DEF s

-----------------------------------------------------------------------------
\* What is ahead of a call that moved on, or went one deeper, was ahead before.
LEMMA AheadBefore ==
    ASSUME amounts \in Seq(Int), Frames(stack), stack # <<>>, ~ Over(Top), NEW c
    PROVE  /\ Ahead(c, Deeper) => Ahead(c, Top)
           /\ \A k \in 1..Len(stack) : Ahead(c, NextItem[k]) => Ahead(c, stack[k])
<1>1. n \in Nat /\ Top.next \in 1..n /\ Top.next \notin Top.picked
    BY PickedFacts
<1>2. Ahead(c, Deeper) => Ahead(c, Top)
    BY <1>1 DEF Ahead, Deeper, Picked
<1>3. ASSUME NEW k \in 1..Len(stack), Ahead(c, NextItem[k])
      PROVE  Ahead(c, stack[k])
    <2>1. CASE k = Len(stack)
        <3>1. NextItem[k] = [Top EXCEPT !.next = @ + 1] /\ Top \in Frame /\ Top = stack[k]
            BY <2>1, StackSteps
        <3>2. NextItem[k].next = Top.next + 1 /\ NextItem[k].picked = Top.picked
            BY <3>1 DEF Frame
        <3> QED BY <1>1, <1>3, <3>1, <3>2 DEF Ahead
    <2>2. CASE k # Len(stack)
        <3>1. NextItem[k] = stack[k]
            BY <2>2, StackSteps
        <3> QED BY <1>3, <3>1
    <2> QED BY <2>1, <2>2
<1> QED BY <1>2, <1>3

LEMMA SoundStopped ==
    ASSUME NEW s, NEW r, Sound(s, r)
    PROVE  Sound(<<>>, r)
BY DEF Sound, Frames

LEMMA SoundPop ==
    ASSUME Sound(stack, results), stack # <<>>
    PROVE  Sound(Caller, results)
<1>1. Frames(stack) /\ Frames(Caller)
    BY FramesPop DEF Sound
<1>2. \A k \in 1..Len(Caller) : Caller[k] = stack[k] /\ k \in 1..Len(stack)
    BY <1>1, StackSteps
<1> QED BY <1>1, <1>2 DEF Sound

LEMMA SoundNext ==
    ASSUME amounts \in Seq(Int), Sound(stack, results), stack # <<>>, ~ Over(Top)
    PROVE  Sound(NextItem, results)
<1>1. Frames(stack) /\ Frames(NextItem) /\ Len(NextItem) = Len(stack)
    BY FramesNext, StackSteps DEF Sound
<1>2. \A h : \A k \in 1..Len(stack) : Ahead(h, NextItem[k]) => Ahead(h, stack[k])
    BY <1>1, AheadBefore
<1> QED BY <1>1, <1>2 DEF Sound

LEMMA SoundDescend ==
    ASSUME amounts \in Seq(Int), Sound(stack, results), stack # <<>>, ~ Over(Top),
           Cardinality(Picked) < MaxItems
    PROVE  Sound(Append(NextItem, Deeper), results)
<1> DEFINE s == Append(NextItem, Deeper)
<1>1. Frames(stack) /\ Sound(NextItem, results) /\ Len(NextItem) = Len(stack)
      /\ Len(stack) \in Nat \ {0} /\ Top = stack[Len(stack)]
    BY SoundNext, StackSteps DEF Sound
<1>2. Frames(s) /\ Len(s) = Len(stack) + 1 /\ s[Len(stack) + 1] = Deeper
      /\ \A k \in 1..Len(stack) : s[k] = NextItem[k]
    BY <1>1, FramesDescend
<1> HIDE DEF s
<1>3. ASSUME NEW h \in SetOf(results), NEW k \in 1..Len(s)
      PROVE  ~ Ahead(h, s[k])
    <2>1. CASE k = Len(stack) + 1
        <3>1. ~ Ahead(h, Top)
            BY <1>1 DEF Sound
        <3>2. ~ Ahead(h, Deeper)
            BY <1>1, <3>1, AheadBefore
        <3> QED BY <1>2, <2>1, <3>2
    <2>2. CASE k # Len(stack) + 1
        <3>1. k \in 1..Len(stack) /\ s[k] = NextItem[k]
            BY <1>1, <1>2, <2>2
        <3> QED BY <1>1, <3>1 DEF Sound
    <2> QED BY <2>1, <2>2
<1>4. Sound(s, results)
    BY <1>1, <1>2, <1>3 DEF Sound
<1> QED BY <1>4 DEF s

\* The combination at a hit fits, is behind every call once the top call has moved
\* on, and was ahead of the top call until then.
LEMMA HitFacts ==
    ASSUME amounts \in Seq(Int), Frames(stack), stack # <<>>, ~ Over(Top)
    PROVE  /\ Hit => Fits(Picked)
           /\ Fits(Picked) => Hit
           /\ Ahead(Picked, Top)
           /\ \A k \in 1..Len(stack) : ~ Ahead(Picked, NextItem[k])
<1>1. /\ n \in Nat /\ Top.next \in 1..n /\ Top.next \notin Top.picked
      /\ IsFiniteSet(Picked) /\ Cardinality(Picked) = Len(stack) /\ Running = Total(Picked)
    BY PickedFacts
<1>2. Len(stack) \in Nat \ {0} /\ Len(stack) <= MaxItems /\ Top = stack[Len(stack)] /\ Top \in Frame
    <2>1. Len(stack) \in Nat \ {0} /\ Top = stack[Len(stack)] /\ Top \in Frame
        BY StackSteps
    <2>2. Len(stack) \in 1..Len(stack)
        BY <2>1
    <2> QED BY <2>1, <2>2 DEF Frames
<1>3. (Hit => Fits(Picked)) /\ (Fits(Picked) => Hit)
    BY <1>1, <1>2, LimitAssumption DEF Hit, Fits, Delta
<1>4. Ahead(Picked, Top)
    BY <1>1 DEF Ahead, Picked
<1>5. ASSUME NEW k \in 1..Len(stack)
      PROVE  ~ Ahead(Picked, NextItem[k])
    <2>1. CASE k = Len(stack)
        <3>1. NextItem[k].next = Top.next + 1 /\ NextItem[k].picked = Top.picked
            BY <1>2, <2>1, StackSteps DEF Frame
        <3> QED BY <1>1, <3>1 DEF Ahead, Picked
    <2>2. CASE k # Len(stack)
        <3>1. NextItem[k] = stack[k] /\ k \in 1..(Len(stack) - 1) /\ Len(stack) \in 1..Len(stack)
            BY <1>2, <2>2, StackSteps
        <3>2. stack[k].next - 1 \in Top.picked \ stack[k].picked /\ stack[k].next \in Nat
            BY <1>2, <3>1 DEF Frames
        <3>3. stack[k].next - 1 \in Picked \ stack[k].picked /\ stack[k].next - 1 \notin stack[k].next..n
            BY <1>1, <3>2 DEF Picked
        <3> QED BY <3>1, <3>3 DEF Ahead
    <2> QED BY <2>1, <2>2
<1> QED BY <1>3, <1>4, <1>5

LEMMA SetOfAppend ==
    ASSUME NEW S, NEW r \in Seq(S), NEW c \in S
    PROVE  /\ SetOf(Append(r, c)) = SetOf(r) \cup {c}
           /\ Append(r, c) \in Seq(S) /\ Len(Append(r, c)) = Len(r) + 1
<1>1. /\ Append(r, c) \in Seq(S) /\ Len(Append(r, c)) = Len(r) + 1 /\ Len(r) \in Nat
      /\ Append(r, c)[Len(r) + 1] = c
      /\ \A i \in 1..Len(r) : Append(r, c)[i] = r[i]
    OBVIOUS
<1>2. 1..(Len(r) + 1) = (1..Len(r)) \cup {Len(r) + 1}
    BY <1>1
<1> QED BY <1>1, <1>2 DEF SetOf

LEMMA SoundHit ==
    ASSUME amounts \in Seq(Int), Sound(stack, results), stack # <<>>, ~ Over(Top), Hit
    PROVE  Sound(NextItem, Append(results, Picked))
<1>1. Frames(stack) /\ Sound(NextItem, results) /\ Len(NextItem) = Len(stack)
      /\ Len(stack) \in Nat \ {0} /\ Top = stack[Len(stack)] /\ results \in Seq(SUBSET (1..n))
    BY SoundNext, StackSteps DEF Sound
<1>2. Picked \in SUBSET (1..n) /\ Fits(Picked) /\ Ahead(Picked, Top)
      /\ \A k \in 1..Len(stack) : ~ Ahead(Picked, NextItem[k])
    BY <1>1, PickedFacts, HitFacts
<1>3. /\ SetOf(Append(results, Picked)) = SetOf(results) \cup {Picked}
      /\ Append(results, Picked) \in Seq(SUBSET (1..n))
      /\ Len(Append(results, Picked)) = Len(results) + 1
    BY <1>1, <1>2, SetOfAppend, Zenon
<1>4. Picked \notin SetOf(results)
    BY <1>1, <1>2 DEF Sound
<1>5. IsFiniteSet(SetOf(results)) /\ Cardinality(SetOf(results)) = Len(results)
    BY DEF Sound
<1>6. IsFiniteSet(SetOf(results) \cup {Picked})
      /\ Cardinality(SetOf(results) \cup {Picked}) = Len(results) + 1
    BY <1>4, <1>5, FS_AddElement
<1> QED BY <1>1, <1>2, <1>3, <1>6 DEF Sound

\* The first call: everything that has an item is ahead of it.
FirstCall == <<[next |-> 1, picked |-> {}, total |-> 0]>>

LEMMA SoundStart ==
    ASSUME amounts \in Seq(Int), MaxItems >= 2
    PROVE  /\ Sound(FirstCall, <<>>) /\ Sound(<<>>, <<>>)
           /\ \A c \in SUBSET (1..n) : Fits(c) => Ahead(c, FirstCall[1])
<1>1. n \in Nat
    BY DEF n
<1>2. FirstCall \in Seq(Frame) /\ Len(FirstCall) = 1
      /\ FirstCall[1] = [next |-> 1, picked |-> {}, total |-> 0]
    BY DEF FirstCall, Frame
<1>3. Cardinality({}) = 0 /\ IsFiniteSet({})
    BY FS_EmptySet
<1>4. Frames(FirstCall)
    <2>1. ASSUME NEW k \in 1..Len(FirstCall)
          PROVE  k = 1 /\ FirstCall[k].next = 1 /\ FirstCall[k].picked = {} /\ FirstCall[k].total = 0
                 /\ 1..(k - 1) = {} /\ k <= MaxItems /\ 1 \in 1..(n + 1)
        BY <1>1, <1>2, LimitAssumption
    <2>2. Total({}) = 0
        BY TotalEmpty
    <2>3. ASSUME NEW k \in 1..Len(FirstCall)
          PROVE  /\ FirstCall[k].next \in 1..(n + 1)
                 /\ FirstCall[k].picked \subseteq 1..(FirstCall[k].next - 1)
                 /\ FirstCall[k].total = Total(FirstCall[k].picked)
                 /\ Cardinality(FirstCall[k].picked) = k - 1 /\ k <= MaxItems
                 /\ \A j \in 1..(k - 1) :
                        FirstCall[j].next - 1 \in FirstCall[k].picked \ FirstCall[j].picked
        <3>1. k = 1 /\ FirstCall[k].next = 1 /\ FirstCall[k].picked = {} /\ FirstCall[k].total = 0
              /\ 1..(k - 1) = {} /\ k <= MaxItems /\ 1 \in 1..(n + 1)
            BY <2>1
        <3>2. Cardinality(FirstCall[k].picked) = k - 1
            BY <1>3, <3>1
        <3> QED BY <2>2, <3>1, <3>2
    <2> QED BY <1>2, <2>3 DEF Frames
<1>5. SetOf(<<>>) = {} /\ <<>> \in Seq(SUBSET (1..n)) /\ Len(<<>>) = 0
    BY DEF SetOf
<1>6. Frames(<<>>)
    BY DEF Frames
<1>7. ASSUME NEW c \in SUBSET (1..n), Fits(c)
      PROVE  Ahead(c, FirstCall[1])
    <2>1. Cardinality(c) \in 2..MaxItems
        BY <1>7 DEF Fits
    <2>2. c # {}
        <3>1. 0 \notin 2..MaxItems
            BY LimitAssumption
        <3> QED BY <1>3, <2>1, <3>1, Zenon
    <2>3. FirstCall[1].picked = {} /\ FirstCall[1].next = 1
        BY <1>2
    <2> QED BY <2>2, <2>3 DEF Ahead
<1> QED BY <1>3, <1>4, <1>5, <1>6, <1>7 DEF Sound

-----------------------------------------------------------------------------
\* What is ahead of the top call leaves out its item, or takes just that one, or is
\* ahead of the call for what follows.
LEMMA AheadSplit ==
    ASSUME amounts \in Seq(Int), Frames(stack), stack # <<>>, ~ Over(Top), NEW c, Ahead(c, Top)
    PROVE  Ahead(c, NextItem[Len(stack)]) \/ c = Picked \/ Ahead(c, Deeper)
<1>1. n \in Nat /\ Top.next \in 1..n /\ Top.next \notin Top.picked
    BY PickedFacts
<1>2. NextItem[Len(stack)].next = Top.next + 1 /\ NextItem[Len(stack)].picked = Top.picked
    BY StackSteps DEF Frame
<1>3. CASE Top.next \in c
    BY <1>1, <1>3 DEF Ahead, Deeper, Picked
<1>4. CASE Top.next \notin c
    BY <1>1, <1>2, <1>4 DEF Ahead
<1> QED BY <1>3, <1>4

\* A step that keeps the callers and what was found keeps everything covered if it
\* covers what was ahead of the top call.
LEMMA CoveredStep ==
    ASSUME Frames(stack), stack # <<>>, Covered(stack, results), NEW s, NEW r,
           SetOf(results) \subseteq SetOf(r),
           \A k \in 1..(Len(stack) - 1) : k \in 1..Len(s) /\ s[k] = stack[k],
           \A c \in SUBSET (1..n) : Fits(c) /\ Ahead(c, Top) =>
               \/ c \in SetOf(r) \/ \E h \in SetOf(r) : Extends(c, h)
               \/ \E k \in 1..Len(s) : Ahead(c, s[k])
    PROVE  Covered(s, r)
<1>1. Len(stack) \in Nat \ {0} /\ Top = stack[Len(stack)]
    BY StackSteps
<1> SUFFICES ASSUME NEW c \in SUBSET (1..n), Fits(c)
             PROVE  \/ c \in SetOf(r) \/ \E h \in SetOf(r) : Extends(c, h)
                    \/ \E k \in 1..Len(s) : Ahead(c, s[k])
    BY DEF Covered
<1>2. CASE c \in SetOf(results) \/ \E h \in SetOf(results) : Extends(c, h)
    BY <1>2
<1>3. ASSUME NEW k \in 1..Len(stack), Ahead(c, stack[k])
      PROVE  \/ c \in SetOf(r) \/ \E h \in SetOf(r) : Extends(c, h)
             \/ \E m \in 1..Len(s) : Ahead(c, s[m])
    <2>1. CASE k = Len(stack)
        BY <1>1, <1>3, <2>1
    <2>2. CASE k # Len(stack)
        <3>1. k \in 1..Len(s) /\ s[k] = stack[k]
            BY <1>1, <2>2
        <3> QED BY <1>3, <3>1
    <2> QED BY <2>1, <2>2
<1> QED BY <1>2, <1>3 DEF Covered

\* A call at its end has nothing ahead.
LEMMA CoveredEnd ==
    ASSUME amounts \in Seq(Int), Frames(stack), stack # <<>>, Covered(stack, results), Over(Top)
    PROVE  Covered(Caller, results)
<1>1. /\ Len(stack) \in Nat \ {0} /\ Len(Caller) = Len(stack) - 1 /\ Top \in Frame
      /\ \A k \in 1..Len(Caller) : Caller[k] = stack[k]
    BY StackSteps
<1>2. n \in Nat
    BY DEF n
<1>3. ASSUME NEW c, Ahead(c, Top)
      PROVE  FALSE
    <2>1. Top.next \in Nat /\ Top.next..n = {}
        BY <1>1, <1>2 DEF Over, Frame
    <2> QED BY <1>3, <2>1 DEF Ahead
<1> QED BY <1>1, <1>3, CoveredStep

\* Nor has one whose item is too large, as those after it are no smaller.
LEMMA CoveredBreak ==
    ASSUME amounts \in Pool, Nonnegative, Frames(stack), stack # <<>>,
           Covered(stack, results), ~ Over(Top), TooLarge
    PROVE  Covered(Caller, results)
<1>1. /\ Len(stack) \in Nat \ {0} /\ Len(Caller) = Len(stack) - 1 /\ Top \in Frame
      /\ Top = stack[Len(stack)] /\ \A k \in 1..Len(Caller) : Caller[k] = stack[k]
    BY StackSteps
<1>2. amounts \in Seq(Int) /\ \A i, j \in 1..n : i <= j => amounts[i] <= amounts[j]
    BY PoolAssumption DEF n
<1>3. n \in Nat /\ Top.next \in 1..n /\ \A i \in 1..n : amounts[i] \in Int
    BY <1>2, PickedFacts DEF n
<1>4. Top.picked \subseteq 1..(Top.next - 1) /\ Top.total = Total(Top.picked)
    <2>1. Len(stack) \in 1..Len(stack)
        BY <1>1
    <2> QED BY <1>1, <2>1 DEF Frames
<1>5. ASSUME NEW c \in SUBSET (1..n), Fits(c), Ahead(c, Top)
      PROVE  FALSE
    <2>1. PICK i \in c : i \in Top.next..n /\ i \notin Top.picked
        BY <1>5 DEF Ahead
    <2>2. i \in 1..n /\ Top.next <= i
        BY <1>3, <2>1
    <2>3. Top.picked \cap {i} = {} /\ Top.picked \cup {i} \subseteq c
        BY <1>5, <2>1 DEF Ahead
    <2>4. Total(Top.picked \cup {i}) = Total(Top.picked) + Total({i})
        BY <1>2, <2>3, TotalUnion
    <2>5. Total(Top.picked \cup {i}) = Top.total + amounts[i]
        BY <1>2, <1>4, <2>2, <2>4, TotalSingle
    <2>6. Total(Top.picked \cup {i}) <= Total(c)
        BY <1>2, <2>3, TotalGrows
    <2>7. amounts[Top.next] <= amounts[i] /\ amounts[i] \in Int /\ amounts[Top.next] \in Int
        BY <1>2, <1>3, <2>2
    <2>8. Total(c) \in Int /\ Top.total \in Int
        BY <1>1, <1>2, TotalNonnegative DEF Frame
    <2>9. Total(c) > Target + Tolerance
        BY <2>5, <2>6, <2>7, <2>8, LimitAssumption DEF TooLarge, Running
    <2>10. Abs(Total(c) - Target) <= Tolerance
        BY <1>5 DEF Fits, Delta
    <2> QED BY <2>8, <2>9, <2>10, LimitAssumption DEF Abs
<1> QED BY <1>1, <1>5, CoveredStep

\* A hit covers itself and what continues it.
LEMMA CoveredHit ==
    ASSUME amounts \in Seq(Int), Sound(stack, results), stack # <<>>,
           Covered(stack, results), ~ Over(Top)
    PROVE  Covered(NextItem, Append(results, Picked))
<1>1. Frames(stack) /\ Len(NextItem) = Len(stack) /\ Len(stack) \in Nat \ {0}
      /\ (\A k \in 1..(Len(stack) - 1) : NextItem[k] = stack[k])
      /\ results \in Seq(SUBSET (1..n))
    BY StackSteps DEF Sound
<1>2. n \in Nat /\ Top.next \in 1..n /\ Picked \in SUBSET (1..n)
      /\ Top.picked \subseteq 1..(Top.next - 1)
    BY <1>1, PickedFacts
<1>3. SetOf(Append(results, Picked)) = SetOf(results) \cup {Picked}
    BY <1>1, <1>2, SetOfAppend, Zenon
<1>4. ASSUME NEW c \in SUBSET (1..n), Ahead(c, Top)
      PROVE  c = Picked \/ Extends(c, Picked) \/ Ahead(c, NextItem[Len(stack)])
    <2>1. CASE Ahead(c, Deeper)
        <3>1. Picked \subseteq c /\ c # Picked /\ c \ Picked \subseteq (Top.next + 1)..n
            BY <2>1 DEF Ahead, Deeper
        <3>2. \A j \in Picked : j \in Int /\ j <= Top.next
            BY <1>2 DEF Picked
        <3>3. \A i \in c \ Picked, j \in Picked : j < i
            BY <1>2, <3>1, <3>2
        <3> QED BY <3>1, <3>3 DEF Extends
    <2> QED BY <1>1, <1>4, <2>1, AheadSplit
<1> DEFINE r == Append(results, Picked)
<1>5. Len(stack) \in 1..Len(NextItem)
      /\ \A k \in 1..(Len(stack) - 1) : k \in 1..Len(NextItem) /\ NextItem[k] = stack[k]
    BY <1>1
<1>6. SetOf(results) \subseteq SetOf(r) /\ Picked \in SetOf(r)
    BY <1>3
<1> HIDE DEF r
<1>7. ASSUME NEW c \in SUBSET (1..n), Fits(c) /\ Ahead(c, Top)
      PROVE  \/ c \in SetOf(r) \/ \E h \in SetOf(r) : Extends(c, h)
             \/ \E k \in 1..Len(NextItem) : Ahead(c, NextItem[k])
    BY <1>4, <1>5, <1>6, <1>7
<1>8. Covered(NextItem, r)
    BY <1>1, <1>5, <1>6, <1>7, CoveredStep
<1> QED BY <1>8 DEF r

\* A combination that fits and goes on from an item that is no hit is ahead of the
\* call for what follows.
LEMMA CoveredDescend ==
    ASSUME amounts \in Seq(Int), Frames(stack), stack # <<>>, Covered(stack, results),
           ~ Over(Top), ~ Hit, Cardinality(Picked) < MaxItems
    PROVE  Covered(Append(NextItem, Deeper), results)
<1> DEFINE s == Append(NextItem, Deeper)
<1>1. Len(stack) \in Nat \ {0} /\ \A k \in 1..(Len(stack) - 1) : NextItem[k] = stack[k]
    BY StackSteps
<1>2. Len(s) = Len(stack) + 1 /\ s[Len(stack) + 1] = Deeper
      /\ \A k \in 1..Len(stack) : s[k] = NextItem[k]
    BY FramesDescend
<1> HIDE DEF s
<1>3. Len(stack) \in 1..Len(s) /\ Len(stack) + 1 \in 1..Len(s) /\ s[Len(stack)] = NextItem[Len(stack)]
      /\ \A k \in 1..(Len(stack) - 1) : k \in 1..Len(s) /\ s[k] = stack[k]
    BY <1>1, <1>2
<1>4. ASSUME NEW c \in SUBSET (1..n), Fits(c), Ahead(c, Top)
      PROVE  \E k \in 1..Len(s) : Ahead(c, s[k])
    <2>1. c # Picked
        BY <1>4, HitFacts
    <2> QED BY <1>2, <1>3, <1>4, <2>1, AheadSplit
<1>5. Covered(s, results)
    BY <1>3, <1>4, CoveredStep
<1> QED BY <1>5 DEF s

\* And there is none where the branch cannot get to the target.
LEMMA CoveredSkip ==
    ASSUME amounts \in Seq(Int), Nonnegative, Frames(stack), stack # <<>>,
           Covered(stack, results), ~ Over(Top), ~ Hit, ~ Reachable
    PROVE  Covered(NextItem, results)
<1>1. Len(stack) \in Nat \ {0} /\ Len(NextItem) = Len(stack)
      /\ \A k \in 1..(Len(stack) - 1) : NextItem[k] = stack[k]
    BY StackSteps
<1>2. n \in Nat /\ Top.next \in 1..n /\ IsFiniteSet(Picked) /\ Cardinality(Picked) = Len(stack)
      /\ Running = Total(Picked) /\ Running \in Int
    BY PickedFacts
<1>3. ASSUME NEW c \in SUBSET (1..n), Fits(c), Ahead(c, Deeper)
      PROVE  FALSE
    <2>1. Picked \subseteq c /\ c # Picked /\ c \ Picked \subseteq (Top.next + 1)..n
        BY <1>3 DEF Ahead, Deeper
    <2>2. IsFiniteSet(c)
        <3>1. IsFiniteSet(1..n)
            BY <1>2, FS_Interval
        <3> QED BY <3>1, FS_Subset
    <2>3. Cardinality(Picked) < MaxItems
        <3>1. Cardinality(Picked) <= Cardinality(c) /\ Cardinality(Picked) # Cardinality(c)
            BY <2>1, <2>2, FS_Subset
        <3>2. Cardinality(c) \in 2..MaxItems
            BY <1>3 DEF Fits
        <3> QED BY <1>1, <1>2, <3>1, <3>2, LimitAssumption
    <2>4. Total(c) = Total(Picked) + Total(c \ Picked) /\ Total(c \ Picked) \in Int
        <3>1. Picked \cap (c \ Picked) = {} /\ Picked \cup (c \ Picked) = c
            BY <2>1
        <3>2. Total(Picked \cup (c \ Picked)) = Total(Picked) + Total(c \ Picked)
              /\ Total(c \ Picked) \in Int
            BY <3>1, TotalUnion
        <3> QED BY <3>1, <3>2, Zenon
    <2>5. Top.next + 1 \in 1..(n + 1)
        BY <1>2
    <2>6. Total(c \ Picked) <= Rest[Top.next + 1] /\ Rest[Top.next + 1] \in Int
        BY <2>1, <2>5, RestBounds
    <2>7. Running + Rest[Top.next + 1] < Target - Tolerance
        BY <1>2, <2>3, <2>6, LimitAssumption DEF Reachable
    <2>8. Abs(Total(c) - Target) <= Tolerance
        BY <1>3 DEF Fits, Delta
    <2>9. Total(c) \in Int /\ Total(c) < Target - Tolerance
        BY <1>2, <2>4, <2>6, <2>7, LimitAssumption
    <2> QED BY <2>8, <2>9, LimitAssumption DEF Abs
<1>4. ASSUME NEW c \in SUBSET (1..n), Fits(c), Ahead(c, Top)
      PROVE  Ahead(c, NextItem[Len(stack)])
    <2>1. c # Picked
        BY <1>4, HitFacts
    <2> QED BY <1>3, <1>4, <2>1, AheadSplit
<1>5. Len(stack) \in 1..Len(NextItem)
    BY <1>1
<1> QED BY <1>1, <1>4, <1>5, CoveredStep

-----------------------------------------------------------------------------
\* The pool is the input of the search: sums, positions and what fits stay.
LEMMA SamePool ==
    ASSUME UNCHANGED pool
    PROVE  /\ n' = n /\ \A c : Total(c)' = Total(c)
           /\ \A c : Fits(c)' <=> Fits(c)
           /\ \A c, f : Ahead(c, f)' <=> Ahead(c, f)
           /\ (Nonnegative)' <=> Nonnegative
<1>1. amounts' = amounts /\ n' = n
    BY DEF pool, n
<1>2. ASSUME NEW c
      PROVE  Total(c)' = Total(c)
    BY <1>1 DEF Total
<1>3. ASSUME NEW c
      PROVE  Fits(c)' <=> Fits(c)
    BY <1>2 DEF Fits, Delta
<1>4. ASSUME NEW c, NEW f
      PROVE  Ahead(c, f)' <=> Ahead(c, f)
    BY <1>1 DEF Ahead
<1>5. (Nonnegative)' <=> Nonnegative
    BY <1>1 DEF Nonnegative
<1> QED BY <1>1, <1>2, <1>3, <1>4, <1>5

LEMMA SoundPrime ==
    ASSUME UNCHANGED pool, Sound(stack', results')
    PROVE  Sound(stack, results)'
<1>1. Frames(stack)'
    BY SamePool DEF Sound, Frames
<1>2. (results \in Seq(SUBSET (1..n)))'
    BY SamePool DEF Sound
<1> QED BY <1>1, <1>2, SamePool DEF Sound, SetOf

LEMMA CoveredPrime ==
    ASSUME UNCHANGED pool, Covered(stack', results')
    PROVE  Covered(stack, results)'
BY SamePool DEF Covered, SetOf, Extends

LEMMA InitHolds ==
    ASSUME Init
    PROVE  SInv /\ CInv /\ RankInv
<1>1. amounts \in Pool /\ amounts \in Seq(Int)
    BY PoolAssumption DEF Init
<1>2. Phases
    BY <1>1 DEF Init, Phases
<1>3. SetOf(<<>>) = {} /\ <<>> \in Seq(SUBSET (1..n)) /\ Len(<<>>) = 0 /\ Frames(<<>>)
    BY DEF SetOf, Frames
<1>4. Cardinality({}) = 0 /\ IsFiniteSet({})
    BY FS_EmptySet
<1>5. Sound(<<>>, <<>>)
    BY <1>3, <1>4 DEF Sound
<1> QED BY <1>2, <1>5 DEF Init, SInv, CInv, RankInv

\* What every turn of the loop relies on.
LEMMA Walking ==
    ASSUME SInv, phase = "walk"
    PROVE  /\ amounts \in Pool /\ amounts \in Seq(Int) /\ stack # <<>>
           /\ Sound(stack, results) /\ Frames(stack) /\ MaxItems >= 2 /\ Target > 0
BY DEF SInv, Phases, Sound

\* A call that returns leaves the loop to its caller, or to the ranking.
LEMMA Returns ==
    ASSUME SInv, phase = "walk", Return, UNCHANGED <<pool, results>>
    PROVE  Phases' /\ stack' = Caller /\ phase' \in {"walk", "rank"}
<1>1. stack # <<>> /\ Frames(stack) /\ MaxItems >= 2 /\ Target > 0
      /\ amounts \in Pool /\ amounts \in Seq(Int)
    BY Walking
<1>2. Len(stack) \in Nat \ {0} /\ Caller \in Seq(Frame) /\ Len(Caller) = Len(stack) - 1
    BY <1>1, StackSteps
<1>3. stack' = Caller /\ phase' = IF Len(stack) = 1 THEN "rank" ELSE "walk"
    BY DEF Return
<1>4. (phase' = "walk") <=> (stack' # <<>>)
    BY <1>2, <1>3
<1> QED BY <1>1, <1>3, <1>4 DEF Phases, pool

\* Every step keeps what was found sound.
LEMMA SoundSteps ==
    ASSUME SInv, Next
    PROVE  SInv'
<1> USE DEF SInv
<1>1. UNCHANGED pool
    BY DEF Next, StartNothing, Start, LoopEnds, BudgetSpent, Break, Collect, Descend, Skip, Rank
<1>2. SUFFICES Phases' /\ Sound(stack', results')
    BY <1>1, SoundPrime
<1>3. CASE StartNothing
    BY <1>3 DEF StartNothing, Phases, pool
<1>4. CASE Start
    <2>1. results' = <<>> /\ stack' = FirstCall /\ amounts \in Seq(Int) /\ MaxItems \in Nat
          /\ amounts \in Pool /\ Target \in Int /\ ~ (MaxItems < 2) /\ ~ (Target <= 0)
          /\ phase' = "walk"
        BY <1>4, LimitAssumption DEF Start, Phases, FirstCall
    <2>2. MaxItems >= 2 /\ Target > 0
        BY <2>1
    <2>3. Sound(FirstCall, <<>>)
        BY <2>1, <2>2, SoundStart
    <2>4. FirstCall # <<>>
        BY DEF FirstCall
    <2>5. amounts' = amounts
        BY <1>1 DEF pool
    <2> QED BY <2>1, <2>2, <2>3, <2>4, <2>5 DEF Phases
<1>5. CASE LoopEnds
    <2>1. phase = "walk" /\ Return /\ UNCHANGED <<pool, results>>
        BY <1>5 DEF LoopEnds
    <2> QED BY <2>1, Returns, SoundPop, Walking
<1>6. CASE BudgetSpent
    <2>1. phase = "walk" /\ results' = results /\ stack' = <<>> /\ phase' = "rank" /\ amounts' = amounts
        BY <1>1, <1>6 DEF BudgetSpent, Stop, pool
    <2>2. Sound(<<>>, results)
        BY <2>1, SoundStopped, Walking
    <2> QED BY <2>1, <2>2, Walking DEF Phases
<1>7. CASE Break
    <2>1. phase = "walk" /\ Return /\ UNCHANGED <<pool, results>>
        BY <1>7 DEF Break, Node
    <2> QED BY <2>1, Returns, SoundPop, Walking
<1>8. CASE Collect
    <2>1. phase = "walk" /\ results' = Append(results, Picked) /\ ~ Over(Top) /\ Hit /\ amounts' = amounts
        BY <1>1, <1>8 DEF Collect, Node, pool
    <2>2. Sound(NextItem, Append(results, Picked))
        BY <2>1, Walking, SoundHit
    <2>3. CASE Stop
        <3>1. stack' = <<>> /\ phase' = "rank"
            BY <2>3 DEF Stop
        <3>2. Sound(<<>>, Append(results, Picked))
            BY <2>2, SoundStopped
        <3> QED BY <2>1, <3>1, <3>2, Walking DEF Phases
    <2>4. CASE stack' = NextItem /\ UNCHANGED phase
        <3>1. NextItem # <<>>
            BY <2>1, Walking, StackSteps
        <3> QED BY <2>1, <2>2, <2>4, <3>1, Walking DEF Phases
    <2> QED BY <1>8, <2>3, <2>4 DEF Collect
<1>9. CASE Descend
    <2>1. phase = "walk" /\ results' = results /\ ~ Over(Top) /\ amounts' = amounts
          /\ Cardinality(Picked) < MaxItems /\ stack' = Append(NextItem, Deeper) /\ phase' = phase
        BY <1>1, <1>9 DEF Descend, Node, Reachable, Deeper, pool
    <2>2. Sound(Append(NextItem, Deeper), results)
        BY <2>1, Walking, SoundDescend
    <2>3. Append(NextItem, Deeper) # <<>>
        BY <2>1, Walking, FramesDescend, StackSteps
    <2> QED BY <2>1, <2>2, <2>3, Walking DEF Phases
<1>10. CASE Skip
    <2>1. phase = "walk" /\ results' = results /\ ~ Over(Top) /\ amounts' = amounts
          /\ stack' = NextItem /\ phase' = phase
        BY <1>1, <1>10 DEF Skip, Node, pool
    <2>2. Sound(NextItem, results)
        BY <2>1, Walking, SoundNext
    <2>3. NextItem # <<>>
        BY <2>1, Walking, StackSteps
    <2> QED BY <2>1, <2>2, <2>3, Walking DEF Phases
<1>11. CASE Rank
    BY <1>11 DEF Rank, Phases, pool
<1> QED BY <1>3, <1>4, <1>5, <1>6, <1>7, <1>8, <1>9, <1>10, <1>11 DEF Next

\* What the search reports fits, and nothing is reported twice: for all amounts,
\* negative ones too (subset_sum.py 62-168).
THEOREM FoundFit == Spec => []FoundFits
<1>1. Init => SInv
    BY InitHolds
<1>2. SInv /\ [Next]_vars => SInv'
    <2>1. SUFFICES ASSUME SInv, UNCHANGED vars PROVE SInv'
        BY SoundSteps
    <2>2. UNCHANGED pool /\ Sound(stack', results')
        BY <2>1 DEF vars, SInv
    <2> QED BY <2>1, <2>2, SoundPrime DEF SInv, Phases, vars, pool
<1>3. SInv => FoundFits
    <2>1. Found = SetOf(results)
        BY DEF Found, SetOf
    <2> QED BY <2>1 DEF SInv, Sound, FoundFits
<1> QED BY <1>1, <1>2, <1>3, PTL DEF Spec

-----------------------------------------------------------------------------
\* Without negative amounts every step keeps what fits covered, as long as the search
\* was not stopped.
LEMMA CoveredSteps ==
    ASSUME SInv, CInv, Nonnegative, Next
    PROVE  CInv'
<1>1. UNCHANGED pool
    BY DEF Next, StartNothing, Start, LoopEnds, BudgetSpent, Break, Collect, Descend, Skip, Rank
<1>2. SUFFICES ASSUME phase' # "start", exhausted', MaxItems >= 2, Target > 0
               PROVE  Covered(stack', results')
    BY <1>1, CoveredPrime DEF CInv
<1>3. ASSUME phase # "start", exhausted
      PROVE  Covered(stack, results)
    BY <1>2, <1>3 DEF CInv
<1>4. CASE StartNothing
    <2>1. n = 0
        BY <1>2, <1>4, LimitAssumption DEF StartNothing
    <2>2. ASSUME NEW c \in SUBSET (1..n), Fits(c)
          PROVE  FALSE
        <3>1. c = {} /\ Cardinality(c) \in 2..MaxItems
            BY <2>1, <2>2 DEF Fits
        <3>2. 0 \notin 2..MaxItems /\ Cardinality({}) = 0
            BY FS_EmptySet, LimitAssumption
        <3> QED BY <3>1, <3>2, Zenon
    <2> QED BY <2>2 DEF Covered
<1>5. CASE Start
    <2>1. stack' = FirstCall /\ amounts \in Seq(Int)
        BY <1>5 DEF Start, SInv, Phases, FirstCall
    <2>2. \A c \in SUBSET (1..n) : Fits(c) => Ahead(c, FirstCall[1])
        BY <1>2, <2>1, SoundStart
    <2>3. 1 \in 1..Len(FirstCall)
        BY DEF FirstCall
    <2> QED BY <2>1, <2>2, <2>3 DEF Covered
<1>6. CASE LoopEnds
    <2>1. phase = "walk" /\ Over(Top) /\ exhausted /\ stack' = Caller /\ results' = results
        BY <1>2, <1>6 DEF LoopEnds, Return
    <2> QED BY <1>3, <2>1, Walking, CoveredEnd
<1>7. CASE BudgetSpent
    BY <1>2, <1>7 DEF BudgetSpent, Stop
<1>8. CASE Break
    <2>1. phase = "walk" /\ ~ Over(Top) /\ TooLarge /\ exhausted /\ stack' = Caller /\ results' = results
        BY <1>2, <1>8 DEF Break, Node, Return
    <2> QED BY <1>3, <2>1, Walking, CoveredBreak
<1>9. CASE Collect
    <2>1. phase = "walk" /\ ~ Over(Top) /\ exhausted /\ stack' = NextItem
          /\ results' = Append(results, Picked)
        BY <1>2, <1>9 DEF Collect, Node, Stop
    <2> QED BY <1>3, <2>1, Walking, CoveredHit
<1>10. CASE Descend
    <2>1. phase = "walk" /\ ~ Over(Top) /\ exhausted /\ stack' = Append(NextItem, Deeper)
          /\ results' = results /\ ~ Hit /\ Cardinality(Picked) < MaxItems
        BY <1>2, <1>10 DEF Descend, Node, Reachable, Deeper
    <2> QED BY <1>3, <2>1, Walking, CoveredDescend
<1>11. CASE Skip
    <2>1. phase = "walk" /\ ~ Over(Top) /\ exhausted /\ stack' = NextItem
          /\ results' = results /\ ~ Hit /\ ~ Reachable
        BY <1>2, <1>11 DEF Skip, Node
    <2> QED BY <1>3, <2>1, Walking, CoveredSkip
<1>12. CASE Rank
    <2>1. phase = "rank" /\ exhausted /\ stack' = stack /\ results' = results
        BY <1>2, <1>12 DEF Rank
    <2> QED BY <1>3, <2>1
<1> QED BY <1>4, <1>5, <1>6, <1>7, <1>8, <1>9, <1>10, <1>11, <1>12 DEF Next

\* The ranking is a cut of what was found, and stays one.
LEMMA SameCut ==
    ASSUME UNCHANGED <<pool, results>>, NEW kept
    PROVE  (Cut(kept))' <=> Cut(kept)
<1>1. Found' = Found
    BY DEF Found
<1>2. ASSUME NEW c, NEW d
      PROVE  Better(c, d)' <=> Better(c, d)
    <2>1. Total(c)' = Total(c) /\ Total(d)' = Total(d)
        BY SamePool
    <2> QED BY <2>1 DEF Better, Delta, Cohort, pool
<1> QED BY <1>1, <1>2 DEF Cut

LEMMA RankSteps ==
    ASSUME SInv, RankInv, Next
    PROVE  RankInv'
<1>1. CASE StartNothing
    <2>1. phase' = "done" /\ returned = {} /\ results = <<>> /\ UNCHANGED <<pool, results, returned>>
        BY <1>1 DEF StartNothing, RankInv, SInv, Phases
    <2>2. Found = {} /\ Cardinality({}) = 0 /\ Len(<<>>) = 0
        BY <2>1, FS_EmptySet DEF Found
    <2>3. Cut({})
        BY <2>1, <2>2, LimitAssumption DEF Cut
    <2>4. (Cut({}))'
        BY <2>1, <2>3, SameCut
    <2> QED BY <2>1, <2>4 DEF RankInv
<1>2. CASE Rank
    <2>1. PICK kept \in SUBSET Found : Cut(kept) /\ returned' = kept
        BY <1>2 DEF Rank
    <2>2. phase' = "done" /\ UNCHANGED <<pool, results>> /\ Found' = Found
        BY <1>2 DEF Rank, Found
    <2>3. (Cut(kept))'
        BY <2>1, <2>2, SameCut
    <2> QED BY <2>1, <2>2, <2>3 DEF RankInv
<1>3. CASE Start
    BY <1>3 DEF Start, RankInv
<1>4. CASE LoopEnds \/ BudgetSpent \/ Break \/ Collect \/ Descend \/ Skip
    <2>1. phase' # "start" /\ phase' # "done"
        BY <1>4 DEF LoopEnds, BudgetSpent, Break, Collect, Descend, Skip, Return, Stop, Node
    <2> QED BY <2>1 DEF RankInv
<1> QED BY <1>1, <1>2, <1>3, <1>4 DEF Next

\* The search's whole invariant, without negative amounts.
SearchInv == SInv /\ CInv /\ RankInv /\ Nonnegative

LEMMA SearchInvHolds ==
    ASSUME NoNegative
    PROVE  Spec => []SearchInv
<1>1. Init => SearchInv
    BY InitHolds DEF NoNegative, Nonnegative, Init, n, SearchInv
<1>2. SearchInv /\ [Next]_vars => SearchInv'
    <2>1. CASE UNCHANGED vars
        <3>1. SUFFICES ASSUME SearchInv PROVE SearchInv'
            BY <2>1
        <3>2. UNCHANGED pool /\ UNCHANGED <<pool, results>> /\ stack' = stack /\ results' = results
              /\ phase' = phase /\ returned' = returned /\ exhausted' = exhausted
            BY <2>1 DEF vars
        <3>3. SInv'
            BY <3>1, <3>2, SoundPrime DEF SInv, Phases, pool, SearchInv
        <3>4. CInv'
            BY <3>1, <3>2, CoveredPrime DEF CInv, SearchInv
        <3>5. RankInv'
            <4>1. Found' = Found
                BY <3>2 DEF Found
            <4>2. PICK kept : kept = returned
                OBVIOUS
            <4>3. (Cut(kept))' <=> Cut(kept)
                BY <3>2, SameCut
            <4> QED BY <3>1, <3>2, <4>1, <4>2, <4>3 DEF RankInv, SearchInv
        <3> QED BY <3>1, <3>2, <3>3, <3>4, <3>5, SamePool DEF SearchInv
    <2>2. CASE Next
        <3>1. UNCHANGED pool
            BY <2>2 DEF Next, StartNothing, Start, LoopEnds, BudgetSpent, Break, Collect,
                        Descend, Skip, Rank
        <3> QED BY <2>2, <3>1, SamePool, SoundSteps, CoveredSteps, RankSteps DEF SearchInv
    <2> QED BY <2>1, <2>2
<1> QED BY <1>1, <1>2, PTL DEF Spec

\* What a finished search that was not stopped overlooked: nothing.
LEMMA Complete ==
    ASSUME SearchInv
    PROVE  NothingOverlooked
<1>1. Found = SetOf(results)
    BY DEF Found, SetOf
<1> SUFFICES ASSUME phase = "done", exhausted, MaxItems >= 2, Target > 0,
                    NEW c \in SUBSET (1..n), Fits(c)
             PROVE  c \in Found \/ \E h \in Found : Extends(c, h)
    BY DEF NothingOverlooked
<1>2. Covered(<<>>, results)
    BY DEF SearchInv, SInv, CInv, Phases
<1> QED BY <1>1, <1>2 DEF Covered

\* A search that was not stopped found every combination that fits, but those that
\* continue one it found, if no amount is negative (subset_sum.py 19-22, 55, 140-141).
THEOREM OverlooksNothing ==
    ASSUME NoNegative
    PROVE  Spec => []NothingOverlooked
BY SearchInvHolds, Complete, PTL

\* And the cut keeps the best of them: what is left out is no better than what is
\* returned, and was left out for want of room (subset_sum.py 73-77, 155-167).
THEOREM DropsNothingBetter ==
    ASSUME NoNegative
    PROVE  Spec => []NothingBetterDropped
<1>1. ASSUME SearchInv
      PROVE  NothingBetterDropped
    <2> SUFFICES ASSUME phase = "done", exhausted, NEW c \in SUBSET (1..n), Fits(c),
                        \A h \in Found : ~ Extends(c, h), MaxItems >= 2, Target > 0,
                        c \notin returned
                 PROVE  Cardinality(returned) >= MaxResults /\ \A r \in returned : ~ Better(c, r)
        BY LimitAssumption DEF NothingBetterDropped
    <2>1. c \in Found
        BY <1>1, Complete DEF NothingOverlooked
    <2>2. returned \subseteq Found /\ Cut(returned)
        BY <1>1 DEF SearchInv, RankInv
    <2>3. IsFiniteSet(Found) /\ Cardinality(Found) = Len(results) /\ results \in Seq(SUBSET (1..n))
        BY <1>1 DEF SearchInv, SInv, Sound, SetOf, Found
    <2>4. Cardinality(returned) # Cardinality(Found)
        BY <2>1, <2>2, <2>3, FS_Subset
    <2> QED BY <2>1, <2>2, <2>3, <2>4, LimitAssumption DEF Cut
<1> QED BY <1>1, SearchInvHolds, PTL
=============================================================================
