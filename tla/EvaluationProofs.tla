--------------------------- MODULE EvaluationProofs ---------------------------
(***************************************************************************)
(* Proofs about the golden set, the wrong references and the evaluations,   *)
(* for any mixes, quotas, floor and commits. The invariants of the          *)
(* generator say what is drawn of each class and which numbers are taken at *)
(* each stage; the one of an evaluation says what it has measured and what  *)
(* the scratch tenant holds at each of its positions.                       *)
(***************************************************************************)
EXTENDS Evaluation, FiniteSetTheorems, WellFoundedInduction, TLAPS

\* The classes of a half.
ClassesOf(h) == {c \in Range(Class) : c \in HardClass <=> h = "hard"}

Building == phase \in {"cases", "distractors", "mistyped"}
Sampling == phase \in {"floor", "share", "top", "drawn"}

\* The cases that are built are finitely many.
CasesBuilt ==
    /\ period \in 1..Len(Period)
    /\ IsFiniteSet(built) /\ IsFiniteSet(mistyped)
    /\ \A b \in built : b.count \in Nat

\* The labelled cases of a half, per class that has any.
Labelled(all, h) ==
    /\ DOMAIN all \subseteq ClassesOf(h)
    /\ all \in [DOMAIN all -> Nat \ {0}]

\* What is drawn of each class: at least its floor, at most all, no less than of a
\* smaller class.
Drawn(f, all) ==
    /\ DOMAIN f = DOMAIN all /\ f \in [DOMAIN all -> Nat]
    /\ \A c \in DOMAIN all : f[c] \in Least(all[c])..all[c]
    /\ \A c, d \in DOMAIN all : all[c] < all[d] => f[c] <= f[d]

\* The halves that are complete.
Complete == IF phase = "drawn" THEN Half ELSE IF half = "hard" THEN {"clean"} ELSE {}

DInv ==
    /\ Building \/ Sampling
    /\ half \in Half
    /\ CasesBuilt
    /\ Building => half = "clean" /\ golden = <<>>
    /\ Sampling => /\ quota \in Quota /\ DOMAIN pool = Half
                   /\ \A h \in Half : Labelled(pool[h], h)
    /\ phase = "share" => take = [c \in DOMAIN pool[half] |-> Least(pool[half][c])]
    /\ phase \in {"share", "top"} => Drawn(take, pool[half])
    /\ DOMAIN golden = Complete
    /\ \A h \in Complete : /\ Drawn(golden[h], pool[h])
                           /\ SumFunction(golden[h]) = Min({quota[h], SumFunction(pool[h])})

\* The payload of a report.
Payload(e) == [k \in DOMAIN e \ {"at"} |-> e[k]]

ScoreOK(s) == s.falsePositives \in Nat /\ s.truePositives \in Int

\* The numbers of a payload are numbers.
Scored(e) ==
    /\ "arms" \in DOMAIN e
    /\ \A b \in Blocks(e) : ScoreOK(b)

\* An evaluation at each of its positions.
Measured(e) ==
    /\ "at" \in DOMAIN e
    /\ e.at \in {"idle", "clear", "before", "teach", "after", "clean", "cascade",
                 "write", "check", "set"}
    /\ e.at # "idle" => phase = "drawn" /\ Scored(e)
    /\ e.at \in {"clear", "before", "teach", "after"} => "after" \notin DOMAIN e
    /\ e.at = "before" => scratch = FALSE
    /\ e.at \in {"teach", "after"} => "before" \in DOMAIN e /\ ~ e.before
    /\ e.at = "after" => scratch = TRUE
    /\ "after" \in DOMAIN e => "before" \in DOMAIN e /\ ~ e.before /\ e.after
    /\ e.at \in {"check", "set"} => report = Payload(e)
    /\ e.at = "set" => ~ Fails(e)

EInv ==
    /\ DOMAIN eval = Eval
    /\ \A p \in Eval : Measured(eval[p])
    /\ report # None /\ "after" \in DOMAIN report => ~ report.before /\ report.after
    /\ baseline # None => ScoreOK(baseline.arms.golden)
-----------------------------------------------------------------------------
\* A set of naturals that is not empty has a least element.
LEMMA LeastElement ==
    ASSUME NEW T \in SUBSET Nat, T # {}
    PROVE  \E k \in T : \A m \in T : k <= m
<1> DEFINE R == OpToRel(<, Nat)
<1>1. \A m, k \in Nat : m < k => <<m, k>> \in R
    BY Zenon DEF OpToRel
<1>2. IsWellFoundedOn(R, Nat)
    BY NatLessThanWellFounded, Zenon
<1> HIDE DEF R
<1>3. PICK k \in T : \A m \in T : ~ (<<m, k>> \in R)
    BY <1>2, WFMin, Zenon
<1>4. \A m \in T : ~ (m < k)
    BY <1>1, <1>3, Zenon
<1> QED BY <1>4

\* A set of naturals that holds 0 and with each number the next holds all of them.
LEMMA SetInduction ==
    ASSUME NEW T \in SUBSET Nat, 0 \in T, \A k \in T : k + 1 \in T
    PROVE  T = Nat
<1> SUFFICES ASSUME Nat \ T # {} PROVE FALSE
    OBVIOUS
<1>1. PICK k \in Nat \ T : \A m \in Nat \ T : k <= m
    BY LeastElement
<1>2. k # 0 /\ k - 1 \in Nat
    BY <1>1
<1>3. k - 1 \in T
    BY <1>1, <1>2
<1> QED BY <1>1, <1>3

LEMMA PairMin ==
    ASSUME NEW a \in Int, NEW b \in Int
    PROVE  Min({a, b}) = IF a <= b THEN a ELSE b
<1>1. PICK m \in {a, b} : \A y \in {a, b} : m =< y
    OBVIOUS
<1>2. Min({a, b}) \in {a, b} /\ \A y \in {a, b} : Min({a, b}) =< y
    BY <1>1, Zenon DEF Min
<1> QED BY <1>2

\* The sums of the functions over finite sets. TLC and the library add the element
\* that is chosen to the sum of the others.
Some(s) == CHOOSE x \in s : TRUE
Few(S, k) == {s \in SUBSET S : Cardinality(s) <= k}

LEMMA Smaller ==
    ASSUME NEW S, IsFiniteSet(S), NEW s \in SUBSET S, s # {}
    PROVE  /\ Some(s) \in s /\ s \ {Some(s)} \in SUBSET S /\ Cardinality(s) \in Nat \ {0}
           /\ Cardinality(s \ {Some(s)}) = Cardinality(s) - 1
<1>1. Some(s) \in s
    BY Zenon DEF Some
<1>2. IsFiniteSet(s)
    BY FS_Subset
<1>3. Cardinality(s) \in Nat /\ Cardinality(s) # 0
    BY <1>2, FS_CardinalityType, FS_EmptySet
<1>4. Cardinality(s \ {Some(s)}) = Cardinality(s) - 1
    BY <1>1, <1>2, FS_RemoveElement
<1> QED BY <1>1, <1>3, <1>4

\* Induction over the subsets of a finite set, along the element that is chosen.
LEMMA SubsetInduction ==
    ASSUME NEW S, IsFiniteSet(S), NEW G, {} \in G,
           \A s \in SUBSET S : s # {} /\ s \ {Some(s)} \in G => s \in G
    PROVE  SUBSET S \subseteq G
<1> DEFINE T == {k \in Nat : \A s \in SUBSET S : Cardinality(s) = k => s \in G}
<1>1. 0 \in T
    <2>1. \A s \in SUBSET S : Cardinality(s) = 0 => s = {}
        BY Smaller
    <2> QED BY <2>1
<1>2. \A k \in T : k + 1 \in T
    <2> SUFFICES ASSUME NEW k \in T, NEW s \in SUBSET S, Cardinality(s) = k + 1
                 PROVE  s \in G
        OBVIOUS
    <2>1. s # {}
        BY FS_EmptySet
    <2>2. s \ {Some(s)} \in SUBSET S /\ Cardinality(s \ {Some(s)}) = k
        BY <2>1, Smaller
    <2> QED BY <2>1, <2>2
<1> HIDE DEF T
<1>3. T = Nat
    BY <1>1, <1>2, SetInduction DEF T
<1>4. ASSUME NEW s \in SUBSET S
      PROVE  s \in G
    <2>1. IsFiniteSet(s)
        BY FS_Subset
    <2>2. Cardinality(s) \in Nat
        BY <2>1, FS_CardinalityType
    <2> QED BY <1>3, <2>2 DEF T
<1> QED BY <1>4

\* t holds the sum of f over each subset of its domain.
Sums(t, f) ==
    t = [s \in SUBSET DOMAIN f |-> IF s = {} THEN 0 ELSE f[Some(s)] + t[s \ {Some(s)}]]

SumsUp(g, f, k) ==
    g = [s \in Few(DOMAIN f, k) |-> IF s = {} THEN 0 ELSE f[Some(s)] + g[s \ {Some(s)}]]

LEMMA SumsUpExist ==
    ASSUME NEW f, IsFiniteSet(DOMAIN f), NEW m \in Nat
    PROVE  \E g : SumsUp(g, f, m)
<1> DEFINE S == DOMAIN f
<1> DEFINE T == {k \in Nat : \E g : SumsUp(g, f, k)}
<1>1. 0 \in T
    <2> DEFINE g == [s \in Few(S, 0) |-> 0]
    <2>1. ASSUME NEW s \in Few(S, 0), s # {}
          PROVE  FALSE
        <3>1. s \in SUBSET S /\ Cardinality(s) <= 0
            BY DEF Few
        <3>2. Cardinality(s) \in Nat \ {0}
            BY <2>1, <3>1, Smaller
        <3> QED BY <3>1, <3>2
    <2>2. SumsUp(g, f, 0)
        BY <2>1 DEF SumsUp
    <2> QED BY <2>2
<1>2. \A k \in T : k + 1 \in T
    <2> SUFFICES ASSUME NEW k \in Nat, NEW h, SumsUp(h, f, k)
                 PROVE  \E g : SumsUp(g, f, k + 1)
        OBVIOUS
    <2> DEFINE g == [s \in Few(S, k + 1) |->
                       IF s = {} THEN 0 ELSE f[Some(s)] + h[s \ {Some(s)}]]
    <2>1. \A s \in Few(S, k) : h[s] = g[s]
        <3> SUFFICES ASSUME NEW s \in Few(S, k) PROVE h[s] = g[s]
            OBVIOUS
        <3>1. s \in Few(S, k + 1)
            <4>1. Cardinality(s) \in Nat
                BY FS_Subset, FS_CardinalityType DEF Few
            <4> QED BY <4>1 DEF Few
        <3>2. h[s] = IF s = {} THEN 0 ELSE f[Some(s)] + h[s \ {Some(s)}]
            BY Zenon DEF SumsUp
        <3> QED BY <3>1, <3>2
    <2>2. \A s \in Few(S, k + 1) : s # {} => s \ {Some(s)} \in Few(S, k)
        BY Smaller DEF Few
    <2>3. g = [s \in Few(S, k + 1) |->
                 IF s = {} THEN 0 ELSE f[Some(s)] + g[s \ {Some(s)}]]
        BY <2>1, <2>2
    <2> QED BY <2>3 DEF SumsUp
<1> HIDE DEF T
<1>3. T = Nat
    BY <1>1, <1>2, SetInduction DEF T
<1> QED BY <1>3 DEF T

LEMMA SumsExist ==
    ASSUME NEW f, IsFiniteSet(DOMAIN f)
    PROVE  \E t : Sums(t, f)
<1>1. Cardinality(DOMAIN f) \in Nat /\ Few(DOMAIN f, Cardinality(DOMAIN f)) = SUBSET DOMAIN f
    BY FS_Subset, FS_CardinalityType DEF Few
<1>2. PICK t : SumsUp(t, f, Cardinality(DOMAIN f))
    BY <1>1, SumsUpExist
<1>3. Sums(t, f)
    BY <1>1, <1>2 DEF SumsUp, Sums
<1> QED BY <1>3

\* What a table of sums says of the subsets of D.
SumTable(t, f, D) ==
    /\ t[{}] = 0
    /\ \A s \in SUBSET D : s # {} =>
          /\ Some(s) \in s /\ s \ {Some(s)} \in SUBSET D
          /\ t[s] = f[Some(s)] + t[s \ {Some(s)}]

LEMMA TableOf ==
    ASSUME NEW D, IsFiniteSet(D), NEW f, DOMAIN f = D, NEW t, Sums(t, f)
    PROVE  SumTable(t, f, D)
<1>1. t = [s \in SUBSET D |-> IF s = {} THEN 0 ELSE f[Some(s)] + t[s \ {Some(s)}]]
    BY Zenon DEF Sums
<1>2. \A s \in SUBSET D : t[s] = IF s = {} THEN 0 ELSE f[Some(s)] + t[s \ {Some(s)}]
    BY ONLY <1>1
<1>3. \A s \in SUBSET D : s # {} => Some(s) \in s /\ s \ {Some(s)} \in SUBSET D
    BY Smaller
<1> QED BY <1>2, <1>3 DEF SumTable

\* SumFunction and SumSet are such sums.
LEMMA FunctionSums ==
    ASSUME NEW D, IsFiniteSet(D), NEW f, DOMAIN f = D
    PROVE  \E t : SumTable(t, f, D) /\ SumFunction(f) = t[D]
<1> DEFINE t == CHOOSE g : g = [s \in SUBSET DOMAIN f |->
                  IF s = {} THEN 0 ELSE f[Some(s)] + g[s \ {Some(s)}]]
<1>1. SumFunction(f) = t[DOMAIN f]
    BY DEF SumFunction, SumFunctionOnSet, FoldFunctionOnSet, MapThenFoldSet, Some
<1>2. \E g : g = [s \in SUBSET DOMAIN f |-> IF s = {} THEN 0 ELSE f[Some(s)] + g[s \ {Some(s)}]]
    BY SumsExist, Zenon DEF Sums
<1>3. t = [s \in SUBSET DOMAIN f |-> IF s = {} THEN 0 ELSE f[Some(s)] + t[s \ {Some(s)}]]
    BY <1>2, Zenon
<1> HIDE DEF t
<1>4. Sums(t, f)
    BY <1>3, Zenon DEF Sums
<1>5. SumTable(t, f, D)
    BY <1>4, TableOf
<1> QED BY <1>1, <1>5

LEMMA SetSums ==
    ASSUME NEW S, IsFiniteSet(S)
    PROVE  \E f, t : /\ DOMAIN f = S /\ \A x \in S : f[x] = x
                     /\ SumTable(t, f, S) /\ SumSet(S) = t[S]
<1> DEFINE f == [x \in S |-> x]
<1> DEFINE t == CHOOSE g : g = [s \in SUBSET S |->
                  IF s = {} THEN 0 ELSE Some(s) + g[s \ {Some(s)}]]
<1>1. SumSet(S) = t[S]
    BY DEF SumSet, FoldSet, MapThenFoldSet, Some
<1>2. \A s \in SUBSET S : s # {} => Some(s) \in S /\ f[Some(s)] = Some(s)
    <2>1. \A s \in SUBSET S : s # {} => Some(s) \in s
        BY Smaller
    <2> QED BY <2>1
<1>3. PICK h : Sums(h, f)
    BY SumsExist
<1>4. h = [s \in SUBSET S |-> IF s = {} THEN 0 ELSE Some(s) + h[s \ {Some(s)}]]
    <2>1. h = [s \in SUBSET S |-> IF s = {} THEN 0 ELSE f[Some(s)] + h[s \ {Some(s)}]]
        BY <1>3 DEF Sums
    <2> QED BY <1>2, <2>1
<1>5. t = [s \in SUBSET S |-> IF s = {} THEN 0 ELSE Some(s) + t[s \ {Some(s)}]]
    BY <1>4, Zenon
<1> HIDE DEF t
<1>6. t = [s \in SUBSET DOMAIN f |-> IF s = {} THEN 0 ELSE f[Some(s)] + t[s \ {Some(s)}]]
    BY <1>2, <1>5
<1>7. DOMAIN f = S /\ \A x \in S : f[x] = x
    OBVIOUS
<1> HIDE DEF f
<1>8. Sums(t, f)
    BY <1>6, Zenon DEF Sums
<1>9. SumTable(t, f, S)
    BY <1>7, <1>8, TableOf
<1> QED BY <1>1, <1>7, <1>9

\* A sum of integers is one, a sum of naturals is one and at least each of them.
LEMMA SumInt ==
    ASSUME NEW D, IsFiniteSet(D), NEW f \in [D -> Int]
    PROVE  SumFunction(f) \in Int
<1>1. PICK t : SumTable(t, f, D) /\ SumFunction(f) = t[D]
    BY FunctionSums
<1> DEFINE G == {s \in SUBSET D : t[s] \in Int}
<1>2. {} \in G
    BY <1>1 DEF SumTable
<1>3. \A s \in SUBSET D : s # {} /\ s \ {Some(s)} \in G => s \in G
    <2> SUFFICES ASSUME NEW s \in SUBSET D, s # {}, s \ {Some(s)} \in G PROVE s \in G
        OBVIOUS
    <2>1. Some(s) \in D /\ t[s] = f[Some(s)] + t[s \ {Some(s)}]
        BY <1>1 DEF SumTable
    <2> QED BY <2>1
<1> HIDE DEF G
<1>4. SUBSET D \subseteq G
    BY <1>2, <1>3, SubsetInduction
<1> QED BY <1>1, <1>4 DEF G

LEMMA SumNat ==
    ASSUME NEW D, IsFiniteSet(D), NEW f \in [D -> Nat]
    PROVE  SumFunction(f) \in Nat /\ \A c \in D : f[c] <= SumFunction(f)
<1>1. PICK t : SumTable(t, f, D) /\ SumFunction(f) = t[D]
    BY FunctionSums
<1> DEFINE G == {s \in SUBSET D : t[s] \in Nat /\ \A c \in s : f[c] <= t[s]}
<1>2. {} \in G
    BY <1>1 DEF SumTable
<1>3. \A s \in SUBSET D : s # {} /\ s \ {Some(s)} \in G => s \in G
    <2> SUFFICES ASSUME NEW s \in SUBSET D, s # {}, s \ {Some(s)} \in G PROVE s \in G
        OBVIOUS
    <2>1. Some(s) \in D /\ t[s] = f[Some(s)] + t[s \ {Some(s)}]
        BY <1>1 DEF SumTable
    <2>2. t[s] \in Nat /\ f[Some(s)] <= t[s] /\ t[s \ {Some(s)}] <= t[s]
        BY <2>1
    <2>3. \A c \in s : f[c] <= t[s]
        <3> SUFFICES ASSUME NEW c \in s PROVE f[c] <= t[s]
            OBVIOUS
        <3>1. CASE c = Some(s)
            BY <2>2, <3>1
        <3>2. CASE c # Some(s)
            <4>1. f[c] <= t[s \ {Some(s)}] /\ t[s \ {Some(s)}] \in Nat
                BY <3>2
            <4> QED BY <2>2, <4>1
        <3> QED BY <3>1, <3>2
    <2> QED BY <2>2, <2>3
<1> HIDE DEF G
<1>4. SUBSET D \subseteq G
    BY <1>2, <1>3, SubsetInduction
<1> QED BY <1>1, <1>4 DEF G

LEMMA SetSumNat ==
    ASSUME NEW S \in SUBSET Nat, IsFiniteSet(S)
    PROVE  SumSet(S) \in Nat
<1>1. PICK f, t : /\ DOMAIN f = S /\ \A x \in S : f[x] = x
                  /\ SumTable(t, f, S) /\ SumSet(S) = t[S]
    BY SetSums
<1> DEFINE G == {s \in SUBSET S : t[s] \in Nat}
<1>2. {} \in G
    BY <1>1 DEF SumTable
<1>3. \A s \in SUBSET S : s # {} /\ s \ {Some(s)} \in G => s \in G
    <2> SUFFICES ASSUME NEW s \in SUBSET S, s # {}, s \ {Some(s)} \in G PROVE s \in G
        OBVIOUS
    <2>1. Some(s) \in S /\ t[s] = f[Some(s)] + t[s \ {Some(s)}]
        BY <1>1 DEF SumTable
    <2>2. f[Some(s)] \in Nat
        BY <1>1, <2>1
    <2> QED BY <2>1, <2>2
<1> HIDE DEF G
<1>4. SUBSET S \subseteq G
    BY <1>2, <1>3, SubsetInduction
<1> QED BY <1>1, <1>4 DEF G

\* Where each term is at most b for every m of the other, so is the sum.
LEMMA ShareStep ==
    ASSUME NEW m \in Int, NEW b \in Int, NEW x \in Int, NEW s \in Int,
           NEW X \in Int, NEW S \in Int, m * x <= b * s, m * X <= b * S
    PROVE  m * (x + X) <= b * (s + S)
<1>1. m * (x + X) = m * x + m * X /\ b * (s + S) = b * s + b * S
    OBVIOUS
<1>2. m * x \in Int /\ m * X \in Int /\ b * s \in Int /\ b * S \in Int
    OBVIOUS
<1> QED BY <1>1, <1>2

LEMMA SumShare ==
    ASSUME NEW D, IsFiniteSet(D), NEW f \in [D -> Int], NEW g \in [D -> Int],
           NEW m \in Int, NEW b \in Int, \A c \in D : m * f[c] <= b * g[c]
    PROVE  m * SumFunction(f) <= b * SumFunction(g)
<1>1. PICK t : SumTable(t, f, D) /\ SumFunction(f) = t[D]
    BY FunctionSums
<1>2. PICK u : SumTable(u, g, D) /\ SumFunction(g) = u[D]
    BY FunctionSums
<1> DEFINE G == {s \in SUBSET D : t[s] \in Int /\ u[s] \in Int /\ m * t[s] <= b * u[s]}
<1>3. {} \in G
    BY <1>1, <1>2 DEF SumTable
<1>4. \A s \in SUBSET D : s # {} /\ s \ {Some(s)} \in G => s \in G
    <2> SUFFICES ASSUME NEW s \in SUBSET D, s # {}, s \ {Some(s)} \in G PROVE s \in G
        OBVIOUS
    <2> DEFINE r == s \ {Some(s)}
    <2>1. Some(s) \in D /\ t[s] = f[Some(s)] + t[r]
        BY <1>1 DEF SumTable
    <2>2. u[s] = g[Some(s)] + u[r]
        BY <1>2 DEF SumTable
    <2>3. t[r] \in Int /\ u[r] \in Int /\ m * t[r] <= b * u[r]
        OBVIOUS
    <2>4. f[Some(s)] \in Int /\ g[Some(s)] \in Int /\ m * f[Some(s)] <= b * g[Some(s)]
        BY <2>1
    <2> HIDE DEF r
    <2>5. m * t[s] <= b * u[s]
        BY <2>1, <2>2, <2>3, <2>4, ShareStep
    <2> QED BY <2>1, <2>2, <2>3, <2>4, <2>5
<1> HIDE DEF G
<1>5. SUBSET D \subseteq G
    BY <1>3, <1>4, SubsetInduction
<1> QED BY <1>1, <1>2, <1>5 DEF G

LEMMA SumLeq ==
    ASSUME NEW D, IsFiniteSet(D), NEW f \in [D -> Int], NEW g \in [D -> Int],
           \A c \in D : f[c] <= g[c]
    PROVE  SumFunction(f) <= SumFunction(g)
<1>1. PICK m \in Int : m = 1
    OBVIOUS
<1>2. \A c \in D : m * f[c] <= m * g[c]
    BY <1>1
<1>3. m * SumFunction(f) <= m * SumFunction(g)
    BY <1>2, SumShare
<1> QED BY <1>1, <1>3, SumInt

LEMMA SumAdd ==
    ASSUME NEW D, IsFiniteSet(D), NEW f \in [D -> Int], NEW g \in [D -> Int]
    PROVE  SumFunction([c \in D |-> f[c] + g[c]]) = SumFunction(f) + SumFunction(g)
<1> DEFINE h == [c \in D |-> f[c] + g[c]]
<1>0. h \in [D -> Int] /\ DOMAIN h = D /\ \A c \in D : h[c] = f[c] + g[c]
    OBVIOUS
<1> HIDE DEF h
<1>1. PICK t : SumTable(t, f, D) /\ SumFunction(f) = t[D]
    BY FunctionSums
<1>2. PICK u : SumTable(u, g, D) /\ SumFunction(g) = u[D]
    BY FunctionSums
<1>3. PICK v : SumTable(v, h, D) /\ SumFunction(h) = v[D]
    BY <1>0, FunctionSums
<1> DEFINE G == {s \in SUBSET D : t[s] \in Int /\ u[s] \in Int /\ v[s] = t[s] + u[s]}
<1>4. {} \in G
    BY <1>1, <1>2, <1>3 DEF SumTable
<1>5. \A s \in SUBSET D : s # {} /\ s \ {Some(s)} \in G => s \in G
    <2> SUFFICES ASSUME NEW s \in SUBSET D, s # {}, s \ {Some(s)} \in G PROVE s \in G
        OBVIOUS
    <2>1. Some(s) \in D /\ t[s] = f[Some(s)] + t[s \ {Some(s)}]
        BY <1>1 DEF SumTable
    <2>2. u[s] = g[Some(s)] + u[s \ {Some(s)}]
        BY <1>2 DEF SumTable
    <2>3. v[s] = h[Some(s)] + v[s \ {Some(s)}]
        BY <1>3 DEF SumTable
    <2>4. h[Some(s)] = f[Some(s)] + g[Some(s)]
        BY <1>0, <2>1
    <2> QED BY <2>1, <2>2, <2>3, <2>4
<1> HIDE DEF G
<1>6. SUBSET D \subseteq G
    BY <1>4, <1>5, SubsetInduction
<1> QED BY <1>1, <1>2, <1>3, <1>6 DEF G, h

\* One more of one class is one more in all.
LEMMA SumOne ==
    ASSUME NEW D, IsFiniteSet(D), NEW f \in [D -> Int], NEW k \in D
    PROVE  SumFunction([f EXCEPT ![k] = @ + 1]) = SumFunction(f) + 1
<1> DEFINE h == [f EXCEPT ![k] = @ + 1]
<1>0. /\ h \in [D -> Int] /\ DOMAIN h = D /\ h[k] = f[k] + 1
      /\ \A c \in D : c # k => h[c] = f[c]
    OBVIOUS
<1> HIDE DEF h
<1>1. PICK t : SumTable(t, f, D) /\ SumFunction(f) = t[D]
    BY FunctionSums
<1>2. PICK v : SumTable(v, h, D) /\ SumFunction(h) = v[D]
    BY <1>0, FunctionSums
<1> DEFINE G == {s \in SUBSET D : t[s] \in Int /\ v[s] = IF k \in s THEN t[s] + 1 ELSE t[s]}
<1>3. {} \in G
    BY <1>0, <1>1, <1>2 DEF SumTable
<1>4. \A s \in SUBSET D : s # {} /\ s \ {Some(s)} \in G => s \in G
    <2> SUFFICES ASSUME NEW s \in SUBSET D, s # {}, s \ {Some(s)} \in G PROVE s \in G
        OBVIOUS
    <2>1. Some(s) \in s /\ Some(s) \in D /\ t[s] = f[Some(s)] + t[s \ {Some(s)}]
        BY <1>1 DEF SumTable
    <2>2. v[s] = h[Some(s)] + v[s \ {Some(s)}]
        BY <1>0, <1>2 DEF SumTable
    <2>3. t[s] \in Int
        BY <2>1
    <2>4. CASE Some(s) = k
        <3>1. k \in s /\ k \notin s \ {Some(s)} /\ h[Some(s)] = f[Some(s)] + 1
            BY <1>0, <2>1, <2>4
        <3> QED BY <2>1, <2>2, <2>3, <3>1
    <2>5. CASE Some(s) # k
        <3>1. (k \in s <=> k \in s \ {Some(s)}) /\ h[Some(s)] = f[Some(s)]
            BY <1>0, <2>1, <2>5
        <3> QED BY <2>1, <2>2, <2>3, <3>1
    <2> QED BY <2>4, <2>5
<1> HIDE DEF G
<1>5. SUBSET D \subseteq G
    BY <1>3, <1>4, SubsetInduction
<1> QED BY <1>1, <1>2, <1>5 DEF G, h

\* A sum of terms of at most k each.
LEMMA SumBounded ==
    ASSUME NEW D, IsFiniteSet(D), NEW f \in [D -> Int], NEW k \in Int,
           \A c \in D : f[c] <= k
    PROVE  SumFunction(f) <= k * Cardinality(D)
<1>1. PICK t : SumTable(t, f, D) /\ SumFunction(f) = t[D]
    BY FunctionSums
<1> DEFINE G == {s \in SUBSET D : t[s] \in Int /\ t[s] <= k * Cardinality(s)}
<1>2. {} \in G
    BY <1>1, FS_EmptySet DEF SumTable
<1>3. \A s \in SUBSET D : s # {} /\ s \ {Some(s)} \in G => s \in G
    <2> SUFFICES ASSUME NEW s \in SUBSET D, s # {}, s \ {Some(s)} \in G PROVE s \in G
        OBVIOUS
    <2>1. Some(s) \in D /\ t[s] = f[Some(s)] + t[s \ {Some(s)}]
        BY <1>1 DEF SumTable
    <2>2. PICK n \in Nat : Cardinality(s) = n + 1 /\ Cardinality(s \ {Some(s)}) = n
        <3>1. Cardinality(s) \in Nat \ {0} /\ Cardinality(s \ {Some(s)}) = Cardinality(s) - 1
            BY Smaller
        <3> QED BY <3>1
    <2>3. t[s \ {Some(s)}] \in Int /\ t[s \ {Some(s)}] <= k * n
        BY <2>2
    <2>4. k * (n + 1) = k * n + k /\ k * n \in Int
        OBVIOUS
    <2> QED BY <2>1, <2>2, <2>3, <2>4
<1> HIDE DEF G
<1>4. SUBSET D \subseteq G
    BY <1>2, <1>3, SubsetInduction
<1> QED BY <1>1, <1>4 DEF G

-----------------------------------------------------------------------------
\* The classes at the positions from a to b.
Stretch(a, b) == {Class[k] : k \in a..b}

LEMMA StretchSize ==
    ASSUME NEW a \in Nat, NEW b \in Nat, a <= b
    PROVE  IsFiniteSet(Stretch(a, b)) /\ Cardinality(Stretch(a, b)) <= b - a + 1
<1> DEFINE f == [k \in a..b |-> Class[k]]
<1>1. f \in Surjection(a..b, Stretch(a, b))
    BY DEF Surjection, Stretch
<1>2. IsFiniteSet(a..b) /\ Cardinality(a..b) = b - a + 1
    BY FS_Interval
<1> QED BY <1>1, <1>2, FS_Surjection

\* Nine classes are hard, the other five clean.
LEMMA ClassFacts ==
    /\ IsFiniteSet(Range(Class))
    /\ \A h \in Half : IsFiniteSet(ClassesOf(h))
    /\ Cardinality(ClassesOf("hard")) <= 9
    /\ Cardinality(ClassesOf("clean")) <= 5
<1>1. DOMAIN Class = 1..14
    BY DEF Class
<1>2. Range(Class) = Stretch(1, 14)
    BY <1>1 DEF Range, Stretch
<1>3. ClassesOf("hard") \in SUBSET Stretch(1, 9)
    BY DEF ClassesOf, HardClass, Stretch
<1>4. ClassesOf("clean") \in SUBSET Stretch(10, 14)
    <2> SUFFICES ASSUME NEW c \in ClassesOf("clean") PROVE c \in Stretch(10, 14)
        OBVIOUS
    <2>1. c \notin HardClass /\ c \in Range(Class)
        BY DEF ClassesOf
    <2>2. PICK k \in 1..14 : c = Class[k]
        BY <1>2, <2>1 DEF Stretch
    <2>3. k \notin 1..9
        BY <2>1, <2>2 DEF HardClass
    <2> QED BY <2>2, <2>3 DEF Stretch
<1>5. IsFiniteSet(Stretch(1, 14))
    BY StretchSize
<1>6. IsFiniteSet(Stretch(1, 9)) /\ Cardinality(Stretch(1, 9)) <= 9
    BY StretchSize
<1>7. IsFiniteSet(Stretch(10, 14)) /\ Cardinality(Stretch(10, 14)) <= 5
    BY StretchSize
<1>8. /\ IsFiniteSet(ClassesOf("hard"))
      /\ Cardinality(ClassesOf("hard")) <= Cardinality(Stretch(1, 9))
    BY <1>3, <1>6, FS_Subset
<1>9. /\ IsFiniteSet(ClassesOf("clean"))
      /\ Cardinality(ClassesOf("clean")) <= Cardinality(Stretch(10, 14))
    BY <1>4, <1>7, FS_Subset
<1>10. Cardinality(ClassesOf("hard")) <= 9
    BY <1>6, <1>8, FS_CardinalityType
<1>11. Cardinality(ClassesOf("clean")) <= 5
    BY <1>7, <1>9, FS_CardinalityType
<1> QED BY <1>2, <1>5, <1>8, <1>9, <1>10, <1>11 DEF Half

LEMMA LeastFacts ==
    ASSUME NEW n \in Nat
    PROVE  /\ Least(n) = IF MinPerClass <= n THEN MinPerClass ELSE n
           /\ Least(n) \in Nat
<1>1. MinPerClass \in Nat
    BY SampleAssumption
<1>2. Min({MinPerClass, n}) = IF MinPerClass <= n THEN MinPerClass ELSE n
    BY <1>1, PairMin
<1> QED BY <1>1, <1>2 DEF Least

Floors(all) == [c \in DOMAIN all |-> Least(all[c])]

\* The floors alone are a draw.
LEMMA FloorsDrawn ==
    ASSUME NEW h, NEW all, Labelled(all, h)
    PROVE  Drawn(Floors(all), all)
<1>1. \A c \in DOMAIN all : all[c] \in Nat /\ Least(all[c]) \in Nat
    BY LeastFacts DEF Labelled
<1>2. \A c \in DOMAIN all : Least(all[c]) \in Least(all[c])..all[c]
    BY <1>1, LeastFacts
<1>3. \A c, d \in DOMAIN all : all[c] < all[d] => Least(all[c]) <= Least(all[d])
    BY <1>1, LeastFacts, SampleAssumption
<1> QED BY <1>1, <1>2, <1>3 DEF Floors, Drawn

LEMMA FloorsFit ==
    ASSUME NEW h \in Half, NEW all, Labelled(all, h), NEW q \in Quota, RoomForFloors
    PROVE  SumFunction(Floors(all)) <= q[h]
<1> DEFINE D == DOMAIN all
<1>1. D \in SUBSET ClassesOf(h) /\ IsFiniteSet(ClassesOf(h))
    BY ClassFacts DEF Labelled
<1>2. IsFiniteSet(D) /\ Cardinality(D) <= Cardinality(ClassesOf(h))
    BY <1>1, FS_Subset
<1>3. Cardinality(D) \in Nat /\ Cardinality(ClassesOf(h)) \in Nat
    BY <1>1, <1>2, FS_CardinalityType
<1>4. MinPerClass \in Nat /\ q[h] \in Nat
    BY SampleAssumption
<1>5. \A c \in D : all[c] \in Nat
    BY DEF Labelled
<1>6. Floors(all) \in [D -> Int] /\ \A c \in D : Floors(all)[c] <= MinPerClass
    BY <1>4, <1>5, LeastFacts DEF Floors
<1>7. SumFunction(Floors(all)) <= MinPerClass * Cardinality(D) /\ SumFunction(Floors(all)) \in Int
    BY <1>2, <1>4, <1>6, SumBounded, SumInt
<1>8. \A a, b \in Nat : a <= b => MinPerClass * a <= MinPerClass * b
    BY <1>4
<1>9. CASE h = "hard"
    <2>1. MinPerClass * Cardinality(D) <= MinPerClass * 9
        BY <1>2, <1>3, <1>8, <1>9, ClassFacts
    <2>2. 9 * MinPerClass <= q[h]
        BY <1>9 DEF RoomForFloors
    <2> QED BY <1>3, <1>4, <1>7, <2>1, <2>2
<1>10. CASE h = "clean"
    <2>1. MinPerClass * Cardinality(D) <= MinPerClass * 5
        BY <1>2, <1>3, <1>8, <1>10, ClassFacts
    <2>2. 5 * MinPerClass <= q[h]
        BY <1>10 DEF RoomForFloors
    <2> QED BY <1>3, <1>4, <1>7, <2>1, <2>2
<1> QED BY <1>9, <1>10 DEF Half

\* A share of n parts of a, rounded down.
LEMMA Division ==
    ASSUME NEW n \in Nat \ {0}, NEW a \in Nat
    PROVE  /\ a \div n \in Nat /\ n * (a \div n) <= a
           /\ \A b \in Nat : a <= b => a \div n <= b \div n
<1>1. a \div n \in Nat /\ n * (a \div n) <= a
    OBVIOUS
<1>2. ASSUME NEW b \in Nat, a <= b
      PROVE  a \div n <= b \div n
    <2> DEFINE x == a \div n
               y == b \div n
    <2>1. x \in Nat /\ n * x <= a
        OBVIOUS
    <2>2. y \in Nat /\ b < n * y + n
        OBVIOUS
    <2> HIDE DEF x, y
    <2> SUFFICES ASSUME y < x PROVE FALSE
        BY <2>1, <2>2 DEF x, y
    <2>3. PICK d \in Nat : x = y + 1 + d
        <3>1. x - y - 1 \in Nat /\ x = y + 1 + (x - y - 1)
            BY <2>1, <2>2
        <3> QED BY <3>1
    <2>4. n * x = n * y + n + n * d
        BY <2>2, <2>3
    <2>5. n * d \in Nat /\ n * y \in Nat
        BY <2>2, <2>3
    <2> QED BY <1>2, <2>1, <2>2, <2>4, <2>5
<1> QED BY <1>1, <1>2

\* What a class gets beyond its floor.
Share(spare, budget, total) ==
    IF budget > 0 /\ total > 0 THEN Min({spare, (budget * spare) \div total}) ELSE 0

LEMMA ShareFacts ==
    ASSUME NEW s \in Nat, NEW budget \in Int, NEW total \in Int
    PROVE  /\ Share(s, budget, total) \in Nat /\ Share(s, budget, total) <= s
           /\ \A r \in Nat : s <= r => Share(s, budget, total) <= Share(r, budget, total)
           /\ budget > 0 /\ total > 0 => total * Share(s, budget, total) <= budget * s
<1>1. CASE ~ (budget > 0 /\ total > 0)
    BY <1>1 DEF Share
<1>2. CASE budget > 0 /\ total > 0
    <2> DEFINE part(r) == (budget * r) \div total
    <2>1. \A r \in Nat : budget * r \in Nat /\ part(r) \in Nat
        BY <1>2, Division
    <2>2. \A r \in Nat : Min({r, part(r)}) = IF r <= part(r) THEN r ELSE part(r)
        BY <2>1, PairMin
    <2>3. \A r \in Nat : Share(r, budget, total) = IF r <= part(r) THEN r ELSE part(r)
        BY <1>2, <2>2 DEF Share
    <2>4. \A r \in Nat : s <= r => part(s) <= part(r)
        <3> SUFFICES ASSUME NEW r \in Nat, s <= r PROVE part(s) <= part(r)
            OBVIOUS
        <3>1. budget * s <= budget * r
            BY <1>2
        <3> QED BY <1>2, <2>1, <3>1, Division
    <2>5. total * part(s) <= budget * s /\ budget * s \in Nat
        BY <1>2, <2>1, Division
    <2> HIDE DEF part
    <2>6. Share(s, budget, total) \in Nat /\ Share(s, budget, total) <= s
        BY <2>1, <2>3
    <2>7. \A r \in Nat : s <= r => Share(s, budget, total) <= Share(r, budget, total)
        BY <2>1, <2>3, <2>4
    <2>8. total * Share(s, budget, total) <= budget * s
        <3>1. PICK x \in Nat : x = Share(s, budget, total) /\ x <= part(s)
            BY <2>1, <2>3, <2>6
        <3>2. PICK y \in Nat : y = part(s)
            BY <2>1
        <3>3. total * x <= total * y /\ total * x \in Int /\ total * y \in Int
            BY <1>2, <3>1, <3>2
        <3> QED BY <2>5, <3>1, <3>2, <3>3
    <2> QED BY <2>6, <2>7, <2>8
<1> QED BY <1>1, <1>2

Shares(all, f, budget, total) ==
    [c \in DOMAIN all |-> f[c] + Share(all[c] - f[c], budget, total)]

\* The shares on top of the floors are a draw.
LEMMA SharesDrawn ==
    ASSUME NEW h, NEW all, Labelled(all, h), NEW budget \in Int, NEW total \in Int
    PROVE  Drawn(Shares(all, Floors(all), budget, total), all)
<1> DEFINE f == Floors(all)
           g == Shares(all, f, budget, total)
<1>1. \A c \in DOMAIN all : all[c] \in Nat /\ f[c] \in Nat /\ f[c] = Least(all[c])
    BY LeastFacts DEF Labelled, Floors
<1>2. \A c \in DOMAIN all : all[c] - f[c] \in Nat
    BY <1>1, LeastFacts
<1>3. \A c \in DOMAIN all :
         /\ g[c] = f[c] + Share(all[c] - f[c], budget, total)
         /\ Share(all[c] - f[c], budget, total) \in Nat
         /\ Share(all[c] - f[c], budget, total) <= all[c] - f[c]
    BY <1>2, ShareFacts DEF Shares
<1>4. \A c \in DOMAIN all : g[c] \in Nat /\ g[c] \in Least(all[c])..all[c]
    BY <1>1, <1>2, <1>3
<1>5. ASSUME NEW c \in DOMAIN all, NEW d \in DOMAIN all, all[c] < all[d]
      PROVE  g[c] <= g[d]
    <2>1. f[c] <= f[d] /\ all[c] - f[c] <= all[d] - f[d]
        BY <1>1, <1>5, LeastFacts, SampleAssumption
    <2>2. Share(all[c] - f[c], budget, total) <= Share(all[d] - f[d], budget, total)
        BY <1>2, <2>1, ShareFacts
    <2> QED BY <1>1, <1>3, <2>1, <2>2
<1>6. DOMAIN g = DOMAIN all /\ g \in [DOMAIN all -> Nat]
    BY <1>4 DEF Shares
<1> HIDE DEF f, g
<1>7. Drawn(g, all)
    BY <1>4, <1>5, <1>6 DEF Drawn
<1> QED BY <1>7 DEF f, g

\* The shares stay within the quota: rounded down, they are at most the budget.
LEMMA SharesFit ==
    ASSUME NEW h \in Half, NEW all, Labelled(all, h), NEW q \in Int,
           NEW f, Drawn(f, all), SumFunction(f) <= q
    PROVE  LET total == SumFunction([c \in DOMAIN all |-> all[c] - f[c]])
           IN  /\ total \in Int /\ SumFunction(f) \in Int
               /\ SumFunction(Shares(all, f, q - SumFunction(f), total)) <= q
<1> DEFINE D == DOMAIN all
           spare == [c \in D |-> all[c] - f[c]]
           budget == q - SumFunction(f)
           total == SumFunction(spare)
           x == [c \in D |-> Share(spare[c], budget, total)]
<1>1. IsFiniteSet(D)
    BY ClassFacts, FS_Subset DEF Labelled
<1>2. f \in [D -> Nat] /\ \A c \in D : all[c] \in Nat /\ all[c] - f[c] \in Nat
    BY LeastFacts DEF Labelled, Drawn
<1>3. spare \in [D -> Nat] /\ f \in [D -> Int] /\ spare \in [D -> Int]
    BY <1>2
<1>4. SumFunction(f) \in Int /\ budget \in Int /\ budget >= 0
    BY <1>1, <1>3, SumInt
<1>5. total \in Nat /\ total \in Int
    BY <1>1, <1>3, SumNat
<1>6. Shares(all, f, budget, total) = [c \in D |-> f[c] + x[c]]
    BY DEF Shares
<1> HIDE DEF spare, budget, total
<1>7. \A c \in D : Share(spare[c], budget, total) \in Nat
    BY <1>3, <1>4, <1>5, ShareFacts
<1>8. x \in [D -> Int]
    BY <1>7
<1>9. SumFunction(x) \in Int /\ SumFunction(x) <= budget
    <2>1. SumFunction(x) \in Int
        BY <1>1, <1>8, SumInt
    <2>2. CASE budget > 0 /\ total > 0
        <3>1. \A c \in D : total * x[c] <= budget * spare[c]
            <4> SUFFICES ASSUME NEW c \in D PROVE total * x[c] <= budget * spare[c]
                OBVIOUS
            <4>1. spare[c] \in Nat /\ x[c] = Share(spare[c], budget, total)
                BY <1>3
            <4>2. total * Share(spare[c], budget, total) <= budget * spare[c]
                BY <1>4, <1>5, <2>2, <4>1, ShareFacts
            <4> QED BY <4>1, <4>2
        <3> HIDE DEF x, D
        <3>2. total * SumFunction(x) <= budget * SumFunction(spare)
            BY ONLY <1>1, <1>3, <1>4, <1>5, <1>8, <3>1, SumShare, Zenon
        <3>3. total * SumFunction(x) <= total * budget
            BY <1>4, <1>5, <3>2 DEF total
        <3> QED BY <1>4, <1>5, <2>1, <2>2, <3>3
    <2>3. CASE ~ (budget > 0 /\ total > 0)
        <3>1. \A c \in D : x[c] <= 0
            BY <2>3 DEF Share
        <3> HIDE DEF x
        <3>2. SumFunction(x) <= 0 * Cardinality(D)
            BY <1>1, <1>8, <3>1, SumBounded
        <3>3. 0 * Cardinality(D) = 0
            BY <1>1, FS_CardinalityType
        <3> QED BY <1>4, <2>1, <3>2, <3>3
    <2> QED BY <2>1, <2>2, <2>3
<1> HIDE DEF x
<1>10. SumFunction([c \in D |-> f[c] + x[c]]) = SumFunction(f) + SumFunction(x)
    BY <1>1, <1>3, <1>8, SumAdd
<1>11. SumFunction(Shares(all, f, budget, total)) <= q
    BY <1>4, <1>6, <1>9, <1>10 DEF budget
<1> QED BY <1>4, <1>5, <1>11 DEF budget, total, spare

\* The numbers of a draw.
LEMMA DrawnNumbers ==
    ASSUME NEW h \in Half, NEW all, Labelled(all, h), NEW f, Drawn(f, all)
    PROVE  /\ IsFiniteSet(DOMAIN all) /\ DOMAIN f = DOMAIN all
           /\ f \in [DOMAIN all -> Int] /\ all \in [DOMAIN all -> Int]
           /\ \A c \in DOMAIN all : f[c] \in Nat /\ all[c] \in Nat /\ f[c] <= all[c]
           /\ SumFunction(f) \in Int /\ SumFunction(all) \in Int
           /\ SumFunction(f) <= SumFunction(all)
           /\ \A c \in DOMAIN all : all[c] <= SumFunction(all)
<1>1. IsFiniteSet(DOMAIN all)
    BY ClassFacts, FS_Subset DEF Labelled
<1>2. \A c \in DOMAIN all : f[c] \in Nat /\ all[c] \in Nat /\ f[c] <= all[c]
    BY LeastFacts DEF Drawn, Labelled
<1>3. /\ f \in [DOMAIN all -> Int] /\ all \in [DOMAIN all -> Int] /\ all \in [DOMAIN all -> Nat]
      /\ DOMAIN f = DOMAIN all
    BY <1>2 DEF Drawn, Labelled
<1>4. SumFunction(f) \in Int /\ SumFunction(all) \in Int
    BY <1>1, <1>3, SumInt
<1>5. SumFunction(f) <= SumFunction(all)
    BY <1>1, <1>2, <1>3, SumLeq
<1>6. \A c \in DOMAIN all : all[c] <= SumFunction(all)
    BY <1>1, <1>3, SumNat
<1> QED BY <1>1, <1>2, <1>3, <1>4, <1>5, <1>6

\* As long as a class has cases left there is one that has the most.
LEMMA MostLeftExists ==
    ASSUME half \in Half, Labelled(pool[half], half), Drawn(take, pool[half]), MostLeft = {}
    PROVE  take = pool[half]
<1> DEFINE all == pool[half]
           D == DOMAIN all
<1>1. /\ DOMAIN take = D /\ SumFunction(all) \in Int
      /\ \A c \in D : /\ take[c] \in Nat /\ all[c] \in Nat /\ take[c] <= all[c]
                       /\ all[c] <= SumFunction(all)
    BY DrawnNumbers
<1>2. \A c \in D : Left(c) \in Nat /\ Left(c) <= SumFunction(all)
    BY <1>1 DEF Left
<1>3. take \in [D -> Nat] /\ all \in [D -> Nat \ {0}]
    BY DEF Drawn, Labelled
<1>4. D \in SUBSET {Class[k] : k \in DOMAIN Class} /\ DOMAIN Class \in SUBSET Nat
    <2>1. DOMAIN Class = 1..14
        BY DEF Class
    <2> QED BY <2>1 DEF Labelled, ClassesOf, Range
<1>5. ASSUME NEW c \in D, Left(c) > 0
      PROVE  FALSE
    <2> DEFINE T == {SumFunction(all) - Left(d) : d \in D}
    <2>1. T \in SUBSET Nat /\ T # {}
        BY <1>1, <1>2
    <2>2. PICK t \in T : \A m \in T : t <= m
        BY <2>1, LeastElement
    <2>3. PICK d \in D : t = SumFunction(all) - Left(d)
        BY <2>2
    <2>4. \A b \in D : Left(b) <= Left(d)
        <3> SUFFICES ASSUME NEW b \in D PROVE Left(b) <= Left(d)
            OBVIOUS
        <3>1. t <= SumFunction(all) - Left(b)
            BY <2>2
        <3> QED BY <1>1, <1>2, <2>3, <3>1
    <2> HIDE DEF T
    <2> DEFINE U == {k \in DOMAIN Class : Class[k] \in D /\ Left(Class[k]) = Left(d)}
    <2>5. U \in SUBSET Nat /\ U # {}
        BY <1>4
    <2>6. PICK k \in U : \A m \in U : k <= m
        BY <2>5, LeastElement
    <2>7. k \in DOMAIN Class /\ Class[k] \in D /\ Left(Class[k]) = Left(d)
        BY <2>6
    <2>8. Left(Class[k]) > 0
        BY <1>2, <1>5, <2>4, <2>7
    <2>9. ASSUME NEW m \in DOMAIN Class, Class[m] \in D
          PROVE  \/ Left(Class[m]) < Left(Class[k])
                 \/ Left(Class[m]) = Left(Class[k]) /\ k <= m
        <3>1. CASE Left(Class[m]) = Left(d)
            BY <2>6, <2>7, <2>9, <3>1
        <3>2. CASE Left(Class[m]) # Left(d)
            BY <1>2, <2>4, <2>7, <2>9, <3>2
        <3> QED BY <3>1, <3>2
    <2>10. k \in MostLeft
        BY <1>1, <2>7, <2>8, <2>9 DEF MostLeft
    <2> QED BY <2>10
<1>6. \A c \in D : take[c] = all[c]
    BY <1>1, <1>2, <1>5 DEF Left
<1> QED BY <1>3, <1>6

\* One more of the class with the most left is still a draw: what is left of a larger
\* class is no more, so it was sampled more.
LEMMA TopUpDrawn ==
    ASSUME half \in Half, Labelled(pool[half], half), Drawn(take, pool[half]),
           NEW k \in MostLeft
    PROVE  LET f == [take EXCEPT ![Class[k]] = @ + 1]
           IN  Drawn(f, pool[half]) /\ SumFunction(f) = SumFunction(take) + 1
<1> DEFINE all == pool[half]
           D == DOMAIN all
           f == [take EXCEPT ![Class[k]] = @ + 1]
<1>1. /\ IsFiniteSet(D) /\ DOMAIN take = D /\ take \in [D -> Int]
      /\ \A c \in D : take[c] \in Nat /\ all[c] \in Nat /\ take[c] <= all[c]
    BY DrawnNumbers
<1>2. PICK e \in D : e = Class[k] /\ Left(e) > 0
    BY <1>1 DEF MostLeft
<1>3. \A d \in D : Left(d) <= Left(e)
    <2> SUFFICES ASSUME NEW d \in D PROVE Left(d) <= Left(e)
        OBVIOUS
    <2>1. PICK m \in DOMAIN Class : d = Class[m]
        BY DEF Labelled, ClassesOf, Range
    <2>2. Left(d) < Left(e) \/ Left(d) = Left(e)
        BY <1>1, <1>2, <2>1 DEF MostLeft
    <2>3. Left(d) \in Int /\ Left(e) \in Int
        BY <1>1 DEF Left
    <2> QED BY <2>2, <2>3
<1>4. \A c \in D : f[c] = IF c = e THEN take[c] + 1 ELSE take[c]
    BY <1>1, <1>2
<1>5. \A c \in D : Least(all[c]) \in Nat /\ Least(all[c]) <= take[c] /\ all[c] - take[c] <= all[e] - take[e]
    BY <1>1, <1>3, LeastFacts DEF Drawn, Left
<1>6. take[e] + 1 <= all[e]
    BY <1>1, <1>2 DEF Left
<1>7. DOMAIN f = D /\ f \in [D -> Nat]
    BY <1>1, <1>4
<1>8. \A c \in D : f[c] \in Least(all[c])..all[c]
    BY <1>1, <1>4, <1>5, <1>6
<1>9. ASSUME NEW c \in D, NEW d \in D, all[c] < all[d]
      PROVE  f[c] <= f[d]
    <2>1. take[c] <= take[d]
        BY <1>9 DEF Drawn
    <2>2. CASE c = e
        BY <1>1, <1>4, <1>5, <1>9, <2>2
    <2>3. CASE c # e
        BY <1>1, <1>4, <2>1, <2>3
    <2> QED BY <2>2, <2>3
<1>10. SumFunction(f) = SumFunction(take) + 1
    BY <1>1, <1>2, SumOne
<1> HIDE DEF f
<1>11. Drawn(f, all)
    BY <1>7, <1>8, <1>9 DEF Drawn
<1> QED BY <1>10, <1>11 DEF f

-----------------------------------------------------------------------------
\* The numbers of cases.
LEMMA CaseNumbers ==
    ASSUME NEW k \in DOMAIN Period, NEW c PROVE Cases(k, c) \in Nat
<1> DEFINE count == IF c \in DOMAIN Period[k].mix THEN Period[k].mix[c] ELSE 0
<1>1. count \in Nat
    BY PeriodAssumption
<1>2. Cases(k, c) = IF c = "h_dup_amount" THEN 2 * (count \div 2) ELSE count
    BY DEF Cases
<1> HIDE DEF count
<1>3. count \div 2 \in Nat
    BY <1>1, Division
<1> QED BY <1>1, <1>2, <1>3

LEMMA MixNumbers ==
    ASSUME CasesBuilt, NEW c PROVE Mix(c) \in Nat
BY PeriodAssumption, CaseNumbers DEF CasesBuilt, Mix

LEMMA JuneNumbers ==
    ASSUME CasesBuilt, NEW c PROVE InJune(c) \in Nat
<1>1. CASE c \in Deferred
    <2>1. IsFiniteSet({m \in mistyped : m.period = 1})
        BY FS_Subset DEF CasesBuilt
    <2> QED BY <1>1, <2>1, FS_CardinalityType DEF InJune
<1>2. CASE c \notin Deferred
    <2> DEFINE B == {b \in built : b.period = 1 /\ b.class = c}
               N == {b.count : b \in B}
               f == [b \in B |-> b.count]
    <2>1. IsFiniteSet(B) /\ N \in SUBSET Nat
        BY FS_Subset DEF CasesBuilt
    <2>2. f \in Surjection(B, N)
        BY DEF Surjection
    <2>3. IsFiniteSet(N)
        BY <2>1, <2>2, FS_Surjection
    <2>4. SumSet(N) \in Nat
        BY <2>1, <2>3, SetSumNat
    <2> QED BY <1>2, <2>4 DEF InJune
<1> QED BY <1>1, <1>2

LEMMA DInvInit == DInit => DInv
<1> SUFFICES ASSUME DInit PROVE DInv
    OBVIOUS
<1>1. 1 \in 1..Len(Period)
    BY PeriodAssumption
<1>2. CasesBuilt
    BY <1>1, FS_EmptySet DEF DInit, CasesBuilt
<1>3. DOMAIN golden = {}
    BY DEF DInit
<1> QED BY <1>2, <1>3 DEF DInit, DInv, Building, Sampling, Half, Complete

\* Building leaves the draw as it is.
LEMMA BuildKeeps ==
    ASSUME DInv, Building, CasesBuilt', Building', UNCHANGED drawing PROVE DInv'
<1>1. /\ half = "clean" /\ golden = <<>> /\ DOMAIN golden = {}
    BY DEF DInv, Complete, Building
<1>2. half' = "clean" /\ golden' = <<>> /\ DOMAIN golden' = {}
    BY <1>1 DEF drawing
<1>3. ~ Sampling' /\ phase' \notin {"share", "top"}
    BY DEF Building, Sampling
<1>4. Complete' = {}
    BY <1>2, <1>3 DEF Complete, Sampling
<1> QED BY <1>2, <1>3, <1>4 DEF DInv, Half

LEMMA BuildClassInv == ASSUME DInv, BuildClass PROVE DInv'
<1>1. Building /\ Building'
    BY DEF BuildClass, Building
<1>2. UNCHANGED <<period, mistyped, drawing>>
    BY DEF BuildClass
<1>3. PICK b : built' = built \cup {b} /\ b.count \in Nat
    <2> DEFINE c == Class[class]
               count == IF c \in Deferred THEN 0 ELSE Mix(c)
               b == Block(c, SideOf(c), count, count * DocsPerCase(c))
    <2>1. count \in Nat
        BY MixNumbers DEF DInv
    <2>2. b.count = count
        BY DEF Block
    <2>3. built' = built \cup {b}
        BY DEF BuildClass
    <2> HIDE DEF b, count
    <2> QED BY <2>1, <2>2, <2>3
<1>4. CasesBuilt'
    <2>1. IsFiniteSet(built') /\ \A x \in built' : x.count \in Nat
        BY <1>3, FS_AddElement DEF DInv, CasesBuilt
    <2> QED BY <1>2, <2>1 DEF DInv, CasesBuilt
<1> QED BY <1>1, <1>2, <1>4, BuildKeeps

LEMMA AddDistractorsInv == ASSUME DInv, AddDistractors PROVE DInv'
<1>1. Building /\ Building'
    BY DEF AddDistractors, Building
<1>2. UNCHANGED <<period, mistyped, drawing>>
    BY DEF AddDistractors
<1>3. PICK a, b : built' = built \cup {a, b} /\ a.count = 0 /\ b.count = 0
    <2> DEFINE all == Period[period].distractors
               bills == (all + 2) \div 3
               a == Block("distractor", "AP", 0, bills)
               b == Block("distractor", "AR", 0, all - bills)
    <2>1. a.count = 0 /\ b.count = 0
        BY DEF Block
    <2>2. built' = built \cup {a, b}
        BY DEF AddDistractors
    <2> HIDE DEF a, b
    <2> QED BY <2>1, <2>2
<1>4. CasesBuilt'
    <2>1. built' = (built \cup {a}) \cup {b}
        BY <1>3
    <2>2. IsFiniteSet(built')
        BY <2>1, FS_AddElement DEF DInv, CasesBuilt
    <2>3. \A x \in built' : x.count \in Nat
        BY <1>3 DEF DInv, CasesBuilt
    <2> QED BY <1>2, <2>2, <2>3 DEF DInv, CasesBuilt
<1> QED BY <1>1, <1>2, <1>4, BuildKeeps

LEMMA BuildMistypedInv == ASSUME DInv, BuildMistyped PROVE DInv'
<1>1. Building /\ Building'
    BY DEF BuildMistyped, Building
<1>2. UNCHANGED <<period, built, drawing>>
    BY DEF BuildMistyped
<1>3. PICK m : mistyped' = mistyped \cup {m}
    <2> DEFINE n == issued.AR + 1
               found == Exchanges(n)
               m == [period |-> period, number |-> n,
                     quoted |-> IF found = {} THEN 9001 + phantom ELSE Tried(n)[Min(found)]]
    <2>1. mistyped' = mistyped \cup {m}
        BY DEF BuildMistyped
    <2> HIDE DEF m
    <2> QED BY <2>1
<1>4. CasesBuilt'
    <2>1. IsFiniteSet(mistyped')
        BY <1>3, FS_AddElement DEF DInv, CasesBuilt
    <2> QED BY <1>2, <2>1 DEF DInv, CasesBuilt
<1> QED BY <1>1, <1>2, <1>4, BuildKeeps

LEMMA PeriodBuiltInv == ASSUME DInv, PeriodBuilt PROVE DInv'
<1>1. /\ Building /\ half = "clean" /\ golden = <<>> /\ DOMAIN golden = {} /\ CasesBuilt
    BY DEF PeriodBuilt, Building, DInv, Complete
<1>2. UNCHANGED <<built, mistyped, half, take, golden>>
    BY DEF PeriodBuilt
<1>3. period \in 1..Len(Period) /\ Len(Period) \in Nat
    BY <1>1, PeriodAssumption DEF CasesBuilt
<1>4. CASE period < Len(Period)
    <2>1. Building' /\ period' = period + 1 /\ UNCHANGED drawing
        BY <1>2, <1>4 DEF PeriodBuilt, Building, drawing
    <2>2. CasesBuilt'
        BY <1>1, <1>2, <1>3, <1>4, <2>1 DEF CasesBuilt
    <2> QED BY <1>1, <2>1, <2>2, BuildKeeps
<1>5. CASE ~ (period < Len(Period))
    <2>1. /\ phase' = "floor" /\ quota' \in Quota /\ period' = period
          /\ pool' = [h \in Half |-> [c \in {c \in JuneClasses : c \in HardClass <=> h = "hard"}
                                         |-> InJune(c)]]
        BY <1>5 DEF PeriodBuilt
    <2>2. CasesBuilt'
        BY <1>1, <1>2, <2>1 DEF CasesBuilt
    <2>3. ASSUME NEW h \in Half
          PROVE  Labelled(pool'[h], h)
        <3> DEFINE D == {c \in JuneClasses : c \in HardClass <=> h = "hard"}
        <3>1. pool'[h] = [c \in D |-> InJune(c)]
            BY <2>1
        <3>2. D \subseteq ClassesOf(h) /\ \A c \in D : InJune(c) \in Nat \ {0}
            BY <1>1, JuneNumbers DEF JuneClasses, ClassesOf
        <3> HIDE DEF D
        <3> QED BY <3>1, <3>2 DEF Labelled
    <2>5. DOMAIN pool' = Half /\ \A h \in Half : Labelled(pool'[h], h)
        BY <2>1, <2>3
    <2>6. Complete' = {} /\ DOMAIN golden' = {} /\ half' = "clean"
        BY <1>1, <1>2, <2>1 DEF Complete
    <2> QED BY <1>2, <2>1, <2>2, <2>5, <2>6 DEF DInv, Building, Sampling, Half
<1> QED BY <1>4, <1>5

\* The sampling keeps what was built, the quotas and the pool.
SampleKept == UNCHANGED <<period, built, mistyped, quota, pool>>

LEMMA Kept == ASSUME DInv, Sampling, SampleKept
              PROVE  /\ CasesBuilt' /\ quota' \in Quota /\ DOMAIN pool' = Half
                     /\ (\A h \in Half : Labelled(pool[h], h))'
                     /\ Labelled(pool[half], half) /\ half \in Half /\ quota[half] \in Nat
<1>1. CasesBuilt'
    BY DEF SampleKept, DInv, CasesBuilt
<1>2. quota' \in Quota /\ pool' = pool /\ DOMAIN pool = Half
    BY DEF DInv, SampleKept
<1>3. \A h \in Half : Labelled(pool[h], h)
    BY DEF DInv
<1>4. half \in Half /\ quota \in Quota
    BY DEF DInv
<1>5. quota[half] \in Nat
    BY <1>4, SampleAssumption
<1> QED BY <1>1, <1>2, <1>3, <1>4, <1>5

\* What a half that is complete keeps.
Finished(h) == /\ Drawn(golden[h], pool[h])
               /\ SumFunction(golden[h]) = Min({quota[h], SumFunction(pool[h])})

LEMMA StillFinished ==
    ASSUME UNCHANGED <<quota, pool>>, NEW h, golden'[h] = golden[h], Finished(h)
    PROVE  Finished(h)'
BY DEF Finished, Drawn

\* A step within a half.
LEMMA WithinHalf ==
    ASSUME DInv, Sampling, Sampling', phase # "drawn", phase' # "drawn", SampleKept,
           UNCHANGED <<half, golden>>,
           phase' \in {"share", "top"} => Drawn(take', pool[half]),
           phase' = "share" => take' = Floors(pool[half])
    PROVE  DInv'
<1>1. /\ CasesBuilt' /\ quota' \in Quota /\ DOMAIN pool' = Half
      /\ (\A h \in Half : Labelled(pool[h], h))' /\ half \in Half
    BY Kept
<1>2. ~ Building'
    BY DEF Building, Sampling
<1>3. pool' = pool /\ quota' = quota /\ half' = half /\ golden' = golden
    BY DEF SampleKept
<1>4. phase' = "share" => take' = [c \in DOMAIN pool'[half'] |-> Least(pool'[half'][c])]
    BY <1>3 DEF Floors
<1>5. phase' \in {"share", "top"} => Drawn(take, pool[half])'
    BY <1>3 DEF Drawn
<1>6. Complete' = Complete
    BY <1>3 DEF Complete
<1>7. DOMAIN golden' = Complete'
    BY <1>3, <1>6 DEF DInv
<1>8. ASSUME NEW h \in Complete
      PROVE  Finished(h)'
    BY <1>3, StillFinished DEF DInv, Finished
<1>9. (\A h \in Complete : Finished(h))'
    BY <1>6, <1>8
<1> QED BY <1>1, <1>2, <1>3, <1>4, <1>5, <1>7, <1>9 DEF DInv, Finished

LEMMA TakeFloorInv == ASSUME DInv, TakeFloor PROVE DInv'
<1>1. /\ Sampling /\ Sampling' /\ phase # "drawn" /\ phase' = "share" /\ SampleKept
      /\ UNCHANGED <<half, golden>>
    BY DEF TakeFloor, Sampling, SampleKept
<1>2. take' = Floors(pool[half])
    BY DEF TakeFloor, Floors
<1>3. Drawn(Floors(pool[half]), pool[half])
    BY <1>1, Kept, FloorsDrawn
<1> QED BY <1>1, <1>2, <1>3, WithinHalf

\* The step of the shares, of its budget and its total.
LEMMA TakeShareIs ==
    ASSUME DInv, TakeShare
    PROVE  LET total == SumFunction([c \in DOMAIN pool[half] |-> pool[half][c] - take[c]])
               budget == quota[half] - SumFunction(take)
           IN  take' = Shares(pool[half], take, budget, total)
<1>1. phase = "share"
    BY DEF TakeShare
<1>2. DOMAIN take = DOMAIN pool[half]
    BY <1>1 DEF DInv, Drawn
<1> DEFINE spare == [c \in DOMAIN take |-> pool[half][c] - take[c]]
           budget == quota[half] - SumFunction(take)
           total == SumFunction(spare)
<1>3. take' = [c \in DOMAIN take |-> take[c] + Share(spare[c], budget, total)]
    BY DEF TakeShare, Share
<1>4. \A c \in DOMAIN take : spare[c] = pool[half][c] - take[c]
    OBVIOUS
<1>5. spare = [c \in DOMAIN pool[half] |-> pool[half][c] - take[c]]
    BY <1>2
<1> HIDE DEF spare
<1>6. take' = [c \in DOMAIN pool[half] |-> take[c] + Share(pool[half][c] - take[c], budget, total)]
    BY <1>2, <1>3, <1>4
<1> QED BY <1>5, <1>6 DEF Shares

LEMMA TakeShareInv == ASSUME DInv, TakeShare PROVE DInv'
<1>1. /\ Sampling /\ Sampling' /\ phase = "share" /\ phase' = "top" /\ SampleKept
      /\ UNCHANGED <<half, golden>>
    BY DEF TakeShare, Sampling, SampleKept
<1>2. /\ Labelled(pool[half], half) /\ half \in Half /\ quota[half] \in Int
      /\ take = Floors(pool[half]) /\ Drawn(take, pool[half])
    BY <1>1, Kept DEF DInv, Floors
<1> DEFINE total == SumFunction([c \in DOMAIN pool[half] |-> pool[half][c] - take[c]])
           budget == quota[half] - SumFunction(take)
<1>3. take' = Shares(pool[half], take, budget, total)
    BY TakeShareIs
<1>4. budget \in Int /\ total \in Int
    <2>1. SumFunction(take) \in Int /\ IsFiniteSet(DOMAIN pool[half])
        BY <1>2, DrawnNumbers
    <2>2. [c \in DOMAIN pool[half] |-> pool[half][c] - take[c]] \in [DOMAIN pool[half] -> Int]
        BY <1>2, DrawnNumbers
    <2>3. total \in Int
        BY <2>1, <2>2, SumInt
    <2> QED BY <1>2, <2>1, <2>3
<1> HIDE DEF total, budget
<1>5. Drawn(take', pool[half])
    BY <1>2, <1>3, <1>4, SharesDrawn
<1> QED BY <1>1, <1>5, WithinHalf

LEMMA TopUpInv == ASSUME DInv, TopUp PROVE DInv'
<1>1. /\ Sampling /\ Sampling' /\ phase = "top" /\ phase' = "top" /\ SampleKept
      /\ UNCHANGED <<half, golden>>
    BY DEF TopUp, Sampling, SampleKept, building
<1>2. /\ Labelled(pool[half], half) /\ half \in Half /\ Drawn(take, pool[half])
    BY <1>1, Kept DEF DInv
<1>3. PICK k \in MostLeft : take' = [take EXCEPT ![Class[k]] = @ + 1]
    BY DEF TopUp
<1>4. Drawn(take', pool[half])
    BY <1>2, <1>3, TopUpDrawn
<1> QED BY <1>1, <1>4, WithinHalf

LEMMA DrawInv == ASSUME DInv, Draw PROVE DInv'
<1>1. /\ Sampling /\ phase = "top" /\ SampleKept /\ golden' = Merged([h \in {half} |-> take], golden)
    BY DEF Draw, Sampling, SampleKept
<1>2. /\ CasesBuilt' /\ quota' \in Quota /\ DOMAIN pool' = Half
      /\ (\A h \in Half : Labelled(pool[h], h))' /\ half \in Half
      /\ Labelled(pool[half], half) /\ quota[half] \in Nat
    BY <1>1, Kept
<1>3. pool' = pool /\ quota' = quota
    BY <1>1 DEF SampleKept
<1>4. Drawn(take, pool[half])
    BY <1>1 DEF DInv
<1>5. SumFunction(take) = Min({quota[half], SumFunction(pool[half])})
    <2>1. /\ SumFunction(take) \in Int /\ SumFunction(pool[half]) \in Int
          /\ SumFunction(take) <= SumFunction(pool[half])
        BY <1>2, <1>4, DrawnNumbers
    <2>2. Min({quota[half], SumFunction(pool[half])}) =
             IF quota[half] <= SumFunction(pool[half]) THEN quota[half] ELSE SumFunction(pool[half])
        BY <1>2, <2>1, PairMin
    <2>3. CASE SumFunction(take) = quota[half]
        BY <2>1, <2>2, <2>3
    <2>4. CASE SumFunction(take) < quota[half] /\ MostLeft = {}
        <3>1. take = pool[half]
            BY <1>2, <1>4, <2>4, MostLeftExists
        <3> QED BY <1>2, <2>1, <2>2, <2>4, <3>1
    <2> QED BY <2>3, <2>4 DEF Draw
<1>6. /\ DOMAIN golden' = {half} \cup DOMAIN golden /\ golden'[half] = take
      /\ \A h \in DOMAIN golden : h # half => golden'[h] = golden[h]
    BY <1>1 DEF Merged
<1>7. Complete' = {half} \cup Complete /\ half \notin Complete
    BY <1>1, <1>2 DEF Draw, Complete, Half
<1>8. DOMAIN golden' = Complete'
    BY <1>6, <1>7 DEF DInv
<1>9. ASSUME NEW h \in Complete'
      PROVE  Finished(h)'
    <2>1. CASE h = half
        BY <1>3, <1>4, <1>5, <1>6, <2>1 DEF Finished, Drawn
    <2>2. CASE h # half
        <3>1. h \in Complete /\ golden'[h] = golden[h] /\ Finished(h)
            BY <1>6, <1>7, <2>2 DEF DInv, Finished
        <3> QED BY <1>3, <3>1, StillFinished
    <2> QED BY <2>1, <2>2
<1>10. /\ Sampling' /\ ~ Building' /\ half' \in Half /\ phase' \notin {"share", "top"}
    BY <1>2 DEF Draw, Sampling, Building, Half
<1>11. (\A h \in Complete : Finished(h))'
    BY <1>9
<1> QED BY <1>2, <1>8, <1>10, <1>11 DEF DInv, Finished

LEMMA DInvStep == DInv /\ [Next]_vars => DInv'
<1> SUFFICES ASSUME DInv, [Next]_vars PROVE DInv'
    OBVIOUS
<1>1. CASE DNext
    BY <1>1, BuildClassInv, AddDistractorsInv, BuildMistypedInv, PeriodBuiltInv, TakeFloorInv,
       TakeShareInv, TopUpInv, DrawInv DEF DNext
<1>2. CASE UNCHANGED dvars
    BY <1>2 DEF DInv, Building, Sampling, CasesBuilt, Labelled, Drawn, Complete, dvars, building,
       drawing
<1>3. DNext \/ UNCHANGED dvars
    BY DEF Next, vars, Begin, Clear, MeasureBefore, IndexPairs, MeasureAfter, ClearAgain,
       FeedbackFails, ScoreRun, WriteReport, Check, SetBaseline, Die
<1> QED BY <1>1, <1>2, <1>3

LEMMA DInvHolds == Spec => []DInv
<1>1. Init => DInv
    BY DInvInit DEF Init
<1> QED BY <1>1, DInvStep, PTL DEF Spec

\* Within a half no more is drawn than the quota.
WithinQuota == phase \in {"share", "top"} => SumFunction(take) <= quota[half]

LEMMA QuotaStep ==
    ASSUME RoomForFloors, DInv, WithinQuota, [Next]_vars PROVE WithinQuota'
<1>1. DNext \/ UNCHANGED dvars
    BY DEF Next, vars, Begin, Clear, MeasureBefore, IndexPairs, MeasureAfter, ClearAgain,
       FeedbackFails, ScoreRun, WriteReport, Check, SetBaseline, Die
<1>2. CASE UNCHANGED dvars
    BY <1>2 DEF WithinQuota, dvars, building, drawing
<1>3. CASE BuildClass \/ AddDistractors \/ BuildMistyped \/ PeriodBuilt \/ Draw
    BY <1>3 DEF BuildClass, AddDistractors, BuildMistyped, PeriodBuilt, Draw, WithinQuota, DInv,
       Building, Half
<1>4. CASE TakeFloor
    <2>1. Sampling /\ half \in Half /\ quota \in Quota /\ Labelled(pool[half], half)
        BY <1>4 DEF TakeFloor, Sampling, DInv
    <2>2. take' = Floors(pool[half]) /\ half' = half /\ quota' = quota
        BY <1>4 DEF TakeFloor, Floors
    <2>3. SumFunction(Floors(pool[half])) <= quota[half]
        BY <2>1, FloorsFit
    <2> QED BY <2>2, <2>3 DEF WithinQuota
<1>5. CASE TakeShare
    <2>1. /\ phase = "share" /\ Sampling /\ half' = half /\ quota' = quota /\ half \in Half
          /\ quota \in Quota /\ Labelled(pool[half], half) /\ Drawn(take, pool[half])
        BY <1>5 DEF TakeShare, Sampling, DInv
    <2>2. quota[half] \in Int /\ SumFunction(take) <= quota[half]
        BY <2>1, SampleAssumption DEF WithinQuota
    <2> DEFINE total == SumFunction([c \in DOMAIN pool[half] |-> pool[half][c] - take[c]])
               given == Shares(pool[half], take, quota[half] - SumFunction(take), total)
    <2>3. SumFunction(given) <= quota[half]
        BY <2>1, <2>2, SharesFit
    <2>4. take' = given
        BY <1>5, TakeShareIs
    <2> HIDE DEF given
    <2> QED BY <2>1, <2>3, <2>4 DEF WithinQuota
<1>6. CASE TopUp
    <2>1. /\ phase = "top" /\ Sampling /\ UNCHANGED <<half, quota>> /\ half \in Half
          /\ quota \in Quota /\ Labelled(pool[half], half) /\ Drawn(take, pool[half])
          /\ SumFunction(take) < quota[half]
        BY <1>6 DEF TopUp, Sampling, DInv
    <2>2. PICK k \in MostLeft : take' = [take EXCEPT ![Class[k]] = @ + 1]
        BY <1>6 DEF TopUp
    <2>3. SumFunction(take') = SumFunction(take) + 1
        BY <2>1, <2>2, TopUpDrawn
    <2>4. SumFunction(take) \in Int /\ quota[half] \in Int
        BY <2>1, DrawnNumbers, SampleAssumption
    <2>5. SumFunction(take') <= quota[half]
        BY <2>1, <2>3, <2>4
    <2> QED BY <2>1, <2>5 DEF WithinQuota
<1> QED BY <1>1, <1>2, <1>3, <1>4, <1>5, <1>6 DEF DNext

\* SampleIsStratified for any mixes, quotas and floor: each half of the golden set ends
\* with its quota or with everything there is, every class with at least its floor and
\* no less than a smaller one. That the quota is not exceeded on the way needs the
\* quotas to hold the floors; above it the program would not end (generator.py 715-752).
THEOREM SampleCorrect ==
    ASSUME RoomForFloors
    PROVE  Spec => []SampleIsStratified
<1>1. Init => WithinQuota
    BY DEF Init, DInit, WithinQuota
<1>2. DInv /\ WithinQuota /\ [Next]_vars => WithinQuota'
    BY QuotaStep
<1>3. DInv /\ WithinQuota => SampleIsStratified
    BY DEF DInv, WithinQuota, SampleIsStratified, Drawn
<1> QED BY <1>1, <1>2, <1>3, DInvHolds, PTL DEF Spec

-----------------------------------------------------------------------------
\* The value d at one place and nothing elsewhere sums to d.
At(D, k, d) == [c \in D |-> IF c = k THEN d ELSE 0]

LEMMA SumAt ==
    ASSUME NEW D, IsFiniteSet(D), NEW k \in D, NEW d \in Int
    PROVE  SumFunction(At(D, k, d)) = d
<1> DEFINE f == At(D, k, d)
<1>0. f \in [D -> Int] /\ f[k] = d /\ \A c \in D : c # k => f[c] = 0
    BY DEF At
<1> HIDE DEF f
<1>1. PICK t : SumTable(t, f, D) /\ SumFunction(f) = t[D]
    BY <1>0, FunctionSums
<1> DEFINE G == {s \in SUBSET D : t[s] = IF k \in s THEN d ELSE 0}
<1>2. {} \in G
    BY <1>1 DEF SumTable
<1>3. \A s \in SUBSET D : s # {} /\ s \ {Some(s)} \in G => s \in G
    <2> SUFFICES ASSUME NEW s \in SUBSET D, s # {}, s \ {Some(s)} \in G PROVE s \in G
        OBVIOUS
    <2>1. Some(s) \in s /\ Some(s) \in D /\ t[s] = f[Some(s)] + t[s \ {Some(s)}]
        BY <1>1, Smaller DEF SumTable
    <2>2. t[s \ {Some(s)}] = IF k \in s /\ k # Some(s) THEN d ELSE 0
        OBVIOUS
    <2> QED BY <1>0, <2>1, <2>2
<1> HIDE DEF G
<1>4. SUBSET D \subseteq G
    BY <1>2, <1>3, SubsetInduction
<1> QED BY <1>1, <1>4 DEF G, f

\* The invoices of the classes, one class after the other.
LEMMA InvoiceNumbers ==
    ASSUME NEW k \in DOMAIN Period, NEW p
    PROVE  Invoices(k, p) \in Nat
<1>1. Cases(k, Class[p]) \in Nat
    BY CaseNumbers
<1>2. DocsPerCase(Class[p]) \in {0, 1, 6}
    BY DEF DocsPerCase
<1>3. Cases(k, Class[p]) * DocsPerCase(Class[p]) \in Nat
    BY <1>1, <1>2
<1> QED BY <1>3 DEF Invoices

LEMMA InvoicesAdd ==
    ASSUME NEW k \in DOMAIN Period
    PROVE  /\ InvoicesBefore(k, 1) = 0
           /\ \A p \in 1..15 : InvoicesBefore(k, p) \in Nat
           /\ \A p \in 1..14 : InvoicesBefore(k, p + 1) = InvoicesBefore(k, p) + Invoices(k, p)
<1> DEFINE f(p) == [i \in 1..14 |-> IF i < p THEN Invoices(k, i) ELSE 0]
<1>0. Len(Class) = 14
    BY DEF Class
<1>1. Len(Class) = 14 /\ IsFiniteSet(1..14)
    <2>1. PICK b \in Int : b = 14
        OBVIOUS
    <2>2. IsFiniteSet(1..b)
        BY FS_Interval
    <2> QED BY <1>0, <2>1, <2>2
<1>2. \A p : InvoicesBefore(k, p) = SumFunction(f(p))
    BY <1>1 DEF InvoicesBefore
<1>3. \A p \in 1..15 : f(p) \in [1..14 -> Nat]
    BY InvoiceNumbers
<1>4. InvoicesBefore(k, 1) = 0
    <2>1. f(1) = At(1..14, 1, 0)
        BY DEF At
    <2>2. SumFunction(At(1..14, 1, 0)) = 0
        BY <1>1, SumAt
    <2> QED BY <1>2, <2>1, <2>2
<1>5. ASSUME NEW p \in 1..15
      PROVE  InvoicesBefore(k, p) \in Nat
    <2>1. f(p) \in [1..14 -> Nat]
        BY <1>3
    <2> HIDE DEF f
    <2>2. SumFunction(f(p)) \in Nat
        BY <1>1, <2>1, SumNat
    <2> QED BY <1>2, <2>2
<1>6. ASSUME NEW p \in 1..14
      PROVE  InvoicesBefore(k, p + 1) = InvoicesBefore(k, p) + Invoices(k, p)
    <2> DEFINE d == Invoices(k, p)
               g == At(1..14, p, d)
    <2>1. d \in Int
        BY InvoiceNumbers
    <2>2. SumFunction(g) = d
        BY <1>1, <2>1, SumAt
    <2>3. f(p) \in [1..14 -> Int] /\ g \in [1..14 -> Int]
        BY <1>3, <2>1 DEF At
    <2>4. f(p + 1) = [i \in 1..14 |-> f(p)[i] + g[i]]
        BY <1>3, InvoiceNumbers DEF At
    <2>5. \A x \in [1..14 -> Int], y \in [1..14 -> Int] :
             SumFunction([i \in 1..14 |-> x[i] + y[i]]) = SumFunction(x) + SumFunction(y)
        BY <1>1, SumAdd
    <2> HIDE DEF f, g
    <2>6. SumFunction(f(p + 1)) = SumFunction(f(p)) + SumFunction(g)
        BY <2>3, <2>4, <2>5
    <2> QED BY <1>2, <2>2, <2>6
<1> QED BY <1>4, <1>5, <1>6

LEMMA KnownNumbers ==
    ASSUME NEW k \in DOMAIN Period
    PROVE  /\ Known(k) \in Nat /\ Issued(k) \in Nat /\ Known(k) <= Issued(k)
           /\ Period[k].distractors \in Nat
           /\ (Period[k].distractors + 2) \div 3 \in 0..Period[k].distractors
<1>1. InvoicesBefore(k, 15) \in Nat
    BY InvoicesAdd
<1>2. Period[k].distractors \in Nat
    BY PeriodAssumption
<1>3. (Period[k].distractors + 2) \div 3 \in 0..Period[k].distractors
    BY <1>2
<1>4. Known(k) = InvoicesBefore(k, 15) + Period[k].distractors
                 - (Period[k].distractors + 2) \div 3
    BY DEF Known, Class
<1>5. Cases(k, "h_transposed_ref") \in Nat
    BY CaseNumbers
<1> QED BY <1>1, <1>2, <1>3, <1>4, <1>5 DEF Issued

-----------------------------------------------------------------------------
\* Division by ten and its powers.
LEMMA ByTen ==
    ASSUME NEW a \in Nat
    PROVE  a \div 10 \in Nat /\ a % 10 \in 0..9 /\ a = 10 * (a \div 10) + (a % 10)
OBVIOUS

LEMMA ByMore ==
    ASSUME NEW m \in Nat
    PROVE  /\ m \div 100 = (m \div 10) \div 10
           /\ m \div 1000 = (m \div 100) \div 10
           /\ m \div 1 = m
OBVIOUS

\* A number of four digits, and what its first two exchanges are.
LEMMA DigitsOf ==
    ASSUME NEW m \in Nat, m <= 9999
    PROVE  /\ Digit(m, 1) \in 0..9 /\ Digit(m, 2) \in 0..9 /\ Digit(m, 3) \in 0..9
           /\ Digit(m, 4) \in 0..9
           /\ m = 1000 * Digit(m, 1) + 100 * Digit(m, 2) + 10 * Digit(m, 3) + Digit(m, 4)
<1>1. /\ Digit(m, 1) = (m \div 1000) % 10 /\ Digit(m, 2) = (m \div 100) % 10
      /\ Digit(m, 3) = (m \div 10) % 10 /\ Digit(m, 4) = (m \div 1) % 10
    BY DEF Digit
<1>2. /\ Digit(m, 1) \in 0..9 /\ Digit(m, 2) \in 0..9 /\ Digit(m, 3) \in 0..9
      /\ Digit(m, 4) \in 0..9
    BY <1>1
<1>3. m \div 10 \in Nat /\ m \div 100 \in Nat /\ m \div 1000 \in Nat /\ m \div 1000 <= 9
    OBVIOUS
<1>4. PICK a \in Nat, b \in Nat : a = m \div 10 /\ b = m \div 100
    BY <1>3
<1>5. m = 10 * a + Digit(m, 4)
    BY <1>1, <1>4, ByTen, ByMore
<1>6. a = 10 * b + Digit(m, 3)
    BY <1>1, <1>3, <1>4, ByTen, ByMore
<1>7. b = 10 * Digit(m, 1) + Digit(m, 2)
    <2>1. m \div 100 = 10 * (m \div 1000) + Digit(m, 2)
        BY <1>1, <1>3, ByTen, ByMore
    <2>2. m \div 1000 = Digit(m, 1)
        BY <1>1, <1>3
    <2> QED BY <1>4, <2>1, <2>2
<1>8. PICK d1 \in 0..9, d2 \in 0..9, d3 \in 0..9, d4 \in 0..9 :
          d1 = Digit(m, 1) /\ d2 = Digit(m, 2) /\ d3 = Digit(m, 3) /\ d4 = Digit(m, 4)
    BY <1>2
<1>9. m = 10 * a + d4 /\ a = 10 * b + d3 /\ b = 10 * d1 + d2
    BY <1>5, <1>6, <1>7, <1>8
<1>10. m = 1000 * d1 + 100 * d2 + 10 * d3 + d4
    BY <1>9
<1> QED BY <1>2, <1>8, <1>10

LEMMA FirstExchanges ==
    ASSUME NEW m \in Nat, 1 <= m, m <= 9999
    PROVE  /\ DOMAIN Tried(m) = 1..4
           /\ Tried(m)[1] = m + 90 * (Digit(m, 3) - Digit(m, 2))
           /\ Tried(m)[2] = m + 900 * (Digit(m, 2) - Digit(m, 1))
           /\ Tried(m)[1] >= 1
<1>1. /\ Tried(m)[1] = m + (Digit(m, 3) - Digit(m, 2)) * 90
      /\ Tried(m)[2] = m + (Digit(m, 2) - Digit(m, 1)) * 900
      /\ DOMAIN Tried(m) = 1..4
    BY DEF Tried, Exchanged
<1>2. PICK d1 \in 0..9, d2 \in 0..9, d3 \in 0..9, d4 \in 0..9 :
          d1 = Digit(m, 1) /\ d2 = Digit(m, 2) /\ d3 = Digit(m, 3) /\ d4 = Digit(m, 4)
    BY DigitsOf
<1>3. m + 90 * (d3 - d2) >= 1
    <2>1. m = 1000 * d1 + 100 * d2 + 10 * d3 + d4
        BY <1>2, DigitsOf
    <2> QED BY <2>1
<1>4. (d3 - d2) * 90 = 90 * (d3 - d2) /\ (d2 - d1) * 900 = 900 * (d2 - d1)
    OBVIOUS
<1> QED BY <1>1, <1>2, <1>3, <1>4

LEMMA LeastOf ==
    ASSUME NEW T \in SUBSET Nat, NEW k \in T, \A j \in T : k <= j
    PROVE  Min(T) = k
<1>1. \E x \in T : \A j \in T : x =< j
    OBVIOUS
<1>2. PICK x \in T : x = Min(T) /\ \A j \in T : x =< j
    BY <1>1, Zenon DEF Min
<1>3. x <= k /\ k <= x /\ x \in Nat /\ k \in Nat
    BY <1>2
<1> QED BY <1>2, <1>3

\* The exchange that is taken leads past all numbers of the period.
LEMMA LeadsPast ==
    ASSUME NEW last \in Nat, last <= 9000, NEW m \in Nat, 1 <= m, m <= last, last < m + 90,
           Digit(m, 2) < Digit(m, 3) \/ Digit(m, 1) < Digit(m, 2)
    PROVE  Exchanges(m) # {} /\ Tried(m)[Min(Exchanges(m))] > last
<1>1. m <= 9999
    OBVIOUS
<1>2. PICK d1 \in 0..9, d2 \in 0..9, d3 \in 0..9 :
          d1 = Digit(m, 1) /\ d2 = Digit(m, 2) /\ d3 = Digit(m, 3)
    BY <1>1, DigitsOf
<1>3. /\ DOMAIN Tried(m) = 1..4
      /\ Tried(m)[1] = m + 90 * (d3 - d2)
      /\ Tried(m)[2] = m + 900 * (d2 - d1)
      /\ Tried(m)[1] >= 1
    BY <1>1, <1>2, FirstExchanges
<1>4. /\ Exchanges(m) \in SUBSET Nat
      /\ \A j \in Exchanges(m) : j \in 1..4
      /\ \A j \in 1..4 : j \in Exchanges(m) <=> Tried(m)[j] # m /\ Tried(m)[j] \notin 1..m
    BY <1>3 DEF Exchanges
<1>5. CASE d2 < d3
    <2>1. Tried(m)[1] > last
        BY <1>3, <1>5
    <2>2. 1 \in Exchanges(m)
        BY <1>4, <2>1
    <2>3. Min(Exchanges(m)) = 1
        BY <1>4, <2>2, LeastOf
    <2> QED BY <2>1, <2>2, <2>3
<1>6. CASE ~ (d2 < d3)
    <2>1. d1 < d2
        BY <1>2, <1>6
    <2>2. Tried(m)[2] > last
        BY <1>3, <2>1
    <2>3. Tried(m)[1] \in 1..m
        BY <1>3, <1>6
    <2>4. 1 \notin Exchanges(m) /\ 2 \in Exchanges(m)
        BY <1>4, <2>2, <2>3
    <2>5. Min(Exchanges(m)) = 2
        BY <1>4, <2>4, LeastOf
    <2> QED BY <2>2, <2>4, <2>5
<1> QED BY <1>5, <1>6

\* The numbers of a period that are taken so far, or at all, and its wrong references.
Taken(k) == IF Building /\ k = period THEN issued.AR ELSE Issued(k)
Wrong == {m \in mistyped : m.period = period}

\* The series of invoices at each stage, and the documents it was used for.
Counting ==
    /\ issued \in [{"AR", "AP"} -> Nat] /\ phantom \in Nat
    /\ phase = "cases" => class \in 1..14 /\ issued.AR = InvoicesBefore(period, class)
    /\ phase = "distractors" => issued.AR = InvoicesBefore(period, 15)
    /\ phase \in {"cases", "distractors"} => Wrong = {}
    /\ phase = "mistyped" => /\ issued.AR = Known(period) + Cardinality(Wrong)
                             /\ Cardinality(Wrong) <= Mix("h_transposed_ref")

BuiltBelow ==
    \A b \in built : /\ b.period \in 1..period
                     /\ b.side = "AR" => b.numbers \subseteq 1..Taken(b.period)

MistypedBeyond ==
    \A m \in mistyped : /\ m.period \in 1..period
                        /\ m.number \in 1..Taken(m.period)
                        /\ m.quoted \notin 1..Issued(m.period)

Numbered == Counting /\ BuiltBelow /\ MistypedBeyond

\* Wrong references are chosen one by one.
LEMMA WrongFinite == CasesBuilt => IsFiniteSet(Wrong) /\ Cardinality(Wrong) \in Nat
BY FS_Subset, FS_CardinalityType DEF CasesBuilt, Wrong

LEMMA NumberedInit == DInit => Numbered
<1> SUFFICES ASSUME DInit PROVE Numbered
    OBVIOUS
<1>1. 1 \in DOMAIN Period
    BY PeriodAssumption
<1>2. InvoicesBefore(1, 1) = 0
    BY <1>1, InvoicesAdd
<1>3. Wrong = {}
    BY DEF DInit, Wrong
<1> QED BY <1>2, <1>3 DEF DInit, Numbered, Counting, BuiltBelow, MistypedBeyond, NoneIssued

LEMMA BuildClassNumbered == ASSUME CasesBuilt, Numbered, BuildClass PROVE Numbered'
<1> DEFINE c == Class[class]
           docs == (IF c \in Deferred THEN 0 ELSE Mix(c)) * DocsPerCase(c)
           b == Block(c, SideOf(c), IF c \in Deferred THEN 0 ELSE Mix(c), docs)
<1>1. /\ phase = "cases" /\ class \in 1..14 /\ issued.AR = InvoicesBefore(period, class)
      /\ issued \in [{"AR", "AP"} -> Nat] /\ Wrong = {} /\ period \in DOMAIN Period
    BY PeriodAssumption DEF BuildClass, Numbered, Counting, CasesBuilt
<1>2. /\ built' = built \cup {b} /\ issued' = [issued EXCEPT ![SideOf(c)] = @ + docs]
      /\ class' = class + 1 /\ phase' = IF class = 14 THEN "distractors" ELSE "cases"
      /\ UNCHANGED <<period, phantom, mistyped>>
    <2>1. Len(Class) = 14
        BY DEF Class
    <2> QED BY <2>1 DEF BuildClass
<1>3. SideOf(c) \in {"AR", "AP"}
    BY DEF SideOf
<1>4. docs \in Nat
    <2>1. DocsPerCase(c) \in {0, 1, 6}
        BY DEF DocsPerCase
    <2>2. Mix(c) \in Nat
        BY MixNumbers
    <2> HIDE DEF c
    <2> QED BY <2>1, <2>2
<1>5. b.period = period /\ b.side = SideOf(c)
      /\ b.numbers = (issued[SideOf(c)] + 1)..(issued[SideOf(c)] + docs)
    BY DEF Block
<1>6. Invoices(period, class) = IF SideOf(c) = "AR" THEN docs ELSE 0
    <2>1. Mix(c) = Cases(period, c)
        BY DEF Mix
    <2>2. DocsPerCase(c) \in {0, 1, 6}
        BY DEF DocsPerCase
    <2> QED BY <2>1, <2>2 DEF Invoices
<1> HIDE DEF docs, b, c
<1>7. issued' \in [{"AR", "AP"} -> Nat]
    BY <1>1, <1>2, <1>3, <1>4
<1>8. issued.AR \in Nat /\ issued'.AR = issued.AR + IF SideOf(c) = "AR" THEN docs ELSE 0
    BY <1>1, <1>2, <1>3, <1>4
<1>9. issued'.AR = InvoicesBefore(period, class + 1)
    BY <1>1, <1>6, <1>8, InvoicesAdd
<1>10. Building /\ Building'
    BY <1>1, <1>2 DEF Building
<1>11. \A k : Taken(k)' = IF k = period THEN issued'.AR ELSE Taken(k)
    BY <1>2, <1>10 DEF Taken
<1>12. Taken(period) = issued.AR
    BY <1>10 DEF Taken
<1>13. Wrong' = {}
    BY <1>1, <1>2 DEF Wrong
<1>14. BuiltBelow'
    <2> SUFFICES ASSUME NEW x \in built'
                 PROVE  /\ x.period \in 1..period
                        /\ x.side = "AR" => x.numbers \subseteq 1..Taken(x.period)'
        BY <1>2 DEF BuiltBelow
    <2>1. CASE x \in built
        <3>1. x.period \in 1..period /\ (x.side = "AR" => x.numbers \subseteq 1..Taken(x.period))
            BY <2>1 DEF Numbered, BuiltBelow
        <3>2. CASE x.period = period
            BY <1>4, <1>8, <1>11, <1>12, <3>1, <3>2
        <3>3. CASE x.period # period
            BY <1>11, <3>1, <3>3
        <3> QED BY <3>2, <3>3
    <2>2. CASE x = b
        <3>1. x.period \in 1..period
            BY <1>1, <1>5, <2>2, PeriodAssumption
        <3>2. ASSUME x.side = "AR" PROVE x.numbers \subseteq 1..issued'.AR
            <4>1. x.numbers = (issued.AR + 1)..(issued.AR + docs) /\ issued'.AR = issued.AR + docs
                BY <1>5, <1>8, <2>2, <3>2
            <4> QED BY <1>4, <1>8, <4>1
        <3> QED BY <1>5, <1>11, <2>2, <3>1, <3>2
    <2> QED BY <1>2, <2>1, <2>2
<1>15. MistypedBeyond'
    <2>1. \A m \in mistyped : m.period # period
        BY <1>1 DEF Wrong
    <2>2. \A m \in mistyped : Taken(m.period)' = Taken(m.period)
        BY <1>11, <2>1
    <2>3. \A m \in mistyped : /\ m.period \in 1..period /\ m.number \in 1..Taken(m.period)'
                              /\ m.quoted \notin 1..Issued(m.period)
        BY <2>2 DEF Numbered, MistypedBeyond
    <2> QED BY <1>2, <2>3 DEF MistypedBeyond
<1>16. phantom' \in Nat /\ period' = period
    BY <1>2 DEF Numbered, Counting
<1>17. /\ phase' = "cases" => class' \in 1..14 /\ class' = class + 1
       /\ phase' = "distractors" => class + 1 = 15
       /\ phase' # "mistyped"
    BY <1>1, <1>2
<1>18. Counting'
    BY <1>7, <1>9, <1>13, <1>16, <1>17 DEF Counting
<1> QED BY <1>14, <1>15, <1>18 DEF Numbered

LEMMA AddDistractorsNumbered == ASSUME CasesBuilt, Numbered, AddDistractors PROVE Numbered'
<1> DEFINE all == Period[period].distractors
           bills == (all + 2) \div 3
           a == Block("distractor", "AP", 0, bills)
           b == Block("distractor", "AR", 0, all - bills)
<1>1. /\ phase = "distractors" /\ issued.AR = InvoicesBefore(period, 15) /\ Wrong = {}
      /\ issued \in [{"AR", "AP"} -> Nat] /\ issued.AR \in Nat /\ period \in DOMAIN Period
      /\ phantom \in Nat
    BY PeriodAssumption DEF AddDistractors, Numbered, Counting, CasesBuilt
<1>2. /\ built' = built \cup {a, b}
      /\ issued' = [AR |-> issued.AR + all - bills, AP |-> issued.AP + bills]
      /\ phase' = "mistyped" /\ UNCHANGED <<period, phantom, mistyped>>
    BY DEF AddDistractors
<1>3. all \in Nat /\ bills \in 0..all
    BY <1>1, KnownNumbers
<1>4. Known(period) = InvoicesBefore(period, 15) + all - bills
    BY DEF Known, Class
<1>5. /\ a.period = period /\ a.side = "AP"
      /\ b.period = period /\ b.side = "AR" /\ b.numbers = (issued.AR + 1)..(issued.AR + (all - bills))
    BY DEF Block
<1> HIDE DEF a, b, bills, all
<1>6. /\ issued' \in [{"AR", "AP"} -> Nat] /\ issued'.AR = issued.AR + (all - bills)
      /\ issued'.AR = Known(period)
    BY <1>1, <1>2, <1>3, <1>4
<1>7. Building /\ Building'
    BY <1>1, <1>2 DEF Building
<1>8. (\A k : Taken(k)' = IF k = period THEN issued'.AR ELSE Taken(k)) /\ Taken(period) = issued.AR
    BY <1>2, <1>7 DEF Taken
<1>9. Wrong' = {}
    BY <1>1, <1>2 DEF Wrong
<1>10. BuiltBelow'
    <2> SUFFICES ASSUME NEW x \in built'
                 PROVE  /\ x.period \in 1..period
                        /\ x.side = "AR" => x.numbers \subseteq 1..Taken(x.period)'
        BY <1>2 DEF BuiltBelow
    <2>1. CASE x \in built
        <3>1. x.period \in 1..period /\ (x.side = "AR" => x.numbers \subseteq 1..Taken(x.period))
            BY <2>1 DEF Numbered, BuiltBelow
        <3>2. CASE x.period = period
            BY <1>1, <1>3, <1>6, <1>8, <3>1, <3>2
        <3>3. CASE x.period # period
            BY <1>8, <3>1, <3>3
        <3> QED BY <3>2, <3>3
    <2>2. CASE x \in {a, b}
        <3>1. x.period = period /\ period \in 1..period
            BY <1>1, <1>5, <2>2, PeriodAssumption
        <3>2. ASSUME x.side = "AR" PROVE x.numbers \subseteq 1..issued'.AR
            <4>1. x.numbers = (issued.AR + 1)..(issued.AR + (all - bills))
                BY <1>5, <2>2, <3>2
            <4> QED BY <1>1, <1>3, <1>6, <4>1
        <3> QED BY <1>8, <3>1, <3>2
    <2> QED BY <1>2, <2>1, <2>2
<1>11. MistypedBeyond'
    <2>1. \A m \in mistyped : m.period # period
        BY <1>1 DEF Wrong
    <2>2. \A m \in mistyped : /\ m.period \in 1..period /\ m.number \in 1..Taken(m.period)'
                              /\ m.quoted \notin 1..Issued(m.period)
        BY <1>8, <2>1 DEF Numbered, MistypedBeyond
    <2> QED BY <1>2, <2>2 DEF MistypedBeyond
<1>12. Counting'
    <2>1. Cardinality(Wrong') = 0
        BY <1>9, FS_EmptySet
    <2>2. Mix("h_transposed_ref")' \in Nat
        BY <1>1, <1>2, CaseNumbers DEF Mix
    <2>3. Known(period)' = Known(period) /\ Known(period) \in Nat
        BY <1>1, <1>2, KnownNumbers
    <2> QED BY <1>1, <1>2, <1>6, <2>1, <2>2, <2>3 DEF Counting
<1> QED BY <1>10, <1>11, <1>12 DEF Numbered

LEMMA BuildMistypedNumbered ==
    ASSUME ExchangesLeadPast, CasesBuilt, Numbered, BuildMistyped PROVE Numbered'
<1> DEFINE w == [period |-> period, number |-> issued.AR + 1,
                 quoted |-> IF Exchanges(issued.AR + 1) = {} THEN 9001 + phantom
                            ELSE Tried(issued.AR + 1)[Min(Exchanges(issued.AR + 1))]]
<1>1. /\ phase = "mistyped" /\ issued.AR = Known(period) + Cardinality(Wrong)
      /\ issued \in [{"AR", "AP"} -> Nat] /\ issued.AR \in Nat /\ period \in DOMAIN Period
      /\ phantom \in Nat /\ Cardinality(Wrong) < Mix("h_transposed_ref")
    BY PeriodAssumption DEF BuildMistyped, Numbered, Counting, CasesBuilt, Wrong
<1>2. /\ mistyped' = mistyped \cup {w} /\ issued' = [issued EXCEPT !.AR = issued.AR + 1]
      /\ phantom' = IF Exchanges(issued.AR + 1) = {} THEN phantom + 1 ELSE phantom
      /\ UNCHANGED <<period, phase, class, built>>
    BY DEF BuildMistyped
<1>3. /\ w.period = period /\ w.number = issued.AR + 1
      /\ Exchanges(issued.AR + 1) # {} =>
            w.quoted = Tried(issued.AR + 1)[Min(Exchanges(issued.AR + 1))]
    OBVIOUS
<1> HIDE DEF w
<1>4. /\ Known(period) \in Nat /\ Issued(period) \in Nat
      /\ Issued(period) = Known(period) + Mix("h_transposed_ref")
      /\ Mix("h_transposed_ref") \in Nat /\ Cardinality(Wrong) \in Nat /\ IsFiniteSet(Wrong)
    BY <1>1, KnownNumbers, MixNumbers, WrongFinite DEF Issued, Mix
<1>5. PICK m \in Nat : m = issued.AR + 1
    BY <1>1
<1>6. /\ Known(period) + 1 <= m /\ m <= Issued(period)
      /\ Issued(period) <= 9000 /\ Issued(period) < m + 90
      /\ Digit(m, 2) < Digit(m, 3) \/ Digit(m, 1) < Digit(m, 2)
    <2>1. Known(period) + 1 <= m /\ m <= Issued(period)
        BY <1>1, <1>4, <1>5
    <2>2. /\ Issued(period) <= 9000 /\ Issued(period) - Known(period) <= 90
          /\ Digit(m, 2) < Digit(m, 3) \/ Digit(m, 1) < Digit(m, 2)
        BY <1>1, <1>4, <2>1 DEF ExchangesLeadPast
    <2> QED BY <1>4, <2>1, <2>2
<1>7. Exchanges(m) # {} /\ Tried(m)[Min(Exchanges(m))] > Issued(period)
    BY <1>4, <1>6, LeadsPast
<1>8. w.quoted \notin 1..Issued(period)
    BY <1>3, <1>4, <1>5, <1>7
<1>9. /\ issued' \in [{"AR", "AP"} -> Nat] /\ issued'.AR = issued.AR + 1 /\ phantom' \in Nat
    BY <1>1, <1>2
<1>10. (\A k : Taken(k)' = IF k = period THEN issued.AR + 1 ELSE Taken(k)) /\ Taken(period) = issued.AR
    BY <1>1, <1>2, <1>9 DEF Taken, Building
<1>11. BuiltBelow'
    <2> SUFFICES ASSUME NEW x \in built
                 PROVE  /\ x.period \in 1..period
                        /\ x.side = "AR" => x.numbers \subseteq 1..Taken(x.period)'
        BY <1>2 DEF BuiltBelow
    <2>1. x.period \in 1..period /\ (x.side = "AR" => x.numbers \subseteq 1..Taken(x.period))
        BY DEF Numbered, BuiltBelow
    <2>2. CASE x.period = period
        BY <1>1, <1>10, <2>1, <2>2
    <2>3. CASE x.period # period
        BY <1>10, <2>1, <2>3
    <2> QED BY <2>2, <2>3
<1>12. MistypedBeyond'
    <2> SUFFICES ASSUME NEW x \in mistyped'
                 PROVE  /\ x.period \in 1..period /\ x.number \in 1..Taken(x.period)'
                        /\ x.quoted \notin 1..Issued(x.period)
        BY <1>2 DEF MistypedBeyond
    <2>1. CASE x \in mistyped
        <3>1. /\ x.period \in 1..period /\ x.number \in 1..Taken(x.period)
              /\ x.quoted \notin 1..Issued(x.period)
            BY <2>1 DEF Numbered, MistypedBeyond
        <3>2. x.number \in 1..Taken(x.period)'
            BY <1>1, <1>10, <3>1
        <3> QED BY <3>1, <3>2
    <2>2. CASE x = w
        <3>1. x.period \in 1..period
            BY <1>1, <1>3, <2>2, PeriodAssumption
        <3> QED BY <1>1, <1>3, <1>8, <1>10, <2>2, <3>1
    <2> QED BY <1>2, <2>1, <2>2
<1>13. Wrong' = Wrong \cup {w} /\ w \notin Wrong
    <2>1. \A x \in Wrong : x.number <= issued.AR
        BY <1>1, <1>10 DEF Numbered, MistypedBeyond, Wrong
    <2>2. w \notin Wrong
        BY <1>1, <1>3, <2>1
    <2> QED BY <1>2, <1>3, <2>2 DEF Wrong
<1>14. Cardinality(Wrong') = Cardinality(Wrong) + 1
    BY <1>4, <1>13, FS_AddElement
<1>15. Counting'
    <2>1. Mix("h_transposed_ref")' = Mix("h_transposed_ref") /\ Known(period)' = Known(period)
        BY <1>2 DEF Mix
    <2> QED BY <1>1, <1>2, <1>4, <1>9, <1>14, <2>1 DEF Counting
<1> QED BY <1>11, <1>12, <1>15 DEF Numbered

LEMMA PeriodBuiltNumbered == ASSUME CasesBuilt, Numbered, PeriodBuilt PROVE Numbered'
<1>1. /\ phase = "mistyped" /\ issued.AR = Issued(period) /\ phantom \in Nat
      /\ issued \in [{"AR", "AP"} -> Nat] /\ period \in 1..Len(Period) /\ Len(Period) \in Nat
    BY PeriodAssumption DEF PeriodBuilt, Numbered, Counting, CasesBuilt, Wrong, Issued, Mix
<1>2. /\ built' = built /\ mistyped' = mistyped
      /\ \/ /\ period < Len(Period) /\ period' = period + 1 /\ phase' = "cases" /\ class' = 1
            /\ phantom' = 0 /\ issued' = NoneIssued
         \/ phase' = "floor" /\ UNCHANGED <<period, class, phantom, issued>>
    BY DEF PeriodBuilt
<1>3. \A k \in 1..period : Taken(k)' = Taken(k) /\ k \in 1..period'
    BY <1>1, <1>2 DEF Taken, Building
<1>4. BuiltBelow'
    BY <1>2, <1>3 DEF Numbered, BuiltBelow
<1>5. MistypedBeyond'
    BY <1>2, <1>3 DEF Numbered, MistypedBeyond
<1>6. Counting'
    <2>1. CASE phase' = "floor"
        BY <1>1, <1>2, <2>1 DEF Numbered, Counting
    <2>2. CASE phase' = "cases"
        <3>1. period' = period + 1 /\ period + 1 \in DOMAIN Period /\ class' = 1 /\ phantom' = 0
              /\ issued' = NoneIssued
            BY <1>1, <1>2, <2>2, PeriodAssumption
        <3>2. InvoicesBefore(period + 1, 1) = 0
            BY <3>1, InvoicesAdd
        <3>3. Wrong' = {}
            BY <1>1, <1>2, <3>1 DEF Wrong, Numbered, MistypedBeyond
        <3> QED BY <2>2, <3>1, <3>2, <3>3 DEF Counting, NoneIssued
    <2> QED BY <1>2, <2>1, <2>2
<1> QED BY <1>4, <1>5, <1>6 DEF Numbered

LEMMA NumberedStep ==
    ASSUME ExchangesLeadPast, DInv, Numbered, [Next]_vars PROVE Numbered'
<1>1. CasesBuilt
    BY DEF DInv
<1>2. DNext \/ UNCHANGED dvars
    BY DEF Next, vars, Begin, Clear, MeasureBefore, IndexPairs, MeasureAfter, ClearAgain,
       FeedbackFails, ScoreRun, WriteReport, Check, SetBaseline, Die
<1>3. CASE BuildClass \/ AddDistractors \/ BuildMistyped \/ PeriodBuilt
    BY <1>1, <1>3, BuildClassNumbered, AddDistractorsNumbered, BuildMistypedNumbered,
       PeriodBuiltNumbered
<1>4. CASE TakeFloor \/ TakeShare \/ TopUp \/ Draw \/ UNCHANGED dvars
    <2>1. /\ UNCHANGED <<period, class, issued, phantom, built, mistyped>>
          /\ \/ phase' = phase
             \/ phase \in {"floor", "share", "top"} /\ phase' \in {"share", "top", "floor", "drawn"}
        BY <1>4 DEF TakeFloor, TakeShare, TopUp, Draw, dvars, building
    <2>2. Building' = Building
        BY <2>1 DEF Building
    <2>3. \A k : Taken(k)' = Taken(k)
        BY <2>1, <2>2 DEF Taken
    <2>4. Wrong' = Wrong /\ Mix("h_transposed_ref")' = Mix("h_transposed_ref")
        BY <2>1 DEF Wrong, Mix
    <2>5. BuiltBelow' /\ MistypedBeyond'
        BY <2>1, <2>3 DEF Numbered, BuiltBelow, MistypedBeyond
    <2>6. Counting'
        BY <2>1, <2>4 DEF Numbered, Counting
    <2> QED BY <2>5, <2>6 DEF Numbered
<1> QED BY <1>2, <1>3, <1>4 DEF DNext

\* MistypedNamesNothing for all mixes whose exchanges lead past the numbers of their
\* period. The program looks at the references issued so far only, and that is enough
\* for these (generator.py 352-369).
THEOREM MistypedCorrect ==
    ASSUME ExchangesLeadPast
    PROVE  Spec => []MistypedNamesNothing
<1>1. Init => Numbered
    BY NumberedInit DEF Init
<1>2. DInv /\ Numbered /\ [Next]_vars => Numbered'
    BY NumberedStep
<1>3. DInv /\ Numbered => MistypedNamesNothing
    <2> SUFFICES ASSUME Numbered, Written, NEW m \in mistyped
                 PROVE  /\ \A b \in built : b.period = m.period /\ b.side = "AR" =>
                               m.quoted \notin b.numbers
                        /\ \A k \in mistyped : k.period = m.period => k.number # m.quoted
        BY DEF MistypedNamesNothing
    <2>1. \A k : Taken(k) = Issued(k)
        BY DEF Written, Taken, Building
    <2> QED BY <2>1 DEF Numbered, BuiltBelow, MistypedBeyond
<1> QED BY <1>1, <1>2, <1>3, DInvHolds, PTL DEF Spec

-----------------------------------------------------------------------------
\* What is counted of each class, in the sample and in the month.
LEMMA CountNumbers ==
    ASSUME DInv, phase = "drawn"
    PROVE  /\ DOMAIN GoldenCounts = DOMAIN MonthCounts /\ DOMAIN MonthCounts \subseteq Range(Class)
           /\ \A c \in DOMAIN MonthCounts :
                 /\ GoldenCounts[c] \in Nat /\ MonthCounts[c] \in Nat \ {0}
                 /\ Least(MonthCounts[c]) <= GoldenCounts[c]
<1>1. \A h \in Half : Drawn(golden[h], pool[h]) /\ Labelled(pool[h], h)
    BY DEF DInv, Sampling, Complete
<1>2. ASSUME NEW h \in Half
      PROVE  /\ DOMAIN golden[h] = DOMAIN pool[h] /\ DOMAIN pool[h] \subseteq Range(Class)
             /\ \A c \in DOMAIN pool[h] :
                   /\ golden[h][c] \in Nat /\ pool[h][c] \in Nat \ {0}
                   /\ Least(pool[h][c]) <= golden[h][c]
    <2>1. Drawn(golden[h], pool[h]) /\ Labelled(pool[h], h)
        BY <1>1
    <2>2. \A c \in DOMAIN pool[h] : pool[h][c] \in Nat \ {0} /\ Least(pool[h][c]) \in Nat
        BY <2>1, LeastFacts DEF Labelled
    <2>3. \A c \in DOMAIN pool[h] : golden[h][c] \in Nat /\ Least(pool[h][c]) <= golden[h][c]
        BY <2>1, <2>2 DEF Drawn
    <2> QED BY <2>1, <2>2, <2>3 DEF Drawn, Labelled, ClassesOf
<1>3. "clean" \in Half /\ "hard" \in Half
    BY DEF Half
<1> QED BY <1>2, <1>3 DEF GoldenCounts, MonthCounts, Merged

\* Scores are numbers, and a class that is wrong altogether shows in them.
LEMMA ScoreNumbers ==
    ASSUME NEW commits \in Commits, NEW counts, DOMAIN counts \subseteq Range(Class),
           \A c \in DOMAIN counts : counts[c] \in Nat, NEW hit
    PROVE  /\ ScoreOK(Score(commits, counts, hit))
           /\ \A c \in DOMAIN counts : commits[c] = "wrong" =>
                 counts[c] <= Score(commits, counts, hit).falsePositives
<1> DEFINE D == DOMAIN counts
           wrong == [c \in D |-> WrongOf(c, commits[c], counts[c], hit)]
           right == [c \in D |-> IF commits[c] = "declined" THEN 0 ELSE counts[c] - wrong[c]]
<1>1. IsFiniteSet(D)
    BY ClassFacts, FS_Subset
<1>2. wrong \in [D -> Nat]
    BY DEF WrongOf
<1>3. right \in [D -> Int]
    BY <1>2
<1>4. SumFunction(wrong) \in Nat /\ \A c \in D : wrong[c] <= SumFunction(wrong)
    BY <1>1, <1>2, SumNat
<1>5. SumFunction(right) \in Int
    BY <1>1, <1>3, SumInt
<1>6. \A c \in D : commits[c] = "wrong" => wrong[c] = counts[c]
    BY DEF WrongOf
<1>7. Score(commits, counts, hit) =
          [falsePositives |-> SumFunction(wrong), truePositives |-> SumFunction(right)]
    BY DEF Score
<1> HIDE DEF wrong, right
<1> QED BY <1>4, <1>5, <1>6, <1>7 DEF ScoreOK

LEMMA ArmNumbers ==
    ASSUME DInv, phase = "drawn", NEW commits \in Commits, NEW arms \in Scores(commits)
    PROVE  ScoreOK(arms.golden) /\ ScoreOK(arms.month)
<1>1. PICK hit \in Hits(commits) :
          arms = [golden |-> Score(commits, GoldenCounts, hit),
                  month |-> Score(commits, MonthCounts, TRUE)]
    BY DEF Scores
<1>2. ScoreOK(Score(commits, GoldenCounts, hit)) /\ ScoreOK(Score(commits, MonthCounts, TRUE))
    BY CountNumbers, ScoreNumbers
<1> QED BY <1>1, <1>2

\* BrokenRuleShows for any mixes and quotas as soon as the floor is one: every class of
\* the month is in the sample, so a rule that is wrong for its class shows there.
THEOREM BrokenRuleCorrect ==
    ASSUME MinPerClass >= 1
    PROVE  Spec => []BrokenRuleShows
<1>1. DInv => BrokenRuleShows
    <2> SUFFICES ASSUME DInv, phase = "drawn", NEW commits \in Commits,
                        NEW c \in DOMAIN MonthCounts, commits[c] = "wrong",
                        NEW arms \in Scores(commits)
                 PROVE  arms.golden.falsePositives > 0
        BY DEF BrokenRuleShows
    <2>1. PICK hit \in Hits(commits) :
              arms = [golden |-> Score(commits, GoldenCounts, hit),
                      month |-> Score(commits, MonthCounts, TRUE)]
        BY DEF Scores
    <2>2. GoldenCounts[c] \in Nat /\ Least(MonthCounts[c]) <= GoldenCounts[c]
        BY CountNumbers
    <2>3. Least(MonthCounts[c]) >= 1 /\ Least(MonthCounts[c]) \in Nat
        BY CountNumbers, LeastFacts, SampleAssumption
    <2>4. /\ ScoreOK(Score(commits, GoldenCounts, hit))
          /\ GoldenCounts[c] <= Score(commits, GoldenCounts, hit).falsePositives
        BY CountNumbers, ScoreNumbers
    <2>5. arms.golden = Score(commits, GoldenCounts, hit)
        BY <2>1
    <2> QED BY <2>2, <2>3, <2>4, <2>5 DEF ScoreOK
<1> QED BY <1>1, DInvHolds, PTL

-----------------------------------------------------------------------------
\* f has the scores of e.
SameScores(e, f) ==
    /\ "arms" \in DOMAIN e <=> "arms" \in DOMAIN f
    /\ "cascade" \in DOMAIN e <=> "cascade" \in DOMAIN f
    /\ "arms" \in DOMAIN e => f.arms = e.arms
    /\ "cascade" \in DOMAIN e => f.cascade = e.cascade

LEMMA ScoresKept ==
    ASSUME NEW e, NEW f, SameScores(e, f), Scored(e)
    PROVE  Blocks(f) = Blocks(e) /\ Scored(f) /\ (Fails(f) <=> Fails(e))
<1>1. "arms" \in DOMAIN e /\ "arms" \in DOMAIN f /\ f.arms = e.arms
    BY DEF Scored, SameScores
<1>2. Blocks(f) = Blocks(e)
    BY <1>1 DEF Blocks, SameScores
<1> QED BY <1>1, <1>2 DEF Scored, Fails

\* f is e at the position a.
Moved(e, f, a) ==
    /\ DOMAIN f = DOMAIN e /\ f.at = a
    /\ \A k \in DOMAIN e \ {"at"} : f[k] = e[k]

LEMMA MovedSame ==
    ASSUME NEW e, NEW f, NEW a, Moved(e, f, a)
    PROVE  /\ SameScores(e, f) /\ Payload(f) = Payload(e)
           /\ "before" \in DOMAIN e => f.before = e.before
           /\ "after" \in DOMAIN e => f.after = e.after
<1>1. \A k \in {"arms", "cascade", "before", "after"} : k \in DOMAIN e => f[k] = e[k]
    BY DEF Moved
<1>2. SameScores(e, f)
    BY <1>1 DEF SameScores, Moved
<1>3. Payload(f) = Payload(e)
    BY DEF Payload, Moved
<1> QED BY <1>1, <1>2, <1>3

LEMMA PayloadSame ==
    ASSUME NEW e
    PROVE  /\ SameScores(e, Payload(e)) /\ DOMAIN Payload(e) = DOMAIN e \ {"at"}
           /\ "before" \in DOMAIN e => Payload(e).before = e.before
           /\ "after" \in DOMAIN e => Payload(e).after = e.after
BY DEF Payload, SameScores

\* One evaluation takes a step: what the others have is untouched, and there are none.
LEMMA StepOf ==
    ASSUME OneAtATime, NEW p \in Eval, DOMAIN eval = Eval,
           NEW f, eval' = [eval EXCEPT ![p] = f], Measured(f)',
           (report # None /\ "after" \in DOMAIN report => ~ report.before /\ report.after)',
           (baseline # None => ScoreOK(baseline.arms.golden))'
    PROVE  EInv'
<1>1. DOMAIN eval' = Eval /\ eval'[p] = f
    OBVIOUS
<1>2. \A q \in Eval : eval'[q] = f
    BY <1>1 DEF OneAtATime
<1> QED BY <1>1, <1>2 DEF EInv

LEMMA EInvInit == ASSUME Init PROVE EInv
BY DEF Init, EInv, Measured, Idle

LEMMA FilesKept ==
    ASSUME EInv, UNCHANGED <<report, baseline>>
    PROVE  /\ (report # None /\ "after" \in DOMAIN report => ~ report.before /\ report.after)'
           /\ (baseline # None => ScoreOK(baseline.arms.golden))'
BY DEF EInv, ScoreOK

\* A step of an evaluation that leaves the files alone.
LEMMA OwnStep ==
    ASSUME OneAtATime, EInv, NEW p \in Eval, UNCHANGED <<report, baseline>>,
           NEW f, eval' = [eval EXCEPT ![p] = f], Measured(f)'
    PROVE  EInv'
BY FilesKept, StepOf DEF EInv

\* A move to the next position.
LEMMA MoveStep ==
    ASSUME EInv, NEW p \in Eval, NEW a, eval' = [eval EXCEPT ![p].at = a]
    PROVE  \E f : /\ eval' = [eval EXCEPT ![p] = f] /\ Moved(eval[p], f, a)
                  /\ SameScores(eval[p], f) /\ Payload(f) = Payload(eval[p])
                  /\ "before" \in DOMAIN eval[p] => f.before = eval[p].before
                  /\ "after" \in DOMAIN eval[p] => f.after = eval[p].after
<1>1. "at" \in DOMAIN eval[p]
    BY DEF EInv, Measured
<1>2. PICK f : f = [eval[p] EXCEPT !.at = a]
    OBVIOUS
<1>3. Moved(eval[p], f, a)
    BY <1>1, <1>2 DEF Moved
<1>4. eval' = [eval EXCEPT ![p] = f]
    BY <1>2
<1> QED BY <1>3, <1>4, MovedSame

LEMMA BeginInv == ASSUME OneAtATime, DInv, EInv, NEW p \in Eval, Begin(p) PROVE EInv'
<1>1. /\ phase = "drawn" /\ UNCHANGED <<dvars, scratch, report, baseline>> /\ phase' = phase
    BY DEF Begin, dvars, building
<1>2. PICK commits \in Commits : \E arms \in Scores(commits) :
          eval' = [eval EXCEPT ![p] = [at |-> "clear", arms |-> arms]]
    BY DEF Begin
<1>3. PICK arms \in Scores(commits) :
          eval' = [eval EXCEPT ![p] = [at |-> "clear", arms |-> arms]]
    BY <1>2
<1>4. ScoreOK(arms.golden) /\ ScoreOK(arms.month)
    BY <1>1, ArmNumbers
<1>5. PICK f : f = [at |-> "clear", arms |-> arms]
    OBVIOUS
<1>6. DOMAIN f = {"at", "arms"} /\ f.at = "clear" /\ f.arms = arms
    BY <1>5
<1>7. Scored(f)
    BY <1>4, <1>6 DEF Scored, Blocks
<1>8. Measured(f)'
    BY <1>1, <1>6, <1>7 DEF Measured
<1>9. eval' = [eval EXCEPT ![p] = f]
    BY <1>3, <1>5
<1> QED BY <1>1, <1>8, <1>9, OwnStep

LEMMA ClearInv == ASSUME OneAtATime, EInv, NEW p \in Eval, Clear(p) PROVE EInv'
<1>1. /\ eval[p].at = "clear" /\ UNCHANGED <<report, baseline>> /\ phase' = phase
      /\ scratch' = FALSE
    BY DEF Clear, dvars, building
<1>2. PICK f : eval' = [eval EXCEPT ![p] = f] /\ Moved(eval[p], f, "before") /\ SameScores(eval[p], f)
    BY MoveStep DEF Clear
<1>3. Measured(eval[p])
    BY DEF EInv
<1>4. Scored(f) /\ DOMAIN f = DOMAIN eval[p] /\ f.at = "before"
    BY <1>1, <1>2, <1>3, ScoresKept DEF Measured, Moved
<1>5. Measured(f)'
    BY <1>1, <1>3, <1>4 DEF Measured
<1> QED BY <1>1, <1>2, <1>5, OwnStep

LEMMA MeasureBeforeInv == ASSUME OneAtATime, EInv, NEW p \in Eval, MeasureBefore(p) PROVE EInv'
<1>1. /\ eval[p].at = "before" /\ UNCHANGED <<report, baseline>> /\ phase' = phase
      /\ eval' = [eval EXCEPT ![p] = Merged([at |-> "teach", before |-> scratch], eval[p])]
    BY DEF MeasureBefore, dvars, building
<1>2. Measured(eval[p])
    BY DEF EInv
<1>3. PICK f : f = Merged([at |-> "teach", before |-> scratch], eval[p])
    OBVIOUS
<1>4. /\ DOMAIN f = DOMAIN eval[p] \cup {"at", "before"} /\ f.at = "teach" /\ f.before = scratch
      /\ SameScores(eval[p], f)
    BY <1>3 DEF Merged, SameScores
<1>5. Scored(f)
    BY <1>1, <1>2, <1>4, ScoresKept DEF Measured
<1>6. Measured(f)'
    BY <1>1, <1>2, <1>4, <1>5 DEF Measured
<1> QED BY <1>1, <1>3, <1>6, OwnStep

LEMMA IndexPairsInv == ASSUME OneAtATime, EInv, NEW p \in Eval, IndexPairs(p) PROVE EInv'
<1>1. /\ eval[p].at = "teach" /\ UNCHANGED <<report, baseline>> /\ phase' = phase
      /\ scratch' = TRUE
    BY DEF IndexPairs, dvars, building
<1>2. PICK f : /\ eval' = [eval EXCEPT ![p] = f] /\ Moved(eval[p], f, "after")
               /\ SameScores(eval[p], f)
               /\ "before" \in DOMAIN eval[p] => f.before = eval[p].before
    BY MoveStep DEF IndexPairs
<1>3. Measured(eval[p])
    BY DEF EInv
<1>4. Scored(f) /\ DOMAIN f = DOMAIN eval[p] /\ f.at = "after"
    BY <1>1, <1>2, <1>3, ScoresKept DEF Measured, Moved
<1>5. Measured(f)'
    BY <1>1, <1>2, <1>3, <1>4 DEF Measured
<1> QED BY <1>1, <1>2, <1>5, OwnStep

LEMMA MeasureAfterInv == ASSUME OneAtATime, EInv, NEW p \in Eval, MeasureAfter(p) PROVE EInv'
<1>1. /\ eval[p].at = "after" /\ UNCHANGED <<report, baseline>> /\ phase' = phase
      /\ eval' = [eval EXCEPT ![p] = Merged([at |-> "clean", after |-> scratch], eval[p])]
    BY DEF MeasureAfter, dvars, building
<1>2. Measured(eval[p])
    BY DEF EInv
<1>3. PICK f : f = Merged([at |-> "clean", after |-> scratch], eval[p])
    OBVIOUS
<1>4. /\ DOMAIN f = DOMAIN eval[p] \cup {"at", "after"} /\ f.at = "clean" /\ f.after = scratch
      /\ "before" \in DOMAIN eval[p] => f.before = eval[p].before
      /\ SameScores(eval[p], f)
    BY <1>3 DEF Merged, SameScores
<1>5. Scored(f)
    BY <1>1, <1>2, <1>4, ScoresKept DEF Measured
<1>6. Measured(f)'
    BY <1>1, <1>2, <1>4, <1>5 DEF Measured
<1> QED BY <1>1, <1>3, <1>6, OwnStep

LEMMA ClearAgainInv == ASSUME OneAtATime, EInv, NEW p \in Eval, ClearAgain(p) PROVE EInv'
<1>1. /\ eval[p].at = "clean" /\ UNCHANGED <<report, baseline>> /\ phase' = phase
    BY DEF ClearAgain, dvars, building
<1>2. PICK f : /\ eval' = [eval EXCEPT ![p] = f] /\ Moved(eval[p], f, "cascade")
               /\ SameScores(eval[p], f)
               /\ "before" \in DOMAIN eval[p] => f.before = eval[p].before
               /\ "after" \in DOMAIN eval[p] => f.after = eval[p].after
    BY MoveStep DEF ClearAgain
<1>3. Measured(eval[p])
    BY DEF EInv
<1>4. Scored(f) /\ DOMAIN f = DOMAIN eval[p] /\ f.at = "cascade"
    BY <1>1, <1>2, <1>3, ScoresKept DEF Measured, Moved
<1>5. Measured(f)'
    BY <1>1, <1>2, <1>3, <1>4 DEF Measured
<1> QED BY <1>1, <1>2, <1>5, OwnStep

LEMMA FeedbackFailsInv == ASSUME OneAtATime, EInv, NEW p \in Eval, FeedbackFails(p) PROVE EInv'
<1>1. /\ eval[p].at # "idle" /\ UNCHANGED <<report, baseline>> /\ phase' = phase
      /\ eval' = [eval EXCEPT ![p] = [at |-> "cascade", arms |-> eval[p].arms]]
    BY DEF FeedbackFails, dvars, building
<1>2. Measured(eval[p])
    BY DEF EInv
<1>3. PICK f : f = [at |-> "cascade", arms |-> eval[p].arms]
    OBVIOUS
<1>4. DOMAIN f = {"at", "arms"} /\ f.at = "cascade" /\ f.arms = eval[p].arms
    BY <1>3
<1>5. Scored(f)
    BY <1>1, <1>2, <1>4 DEF Measured, Scored, Blocks
<1>6. Measured(f)'
    BY <1>1, <1>2, <1>4, <1>5 DEF Measured
<1> QED BY <1>1, <1>3, <1>6, OwnStep

LEMMA ScoreRunInv == ASSUME OneAtATime, DInv, EInv, NEW p \in Eval, ScoreRun(p) PROVE EInv'
<1>1. /\ eval[p].at = "cascade" /\ UNCHANGED <<report, baseline>> /\ phase' = phase
    BY DEF ScoreRun, dvars, building
<1>2. Measured(eval[p])
    BY DEF EInv
<1>3. CASE eval' = [eval EXCEPT ![p].at = "write"]
    <2>1. PICK f : /\ eval' = [eval EXCEPT ![p] = f] /\ Moved(eval[p], f, "write")
                   /\ SameScores(eval[p], f)
                   /\ "before" \in DOMAIN eval[p] => f.before = eval[p].before
                   /\ "after" \in DOMAIN eval[p] => f.after = eval[p].after
        BY <1>3, MoveStep
    <2>2. Scored(f) /\ DOMAIN f = DOMAIN eval[p] /\ f.at = "write"
        BY <1>1, <1>2, <2>1, ScoresKept DEF Measured, Moved
    <2>3. Measured(f)'
        BY <1>1, <1>2, <2>1, <2>2 DEF Measured
    <2> QED BY <1>1, <2>1, <2>3, OwnStep
<1>4. ASSUME NEW commits \in Commits,
             eval' = [eval EXCEPT ![p] =
                 Merged([at |-> "write", cascade |-> Score(commits, MonthCounts, TRUE)], eval[p])]
      PROVE  EInv'
    <2>1. PICK f, s : /\ s = Score(commits, MonthCounts, TRUE)
                      /\ f = Merged([at |-> "write", cascade |-> s], eval[p])
        OBVIOUS
    <2>2. ScoreOK(s)
        BY <1>1, <1>2, <2>1, CountNumbers, ScoreNumbers DEF Measured
    <2>3. /\ DOMAIN f = DOMAIN eval[p] \cup {"at", "cascade"} /\ f.at = "write" /\ f.cascade = s
          /\ "arms" \in DOMAIN eval[p] => f.arms = eval[p].arms
          /\ "before" \in DOMAIN eval[p] => f.before = eval[p].before
          /\ "after" \in DOMAIN eval[p] => f.after = eval[p].after
        BY <2>1 DEF Merged
    <2>4. Scored(f)
        BY <1>1, <1>2, <2>2, <2>3 DEF Measured, Scored, Blocks
    <2>5. Measured(f)'
        BY <1>1, <1>2, <2>3, <2>4 DEF Measured
    <2>6. eval' = [eval EXCEPT ![p] = f]
        BY <1>4, <2>1
    <2> QED BY <1>1, <2>5, <2>6, OwnStep
<1> QED BY <1>3, <1>4 DEF ScoreRun

LEMMA WriteReportInv == ASSUME OneAtATime, EInv, NEW p \in Eval, WriteReport(p) PROVE EInv'
<1>1. /\ eval[p].at = "write" /\ baseline' = baseline /\ phase' = phase
      /\ report' = Payload(eval[p])
    BY DEF WriteReport, dvars, building, Payload
<1>2. PICK f : /\ eval' = [eval EXCEPT ![p] = f] /\ Moved(eval[p], f, "check")
               /\ SameScores(eval[p], f) /\ Payload(f) = Payload(eval[p])
               /\ "before" \in DOMAIN eval[p] => f.before = eval[p].before
               /\ "after" \in DOMAIN eval[p] => f.after = eval[p].after
    BY MoveStep DEF WriteReport
<1>3. Measured(eval[p])
    BY DEF EInv
<1>4. Scored(f) /\ DOMAIN f = DOMAIN eval[p] /\ f.at = "check"
    BY <1>1, <1>2, <1>3, ScoresKept DEF Measured, Moved
<1>5. report' = Payload(f)
    BY <1>1, <1>2
<1>6. Measured(f)'
    BY <1>1, <1>2, <1>3, <1>4, <1>5 DEF Measured
<1>7. (report # None /\ "after" \in DOMAIN report => ~ report.before /\ report.after)'
    BY <1>1, <1>3, PayloadSame DEF Measured
<1>8. (baseline # None => ScoreOK(baseline.arms.golden))'
    BY <1>1 DEF EInv, ScoreOK
<1> QED BY <1>2, <1>6, <1>7, <1>8, StepOf DEF EInv

LEMMA IdleInv == ASSUME NEW f, f = Idle PROVE Measured(f)'
BY DEF Measured, Idle

LEMMA CheckInv == ASSUME OneAtATime, EInv, NEW p \in Eval, Check(p) PROVE EInv'
<1>1. /\ eval[p].at = "check" /\ UNCHANGED <<report, baseline>> /\ phase' = phase
    BY DEF Check, dvars, building
<1>2. Measured(eval[p])
    BY DEF EInv
<1>3. CASE ~ Fails(eval[p]) /\ eval' = [eval EXCEPT ![p].at = "set"]
    <2>1. PICK f : /\ eval' = [eval EXCEPT ![p] = f] /\ Moved(eval[p], f, "set")
                   /\ SameScores(eval[p], f) /\ Payload(f) = Payload(eval[p])
                   /\ "before" \in DOMAIN eval[p] => f.before = eval[p].before
                   /\ "after" \in DOMAIN eval[p] => f.after = eval[p].after
        BY <1>3, MoveStep
    <2>2. Scored(f) /\ DOMAIN f = DOMAIN eval[p] /\ f.at = "set" /\ ~ Fails(f)
        BY <1>1, <1>2, <1>3, <2>1, ScoresKept DEF Measured, Moved
    <2>3. (~ Fails(f))'
        BY <1>1, <2>2 DEF Fails
    <2>4. report' = Payload(f)
        BY <1>1, <1>2, <2>1 DEF Measured
    <2>5. Measured(f)'
        BY <1>1, <1>2, <2>1, <2>2, <2>3, <2>4 DEF Measured
    <2> QED BY <1>1, <2>1, <2>5, OwnStep
<1>4. CASE eval' = [eval EXCEPT ![p] = Idle]
    <2>1. PICK f : f = Idle
        OBVIOUS
    <2>2. Measured(f)'
        BY <2>1, IdleInv
    <2> QED BY <1>1, <1>4, <2>1, <2>2, OwnStep
<1> QED BY <1>3, <1>4 DEF Check

\* The baseline that is set is the report of an evaluation that did not fail.
LEMMA BaselineSet ==
    ASSUME EInv, NEW p \in Eval, SetBaseline(p)
    PROVE  /\ baseline' = Payload(eval[p]) /\ Scored(eval[p]) /\ ~ Fails(eval[p])
           /\ Blocks(baseline') = Blocks(eval[p])
           /\ baseline'.arms.golden = eval[p].arms.golden
           /\ eval[p].arms.golden \in Blocks(eval[p])
<1>1. eval[p].at = "set" /\ baseline' = report
    BY DEF SetBaseline
<1>2. Measured(eval[p])
    BY DEF EInv
<1>3. baseline' = Payload(eval[p]) /\ Scored(eval[p]) /\ ~ Fails(eval[p])
    BY <1>1, <1>2 DEF Measured
<1>4. SameScores(eval[p], Payload(eval[p]))
    BY PayloadSame
<1>5. Blocks(Payload(eval[p])) = Blocks(eval[p])
    BY <1>3, <1>4, ScoresKept
<1>6. Payload(eval[p]).arms = eval[p].arms
    BY <1>3, <1>4 DEF SameScores, Scored
<1> QED BY <1>3, <1>5, <1>6 DEF Blocks

LEMMA SetBaselineInv == ASSUME OneAtATime, EInv, NEW p \in Eval, SetBaseline(p) PROVE EInv'
<1>1. report' = report /\ eval' = [eval EXCEPT ![p] = Idle]
    BY DEF SetBaseline
<1>2. PICK f : f = Idle
    OBVIOUS
<1>3. Measured(f)'
    BY <1>2, IdleInv
<1>4. (baseline # None => ScoreOK(baseline.arms.golden))'
    BY BaselineSet DEF Scored, ScoreOK
<1>5. (report # None /\ "after" \in DOMAIN report => ~ report.before /\ report.after)'
    BY <1>1 DEF EInv
<1> QED BY <1>1, <1>2, <1>3, <1>4, <1>5, StepOf DEF EInv

LEMMA DieInv == ASSUME OneAtATime, EInv, NEW p \in Eval, Die(p) PROVE EInv'
<1>1. UNCHANGED <<report, baseline>> /\ eval' = [eval EXCEPT ![p] = Idle]
    BY DEF Die
<1>2. PICK f : f = Idle
    OBVIOUS
<1>3. Measured(f)'
    BY <1>2, IdleInv
<1> QED BY <1>1, <1>2, <1>3, OwnStep

\* Nothing is scored while the dataset is made, and it is not made again.
LEMMA DatasetInv == ASSUME EInv, DNext, UNCHANGED evars PROVE EInv'
<1>1. phase # "drawn"
    BY DEF DNext, BuildClass, AddDistractors, BuildMistyped, PeriodBuilt, TakeFloor, TakeShare,
       TopUp, Draw
<1>2. eval' = eval /\ UNCHANGED <<report, baseline>>
    BY DEF evars
<1>3. ASSUME NEW p \in Eval
      PROVE  Measured(eval[p])'
    <2>1. Measured(eval[p]) /\ eval[p].at = "idle"
        BY <1>1 DEF EInv, Measured
    <2> QED BY <1>2, <2>1 DEF Measured
<1>4. DOMAIN eval' = Eval
    BY <1>2 DEF EInv
<1> QED BY <1>2, <1>3, <1>4, FilesKept DEF EInv

LEMMA EInvStep ==
    ASSUME OneAtATime PROVE DInv /\ EInv /\ [Next]_vars => EInv'
<1> SUFFICES ASSUME DInv, EInv, [Next]_vars PROVE EInv'
    OBVIOUS
<1>1. CASE UNCHANGED vars
    <2>1. eval' = eval /\ UNCHANGED <<report, baseline, scratch, phase>>
        BY <1>1 DEF vars, evars, dvars, building
    <2>2. ASSUME NEW p \in Eval
          PROVE  Measured(eval[p])'
        <3>1. Measured(eval[p])
            BY DEF EInv
        <3> QED BY <2>1, <3>1 DEF Measured, Scored, Blocks, ScoreOK, Fails, Payload
    <2> QED BY <2>1, <2>2, FilesKept DEF EInv
<1>2. CASE DNext /\ UNCHANGED evars
    BY <1>2, DatasetInv
<1>3. CASE \E p \in Eval :
             \/ Begin(p) \/ Clear(p) \/ MeasureBefore(p) \/ IndexPairs(p) \/ MeasureAfter(p)
             \/ ClearAgain(p) \/ FeedbackFails(p) \/ ScoreRun(p) \/ WriteReport(p) \/ Check(p)
             \/ SetBaseline(p) \/ Die(p)
    BY <1>3, BeginInv, ClearInv, MeasureBeforeInv, IndexPairsInv, MeasureAfterInv, ClearAgainInv,
       FeedbackFailsInv, ScoreRunInv, WriteReportInv, CheckInv, SetBaselineInv, DieInv
<1> QED BY <1>1, <1>2, <1>3 DEF Next

\* BeforeIsUntaught for any mixes, quotas, floor and commits, evaluations one at a time:
\* what an evaluation that died left in the scratch tenant is not measured.
THEOREM BeforeCorrect ==
    ASSUME OneAtATime
    PROVE  Spec => []BeforeIsUntaught
<1>1. EInv => BeforeIsUntaught
    BY DEF EInv, BeforeIsUntaught
<1> QED BY <1>1, EInvInit, EInvStep, DInvHolds, PTL DEF Spec

\* BaselineNeverWorse for any of them, evaluations one at a time: between the comparison
\* and the baseline that is set, neither the report nor the baseline changes.
THEOREM BaselineCorrect ==
    ASSUME OneAtATime
    PROVE  Spec => BaselineNeverWorse
<1>1. ASSUME EInv, [Next]_vars, baseline' # baseline
      PROVE  /\ \A b \in Blocks(baseline') : b.falsePositives = 0
             /\ baseline # None =>
                  baseline'.arms.golden.truePositives >= baseline.arms.golden.truePositives
    <2>1. PICK p \in Eval : SetBaseline(p)
        BY <1>1 DEF Next, vars, evars, Begin, Clear, MeasureBefore, IndexPairs, MeasureAfter,
           ClearAgain, FeedbackFails, ScoreRun, WriteReport, Check, SetBaseline, Die
    <2>2. /\ Scored(eval[p]) /\ ~ Fails(eval[p])
          /\ Blocks(baseline') = Blocks(eval[p])
          /\ baseline'.arms.golden = eval[p].arms.golden
          /\ eval[p].arms.golden \in Blocks(eval[p])
        BY <1>1, <2>1, BaselineSet
    <2>3. \A b \in Blocks(baseline') : b.falsePositives = 0
        BY <2>2 DEF Scored, Fails, ScoreOK
    <2>4. ASSUME baseline # None
          PROVE  baseline'.arms.golden.truePositives >= baseline.arms.golden.truePositives
        <3>1. ScoreOK(baseline.arms.golden) /\ ScoreOK(eval[p].arms.golden)
            BY <1>1, <2>2, <2>4 DEF EInv, Scored
        <3>2. ~ (eval[p].arms.golden.truePositives < baseline.arms.golden.truePositives)
            BY <2>2, <2>4 DEF Fails
        <3> QED BY <2>2, <3>1, <3>2 DEF ScoreOK
    <2> QED BY <2>3, <2>4
<1> QED BY <1>1, EInvInit, EInvStep, DInvHolds, PTL DEF Spec, BaselineNeverWorse
=============================================================================
