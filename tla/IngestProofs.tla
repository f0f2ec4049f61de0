---------------------------- MODULE IngestProofs ----------------------------
(***************************************************************************)
(* Proofs about Ingest for any loaders, directories, spellings and bounds:  *)
(* facts are stored once, a file that is on record is there with all its    *)
(* rows, and the reports add up to the tables but for what a death cut off. *)
(***************************************************************************)
EXTENDS Ingest, FiniteSetTheorems, TLAPS

Files == UNION {{d[i] : i \in DOMAIN d} : d \in Directory}
Records == UNION {{Record(f, f.rows[i]) : i \in DOMAIN f.rows} : f \in Files}

Result == [count: Nat, rows: SUBSET Records]

Position ==
    [at: {"idle", "tenant", "file", "source", "rows", "print"}, dir: Directory \cup {<<>>},
     file: Nat \ {0}, row: Nat \ {0}, tenant: BOOLEAN, sources: SUBSET Files,
     rows: SUBSET Records, inserted: Nat, results: Seq(Result), unprinted: SUBSET Records]

TypeOK ==
    /\ tenant \in BOOLEAN /\ sources \subseteq Files /\ rows \subseteq Records
    /\ reported \in Nat /\ started \in Nat
    /\ load \in [Loader -> Position]

\* A loader that stores something is at a file of its directory, and at its rows
\* only after it stored the source.
AtFile == \A p \in Loader :
    /\ load[p].at \in {"source", "rows"} =>
          load[p].dir \in Directory /\ load[p].file \in DOMAIN load[p].dir
    /\ load[p].at = "rows" => File(p) \in load[p].sources

Unique(S) == \A r, s \in S : r.hash = s.hash => r = s
Apart(S, T) == \A r \in S, s \in T : r.hash # s.hash

\* No hash is stored twice, counting what each loader has not committed; no two
\* loaders hold the same one.
Distinct ==
    /\ Unique(rows)
    /\ \A p \in Loader : Unique(load[p].rows) /\ Apart(rows, load[p].rows)
    /\ \A p, q \in Loader : p # q => Apart(load[p].rows, load[q].rows)

Has(S, f, i) == \E r \in S : SameFact(r, Record(f, f.rows[i]))

\* What a loader stored of a file so far: all of it, or the rows before its position.
Pending == \A p \in Loader : \A f \in load[p].sources : \A i \in DOMAIN f.rows :
    (load[p].at = "rows" /\ f = File(p) => i < load[p].row) => Has(rows \cup load[p].rows, f, i)

\* A loader's results count the rows they are about, which it inserted.
CountsRows(results, S) ==
    \A i \in DOMAIN results : /\ results[i].rows \subseteq S
                              /\ results[i].count = Cardinality(results[i].rows)

\* What a loader inserted, it counted; what it has to print, it alone committed.
Counted ==
    /\ \A p \in Loader :
         /\ IsFiniteSet(load[p].rows) /\ load[p].inserted = Cardinality(load[p].rows)
         /\ load[p].at = "print" => CountsRows(load[p].results, load[p].unprinted)
         /\ load[p].at # "print" => CountsRows(load[p].results, load[p].rows)
         /\ load[p].at # "print" => load[p].unprinted = {}
         /\ load[p].unprinted \subseteq rows \ lost
    /\ \A p, q \in Loader : p # q => load[p].unprinted \cap load[q].unprinted = {}

Reported == IsFiniteSet(rows) /\ lost \subseteq rows /\ ReportsAddUp

IInv == TypeOK /\ AtFile /\ Distinct /\ Pending /\ FileIsWhole /\ Counted /\ Reported

-----------------------------------------------------------------------------
\* Directories and files are sequences.
LEMMA SequencesInFiles ==
    /\ \A d \in Directory : Len(d) \in Nat /\ DOMAIN d = 1..Len(d)
    /\ \A f \in Files : Len(f.rows) \in Nat /\ DOMAIN f.rows = 1..Len(f.rows)
<1>1. \A d \in Directory : d \in Seq({d[i] : i \in DOMAIN d})
    BY DirectoryAssumption
<1>2. \A f \in Files : f.rows \in Seq({f.rows[j] : j \in DOMAIN f.rows})
    <2> SUFFICES ASSUME NEW f \in Files
                 PROVE  f.rows \in Seq({f.rows[j] : j \in DOMAIN f.rows})
        OBVIOUS
    <2>1. PICK d \in Directory : \E i \in DOMAIN d : f = d[i]
        BY Zenon DEF Files
    <2>2. PICK i \in DOMAIN d : f = d[i]
        BY <2>1
    <2> QED BY <2>2, DirectoryAssumption, Zenon
<1>3. \A S, s : s \in Seq(S) => Len(s) \in Nat /\ DOMAIN s = 1..Len(s)
    OBVIOUS
<1> QED BY <1>1, <1>2, <1>3

\* Two stored records have one hash when they say the same, and only then.
LEMMA HashIsFact ==
    ASSUME NEW r \in Records, NEW s \in Records
    PROVE  r.hash = s.hash <=> SameFact(r, s)
<1>1. \A x \in Records : x.hash = [kind |-> x.kind, ref |-> x.ref, what |-> x.what, text |-> x.text]
    BY DEF Records, Record, ContentHash
<1>2. r.hash = [kind |-> r.kind, ref |-> r.ref, what |-> r.what, text |-> r.text]
    BY <1>1
<1>3. s.hash = [kind |-> s.kind, ref |-> s.ref, what |-> s.what, text |-> s.text]
    BY <1>1
<1> QED BY <1>2, <1>3 DEF SameFact

\* Nothing is stored or under way at the start.
LEMMA InitInv == Init => IInv
<1> SUFFICES ASSUME Init PROVE IInv
    OBVIOUS
<1>1. Idle \in Position /\ \A p \in Loader : load[p] = Idle
    BY DEF Init, Idle, Position
<1>2. TypeOK
    BY <1>1 DEF Init, TypeOK
<1>3. AtFile /\ Distinct /\ Pending /\ FileIsWhole
    BY <1>1 DEF Init, Idle, AtFile, Distinct, Unique, Apart, Pending, FileIsWhole
<1>4. Counted
    <2>1. /\ Idle.rows = {} /\ Idle.inserted = 0 /\ Idle.at = "idle" /\ Idle.unprinted = {}
          /\ Idle.results = <<>>
        BY DEF Idle
    <2>2. IsFiniteSet({}) /\ Cardinality({}) = 0
        BY FS_EmptySet
    <2>3. CountsRows(<<>>, {})
        BY DEF CountsRows
    <2> QED BY <1>1, <2>1, <2>2, <2>3 DEF Counted
<1>5. Reported
    <2>1. rows \ Unreported = {} /\ reported = 0
        BY DEF Init
    <2> QED BY <2>1, FS_EmptySet DEF Init, Reported, ReportsAddUp
<1> QED BY <1>2, <1>3, <1>4, <1>5 DEF IInv

\* What a loader is at is a file.
LEMMA AtItsFile ==
    ASSUME IInv, NEW p \in Loader, load[p].at \in {"source", "rows"}
    PROVE  File(p) \in Files
<1>1. load[p].dir \in Directory /\ load[p].file \in DOMAIN load[p].dir
    BY DEF IInv, AtFile
<1> DEFINE d == load[p].dir
<1>2. d[load[p].file] \in {d[i] : i \in DOMAIN d}
    BY <1>1
<1>3. {d[i] : i \in DOMAIN d} \subseteq Files
    BY <1>1 DEF Files
<1> QED BY <1>2, <1>3 DEF File

\* A loader that has nothing to print, before and after, changes no report.
LEMMA ReportKept ==
    ASSUME IInv, NEW p \in Loader, UNCHANGED <<rows, reported, lost>>,
           load[p].at # "print", load'[p].unprinted = {},
           \A q \in Loader : q # p => load'[q] = load[q]
    PROVE  Reported'
<1>1. load[p].unprinted = {}
    BY DEF IInv, Counted
<1>2. \A q \in Loader : load'[q].unprinted = load[q].unprinted
    BY <1>1
<1>3. UNION {load'[q].unprinted : q \in Loader} = UNION {load[q].unprinted : q \in Loader}
    BY <1>2
<1>4. Unreported' = Unreported
    BY <1>3 DEF Unreported
<1> QED BY <1>4 DEF IInv, Reported, ReportsAddUp

\* A result that is added counts what the loader inserted.
LEMMA ResultCounts ==
    ASSUME IInv, NEW p \in Loader, load[p].at # "print"
    PROVE  CountsRows(Results(p), load[p].rows) /\ Results(p) \in Seq(Result)
<1> DEFINE s == load[p].results
           e == [count |-> load[p].inserted, rows |-> load[p].rows]
<1>1. s \in Seq(Result) /\ e \in Result
    BY DEF IInv, TypeOK, Position, Result
<1>2. e.rows = load[p].rows /\ e.count = Cardinality(e.rows)
    BY DEF IInv, Counted
<1>3. CountsRows(s, load[p].rows)
    BY DEF IInv, Counted
<1> HIDE DEF s, e
<1>4. Append(s, e) \in Seq(Result) /\ DOMAIN Append(s, e) = 1..(Len(s) + 1)
      /\ DOMAIN s = 1..Len(s) /\ Len(s) \in Nat
    BY <1>1
<1>5. \A i \in DOMAIN Append(s, e) :
         Append(s, e)[i] = IF i \in DOMAIN s THEN s[i] ELSE e
    BY <1>1, <1>4
<1>6. CountsRows(Append(s, e), load[p].rows)
    BY <1>2, <1>3, <1>5 DEF CountsRows
<1> QED BY <1>4, <1>6 DEF Results, s, e

\* A loader that moves on and keeps what it stored keeps the invariant.
LEMMA MoveInv ==
    ASSUME IInv, NEW p \in Loader, NEW new \in Position,
           load' = [load EXCEPT ![p] = new],
           UNCHANGED <<tenant, sources, rows, reported, lost, started>>,
           new.rows = load[p].rows, new.sources = load[p].sources,
           new.inserted = load[p].inserted, new.unprinted = load[p].unprinted,
           CountsRows(new.results, load[p].rows),
           load[p].at # "print", new.at # "print",
           new.at = "source" => new.dir \in Directory /\ new.file \in DOMAIN new.dir,
           new.at # "rows",
           load[p].at = "rows" => \A i \in DOMAIN File(p).rows : i < load[p].row
    PROVE  IInv'
<1>1. load[p] \in Position /\ load' \in [Loader -> Position]
    BY DEF IInv, TypeOK
<1>2. load'[p] = new /\ \A q \in Loader : q # p => load'[q] = load[q]
    BY DEF IInv, TypeOK
<1>3. TypeOK'
    BY <1>1 DEF IInv, TypeOK
<1>4. AtFile'
    BY <1>2 DEF IInv, AtFile, File
<1>5. Distinct'
    BY <1>2 DEF IInv, Distinct, Unique, Apart
<1>6. Pending'
    BY <1>2 DEF IInv, Pending, File, Has
<1>7. FileIsWhole'
    BY DEF IInv, FileIsWhole
<1>8. Counted'
    BY <1>2 DEF IInv, Counted
<1>9. Reported'
    BY <1>2, ReportKept DEF IInv, Counted
<1> QED BY <1>3, <1>4, <1>5, <1>6, <1>7, <1>8, <1>9 DEF IInv

\* A loader that starts or gives up holds nothing.
LEMMA EmptyInv ==
    ASSUME IInv, NEW p \in Loader, NEW new \in Position,
           load' = [load EXCEPT ![p] = new],
           UNCHANGED <<tenant, sources, rows, reported, lost>>, started' \in Nat,
           new.rows = {}, new.sources = {}, new.inserted = 0, new.results = <<>>,
           new.unprinted = {}, new.at \in {"idle", "tenant"}, load[p].at # "print"
    PROVE  IInv'
<1>1. load[p] \in Position /\ load' \in [Loader -> Position]
    BY DEF IInv, TypeOK
<1>2. load'[p] = new /\ \A q \in Loader : q # p => load'[q] = load[q]
    BY DEF IInv, TypeOK
<1>3. TypeOK'
    BY <1>1 DEF IInv, TypeOK
<1>4. AtFile'
    BY <1>2 DEF IInv, AtFile, File
<1>5. Distinct'
    BY <1>2 DEF IInv, Distinct, Unique, Apart
<1>6. Pending'
    BY <1>2 DEF IInv, Pending, File, Has
<1>7. FileIsWhole'
    BY DEF IInv, FileIsWhole
<1>8. Counted'
    <2>1. IsFiniteSet({}) /\ Cardinality({}) = 0
        BY FS_EmptySet
    <2>2. CountsRows(<<>>, {})
        BY DEF CountsRows
    <2> QED BY <1>2, <2>1, <2>2 DEF IInv, Counted
<1>9. Reported'
    BY <1>2, ReportKept
<1> QED BY <1>3, <1>4, <1>5, <1>6, <1>7, <1>8, <1>9 DEF IInv

LEMMA BeginInv == ASSUME IInv, NEW p \in Loader, Begin(p) PROVE IInv'
<1>1. PICK d \in Directory : load' = [load EXCEPT ![p] = [Idle EXCEPT !.at = "tenant", !.dir = d]]
    BY DEF Begin
<1> DEFINE new == [Idle EXCEPT !.at = "tenant", !.dir = d]
<1>0. Idle \in Position
    BY DEF Idle, Position
<1>2. new \in Position
    BY <1>0 DEF Position
<1>3. new.rows = {} /\ new.sources = {} /\ new.inserted = 0 /\ new.at \in {"idle", "tenant"}
      /\ new.results = <<>> /\ new.unprinted = {} /\ load[p].at # "print"
    BY DEF Idle, Begin
<1>4. UNCHANGED <<tenant, sources, rows, reported, lost>> /\ started' \in Nat
    BY DEF Begin, IInv, TypeOK
<1>5. load' = [load EXCEPT ![p] = new]
    BY <1>1
<1> HIDE DEF new
<1> QED BY <1>2, <1>3, <1>4, <1>5, EmptyInv

LEMMA RollBackInv == ASSUME IInv, NEW p \in Loader, RollBack(p) PROVE IInv'
<1>1. Idle \in Position
    BY DEF Idle, Position
<1>2. Idle.rows = {} /\ Idle.sources = {} /\ Idle.inserted = 0 /\ Idle.at \in {"idle", "tenant"}
      /\ Idle.results = <<>> /\ Idle.unprinted = {} /\ load[p].at # "print"
    BY DEF Idle, RollBack
<1>3. UNCHANGED <<tenant, sources, rows, reported, lost>> /\ started' \in Nat
    BY DEF RollBack, IInv, TypeOK
<1>4. load' = [load EXCEPT ![p] = Idle]
    BY DEF RollBack
<1> QED BY <1>1, <1>2, <1>3, <1>4, EmptyInv

LEMMA EnsureTenantInv == ASSUME IInv, NEW p \in Loader, EnsureTenant(p) PROVE IInv'
<1> DEFINE new == [load[p] EXCEPT !.at = "file", !.tenant = ~ tenant]
<1>1. load[p] \in Position /\ tenant \in BOOLEAN
    BY DEF IInv, TypeOK
<1>2. new \in Position
    BY <1>1 DEF Position
<1>3. /\ new.rows = load[p].rows /\ new.sources = load[p].sources
      /\ new.inserted = load[p].inserted /\ new.at = "file"
      /\ new.unprinted = load[p].unprinted /\ new.results = load[p].results
    BY <1>1 DEF Position
<1>4. load' = [load EXCEPT ![p] = new] /\ UNCHANGED <<tenant, sources, rows, reported, lost, started>>
    BY <1>1 DEF EnsureTenant, Position
<1>5. load[p].at \notin {"rows", "print"} /\ CountsRows(load[p].results, load[p].rows)
    BY DEF EnsureTenant, IInv, Counted
<1> HIDE DEF new
<1> QED BY <1>2, <1>3, <1>4, <1>5, MoveInv

LEMMA ParseInv == ASSUME IInv, NEW p \in Loader, Parse(p) PROVE IInv'
<1> DEFINE new == [load[p] EXCEPT !.at = "source"]
<1>1. load[p] \in Position
    BY DEF IInv, TypeOK
<1>2. new \in Position
    BY <1>1 DEF Position
<1>3. /\ new.rows = load[p].rows /\ new.sources = load[p].sources
      /\ new.inserted = load[p].inserted /\ new.at = "source"
      /\ new.unprinted = load[p].unprinted /\ new.results = load[p].results
      /\ new.file = load[p].file /\ new.dir = load[p].dir
    BY <1>1 DEF Position
<1>4. load' = [load EXCEPT ![p] = new] /\ UNCHANGED <<tenant, sources, rows, reported, lost, started>>
    BY <1>1 DEF Parse, Position
<1>5. load[p].at \notin {"rows", "print"} /\ CountsRows(load[p].results, load[p].rows)
    BY DEF Parse, IInv, Counted
<1>6. load[p].dir \in Directory /\ load[p].file \in DOMAIN load[p].dir
    <2>1. load[p].file \in Nat \ {0} /\ load[p].file <= Len(load[p].dir)
          /\ load[p].dir \in Directory \cup {<<>>}
        BY <1>1 DEF Parse, Position
    <2>2. load[p].dir # <<>>
        BY <2>1
    <2> QED BY <2>1, <2>2, SequencesInFiles
<1> HIDE DEF new
<1> QED BY <1>2, <1>3, <1>4, <1>5, <1>6, MoveInv

LEMMA FileLoadedInv == ASSUME IInv, NEW p \in Loader, FileLoaded(p) PROVE IInv'
<1> DEFINE new == [load[p] EXCEPT !.at = "file", !.file = @ + 1, !.results = Results(p)]
<1>1. load[p] \in Position
    BY DEF IInv, TypeOK
<1>2. load[p].file + 1 \in Nat \ {0}
    BY <1>1 DEF Position
<1>0. load[p].at = "rows" /\ CountsRows(Results(p), load[p].rows) /\ Results(p) \in Seq(Result)
    BY ResultCounts DEF FileLoaded
<1>3. new \in Position
    BY <1>0, <1>1, <1>2 DEF Position
<1>4. /\ new.rows = load[p].rows /\ new.sources = load[p].sources
      /\ new.inserted = load[p].inserted /\ new.at = "file"
      /\ new.unprinted = load[p].unprinted /\ new.results = Results(p)
    BY <1>1 DEF Position
<1>5. load' = [load EXCEPT ![p] = new] /\ UNCHANGED <<tenant, sources, rows, reported, lost, started>>
    BY DEF FileLoaded
<1>6. File(p) \in Files
    BY AtItsFile DEF FileLoaded
<1>7. \A i \in DOMAIN File(p).rows : i < load[p].row
    BY <1>1, <1>6, SequencesInFiles DEF FileLoaded, Position
<1> HIDE DEF new
<1> QED BY <1>0, <1>3, <1>4, <1>5, <1>7, MoveInv

\* A file that is stored is new, and nothing of it is claimed yet.
LEMMA InsertSourceInv == ASSUME IInv, NEW p \in Loader, InsertSource(p) PROVE IInv'
<1>1. load[p] \in Position
    BY DEF IInv, TypeOK
<1>2. load[p].at = "source" /\ UNCHANGED <<tenant, sources, rows, reported, lost, started>>
    BY DEF InsertSource
<1>3. File(p) \in Files
    BY <1>2, AtItsFile
<1>4. CASE File(p) \in sources \cup load[p].sources
    <2> DEFINE new == [load[p] EXCEPT !.at = "file", !.file = @ + 1, !.results = Results(p)]
    <2>0. CountsRows(Results(p), load[p].rows) /\ Results(p) \in Seq(Result)
        BY <1>2, ResultCounts
    <2>1. load[p].file + 1 \in Nat \ {0}
        BY <1>1 DEF Position
    <2>2. new \in Position
        BY <1>1, <2>0, <2>1 DEF Position
    <2>3. /\ new.rows = load[p].rows /\ new.sources = load[p].sources
          /\ new.inserted = load[p].inserted /\ new.at = "file"
          /\ new.unprinted = load[p].unprinted /\ new.results = Results(p)
        BY <1>1 DEF Position
    <2>4. load' = [load EXCEPT ![p] = new]
        BY <1>4 DEF InsertSource
    <2> HIDE DEF new
    <2> QED BY <1>2, <2>0, <2>2, <2>3, <2>4, MoveInv
<1>5. CASE File(p) \notin sources \cup load[p].sources
    <2> DEFINE more == load[p].sources \cup {File(p)}
               new == [load[p] EXCEPT !.at = "rows", !.row = 1, !.sources = more]
    <2>0. more \in SUBSET Files
        <3>1. load[p].sources \in SUBSET Files
            BY <1>1 DEF Position
        <3> QED BY <3>1, <1>3
    <2>3. load' = [load EXCEPT ![p] = new]
        BY <1>5 DEF InsertSource
    <2> HIDE DEF more
    <2>1. new \in Position
        <3>1. 1 \in Nat \ {0} /\ "rows" \in {"idle", "tenant", "file", "source", "rows", "print"}
            OBVIOUS
        <3>2. [load[p] EXCEPT !.at = "rows", !.sources = more] \in Position
            BY <1>1, <2>0, <3>1 DEF Position
        <3>3. [[load[p] EXCEPT !.at = "rows", !.sources = more] EXCEPT !.row = 1] \in Position
            BY <3>1, <3>2 DEF Position
        <3> QED BY <1>1, <3>3 DEF Position
    <2>2. /\ new.rows = load[p].rows /\ new.sources = more
          /\ new.inserted = load[p].inserted /\ new.at = "rows" /\ new.row = 1
          /\ new.unprinted = load[p].unprinted /\ new.results = load[p].results
          /\ new.dir = load[p].dir /\ new.file = load[p].file
        BY <1>1 DEF Position
    <2> HIDE DEF new
    <2>4. load'[p] = new /\ \A q \in Loader : q # p => load'[q] = load[q]
        BY <2>3 DEF IInv, TypeOK
    <2>5. File(p)' = File(p)
        BY <2>2, <2>4 DEF File
    <2>6. TypeOK'
        BY <1>2, <2>1, <2>3 DEF IInv, TypeOK
    <2>7. AtFile'
        BY <1>2, <2>2, <2>4 DEF IInv, AtFile, File, more
    <2>8. Distinct'
        BY <1>2, <2>2, <2>4 DEF IInv, Distinct, Unique, Apart
    <2>9. Pending'
        <3> SUFFICES ASSUME NEW q \in Loader, NEW f \in load'[q].sources, NEW i \in DOMAIN f.rows,
                            load'[q].at = "rows" /\ f = File(q)' => i < load'[q].row
                     PROVE  Has(rows' \cup load'[q].rows, f, i)
            BY DEF Pending, Has
        <3>1. CASE q # p
            BY <1>2, <2>4, <3>1 DEF IInv, Pending, File
        <3>2. CASE q = p /\ f # File(p)
            BY <1>2, <2>2, <2>4, <3>2 DEF IInv, Pending, more
        <3>3. CASE q = p /\ f = File(p)
            <4>1. i < 1
                BY <2>2, <2>4, <2>5, <3>3
            <4>2. i \in 1..Len(f.rows) /\ Len(f.rows) \in Nat
                BY <1>3, <3>3, SequencesInFiles
            <4> QED BY <4>1, <4>2
        <3> QED BY <3>1, <3>2, <3>3
    <2>10. FileIsWhole'
        BY <1>2 DEF IInv, FileIsWhole
    <2>11. Counted'
        BY <1>2, <2>2, <2>4 DEF IInv, Counted
    <2>12. Reported'
        BY <1>2, <2>2, <2>4, ReportKept DEF IInv, Counted
    <2> QED BY <2>6, <2>7, <2>8, <2>9, <2>10, <2>11, <2>12 DEF IInv
<1> QED BY <1>4, <1>5

\* The row that is read is a record of its file.
LEMMA ReadsRecord ==
    ASSUME IInv, NEW p \in Loader, InsertRow(p)
    PROVE  load[p].row \in DOMAIN File(p).rows /\ Record(File(p), Row(p)) \in Records
<1>1. File(p) \in Files
    BY AtItsFile DEF InsertRow
<1>2. load[p].row \in Nat \ {0} /\ load[p].row <= Len(File(p).rows)
    BY DEF IInv, TypeOK, Position, InsertRow
<1>3. load[p].row \in DOMAIN File(p).rows
    BY <1>1, <1>2, SequencesInFiles
<1> DEFINE f == File(p)
<1>4. Record(f, f.rows[load[p].row]) \in {Record(f, f.rows[i]) : i \in DOMAIN f.rows}
    BY <1>3
<1>5. {Record(f, f.rows[i]) : i \in DOMAIN f.rows} \subseteq Records
    BY <1>1 DEF Records
<1> QED BY <1>3, <1>4, <1>5 DEF Row

\* A row is stored when nobody has its hash, and is there afterwards in any case.
LEMMA InsertRowInv == ASSUME IInv, NEW p \in Loader, InsertRow(p) PROVE IInv'
<1> DEFINE r == Record(File(p), Row(p))
           known == r.hash \in Hashes(rows \cup load[p].rows)
           more == IF known THEN load[p].rows ELSE load[p].rows \cup {r}
           count == IF known THEN load[p].inserted ELSE load[p].inserted + 1
           new == [load[p] EXCEPT !.row = @ + 1, !.rows = more, !.inserted = count]
<1>1. load[p] \in Position
    BY DEF IInv, TypeOK
<1>2. load[p].at = "rows" /\ UNCHANGED <<tenant, sources, rows, reported, lost, started>>
    BY DEF InsertRow
<1>3. r \in Records /\ load[p].row \in DOMAIN File(p).rows
    BY ReadsRecord
<1>4. \A q \in Loader : q # p => r.hash \notin Hashes(load[q].rows)
    BY DEF InsertRow, Others
<1>5. more \in SUBSET Records /\ count \in Nat /\ load[p].row + 1 \in Nat \ {0}
    BY <1>1, <1>3 DEF Position
<1>6. load' = [load EXCEPT ![p] = new]
    BY <1>1 DEF InsertRow, Position
<1> HIDE DEF r, more, count
<1>7. new \in Position
    BY <1>1, <1>5 DEF Position
<1>8. /\ new.rows = more /\ new.inserted = count /\ new.row = load[p].row + 1
      /\ new.at = load[p].at /\ new.sources = load[p].sources
      /\ new.dir = load[p].dir /\ new.file = load[p].file
      /\ new.unprinted = load[p].unprinted /\ new.results = load[p].results
    BY <1>1 DEF Position
<1> HIDE DEF new
<1>9. load'[p] = new /\ \A q \in Loader : q # p => load'[q] = load[q]
    BY <1>6 DEF IInv, TypeOK
<1>10. File(p)' = File(p)
    BY <1>8, <1>9 DEF File
<1>11. \/ more = load[p].rows
       \/ more = load[p].rows \cup {r} /\ ~ known
    BY DEF more
<1>12. ~ known => \A s \in rows \cup load[p].rows : s.hash # r.hash
    BY DEF Hashes
<1>13. \A q \in Loader : q # p => \A s \in load[q].rows : s.hash # r.hash
    BY <1>4 DEF Hashes
<1>14. \E s \in rows \cup more : SameFact(s, r)
    <2>1. CASE known
        <3>1. PICK s \in rows \cup load[p].rows : s.hash = r.hash
            BY <2>1 DEF Hashes
        <3>2. s \in Records
            BY <1>1 DEF IInv, TypeOK, Position
        <3> QED BY <1>3, <2>1, <3>1, <3>2, HashIsFact DEF more
    <2>2. CASE ~ known
        BY <2>2 DEF more, SameFact
    <2> QED BY <2>1, <2>2
<1> HIDE DEF known
<1>15. TypeOK'
    BY <1>2, <1>6, <1>7 DEF IInv, TypeOK
<1>16. AtFile'
    BY <1>2, <1>8, <1>9 DEF IInv, AtFile, File
<1>17. Distinct'
    <2>1. Unique(more) /\ Apart(rows, more)
        BY <1>11, <1>12 DEF IInv, Distinct, Unique, Apart
    <2>2. \A q \in Loader : q # p => Apart(more, load[q].rows) /\ Apart(load[q].rows, more)
        BY <1>11, <1>13 DEF IInv, Distinct, Apart
    <2> QED BY <1>2, <1>8, <1>9, <2>1, <2>2 DEF IInv, Distinct
<1>18. Pending'
    <2> SUFFICES ASSUME NEW q \in Loader, NEW f \in load'[q].sources, NEW i \in DOMAIN f.rows,
                        load'[q].at = "rows" /\ f = File(q)' => i < load'[q].row
                 PROVE  Has(rows' \cup load'[q].rows, f, i)
        BY DEF Pending, Has
    <2>1. CASE q # p
        BY <1>2, <1>9, <2>1 DEF IInv, Pending, File
    <2>2. CASE q = p /\ f = File(p) /\ i = load[p].row
        <3>1. r = Record(f, f.rows[i])
            BY <2>2 DEF r, Row
        <3> QED BY <1>2, <1>8, <1>9, <1>14, <2>2, <3>1 DEF Has
    <2>3. CASE q = p /\ ~ (f = File(p) /\ i = load[p].row)
        <3>0. f = File(p) => i < load[p].row + 1
            BY <1>2, <1>8, <1>9, <1>10, <2>3
        <3>1. f = File(p) => i \in Nat /\ load[p].row \in Nat
            <4>1. File(p) \in Files
                BY <1>2, AtItsFile
            <4> QED BY <1>1, <4>1, SequencesInFiles DEF Position
        <3>2. f = File(p) => i < load[p].row
            BY <2>3, <3>0, <3>1
        <3>3. Has(rows \cup load[p].rows, f, i)
            BY <1>8, <1>9, <2>3, <3>2 DEF IInv, Pending
        <3> QED BY <1>2, <1>8, <1>9, <1>11, <2>3, <3>3 DEF Has
    <2> QED BY <2>1, <2>2, <2>3
<1>19. FileIsWhole'
    BY <1>2 DEF IInv, FileIsWhole
<1>20. IsFiniteSet(more) /\ count = Cardinality(more)
    <2>1. IsFiniteSet(load[p].rows) /\ load[p].inserted = Cardinality(load[p].rows)
        BY DEF IInv, Counted
    <2>2. ~ known => r \notin load[p].rows
        BY <1>12
    <2>3. IsFiniteSet(load[p].rows \cup {r}) /\
          (~ known => Cardinality(load[p].rows \cup {r}) = Cardinality(load[p].rows) + 1)
        BY <2>1, <2>2, FS_AddElement
    <2> QED BY <2>1, <2>3 DEF more, count
<1>21. Counted'
    <2>1. CountsRows(new.results, more)
        BY <1>2, <1>8, <1>11 DEF IInv, Counted, CountsRows
    <2> QED BY <1>2, <1>8, <1>9, <1>20, <2>1 DEF IInv, Counted
<1>22. Reported'
    BY <1>2, <1>8, <1>9, ReportKept DEF IInv, Counted
<1> QED BY <1>15, <1>16, <1>17, <1>18, <1>19, <1>21, <1>22 DEF IInv

\* What a loader commits is new to the tables and apart from what the others hold.
LEMMA CommitInv == ASSUME IInv, NEW p \in Loader, Commit(p) PROVE IInv'
<1> DEFINE new == [Idle EXCEPT !.at = "print", !.results = load[p].results,
                              !.unprinted = load[p].rows]
<1>0. Idle \in Position
    BY DEF Idle, Position
<1>1. load[p] \in Position /\ new \in Position
    BY <1>0 DEF IInv, TypeOK, Position
<1>1a. /\ new.at = "print" /\ new.rows = {} /\ new.sources = {} /\ new.inserted = 0
       /\ new.results = load[p].results /\ new.unprinted = load[p].rows
    BY DEF Idle
<1>2. /\ load[p].at = "file" /\ tenant' = (tenant \/ load[p].tenant)
      /\ sources' = sources \cup load[p].sources /\ rows' = rows \cup load[p].rows
      /\ UNCHANGED <<reported, lost>> /\ load' = [load EXCEPT ![p] = new]
      /\ started' = started
    BY DEF Commit
<1> HIDE DEF new
<1>3. load'[p] = new /\ \A q \in Loader : q # p => load'[q] = load[q]
    BY <1>2 DEF IInv, TypeOK
<1>4. TypeOK'
    <2>1. sources' \subseteq Files /\ rows' \subseteq Records /\ load' \in [Loader -> Position]
        BY <1>1, <1>2 DEF IInv, TypeOK, Position
    <2>2. reported' \in Nat /\ started' \in Nat
        BY <1>1, <1>2 DEF IInv, TypeOK, Position
    <2>3. tenant' \in BOOLEAN
        BY <1>2
    <2> QED BY <2>1, <2>2, <2>3 DEF TypeOK
<1>5. AtFile'
    BY <1>1a, <1>3 DEF IInv, AtFile, File
<1>6. Distinct'
    <2>1. Unique(rows') /\ Apart(rows', {}) /\ Unique({})
        BY <1>2 DEF IInv, Distinct, Unique, Apart
    <2>2. \A q \in Loader : q # p => Apart(rows', load[q].rows)
        BY <1>2 DEF IInv, Distinct, Apart
    <2>3. \A q \in Loader : Apart({}, load[q].rows) /\ Apart(load[q].rows, {})
        BY DEF Apart
    <2>4. new.rows = {}
        BY <1>1a
    <2>5. \A q, o \in Loader : q # o => Apart(load'[q].rows, load'[o].rows)
        BY <1>3, <2>3, <2>4 DEF IInv, Distinct
    <2>6. \A q \in Loader : Unique(load'[q].rows) /\ Apart(rows', load'[q].rows)
        BY <1>3, <2>1, <2>2, <2>4 DEF IInv, Distinct
    <2> QED BY <2>1, <2>5, <2>6 DEF Distinct
<1>7. Pending'
    BY <1>1a, <1>2, <1>3 DEF IInv, Pending, File, Has
<1>8. FileIsWhole'
    BY <1>2 DEF IInv, FileIsWhole, Pending, Has
<1>9. rows \cap load[p].rows = {} /\ IsFiniteSet(load[p].rows)
      /\ load[p].unprinted = {} /\ CountsRows(load[p].results, load[p].rows)
    BY <1>2 DEF IInv, Distinct, Apart, Counted
<1>10. Counted'
    <2>1. IsFiniteSet({}) /\ Cardinality({}) = 0
        BY FS_EmptySet
    <2>2. \A q \in Loader : q # p => load[q].unprinted \subseteq rows \ lost
        BY DEF IInv, Counted
    <2>3. load[p].rows \subseteq rows' \ lost
        BY <1>2, <1>9 DEF IInv, Reported
    <2>4. \A q \in Loader : q # p => load[q].unprinted \cap load[p].rows = {}
        BY <1>9, <2>2
    <2> DEFINE Own(q) ==
          /\ IsFiniteSet(load'[q].rows) /\ load'[q].inserted = Cardinality(load'[q].rows)
          /\ load'[q].at = "print" => CountsRows(load'[q].results, load'[q].unprinted)
          /\ load'[q].at # "print" => CountsRows(load'[q].results, load'[q].rows)
          /\ load'[q].at # "print" => load'[q].unprinted = {}
          /\ load'[q].unprinted \subseteq rows' \ lost'
    <2>5. Own(p)
        BY <1>1a, <1>2, <1>3, <1>9, <2>1, <2>3
    <2>6. \A q \in Loader : q # p => Own(q)
        BY <1>2, <1>3 DEF IInv, Counted
    <2>7. \A q, o \in Loader : q # o => load'[q].unprinted \cap load'[o].unprinted = {}
        BY <1>1a, <1>3, <2>4 DEF IInv, Counted
    <2>8. \A q \in Loader : Own(q)
        BY <2>5, <2>6
    <2> QED BY <2>7, <2>8 DEF Counted, CountsRows
<1>11. Reported'
    <2>1. IsFiniteSet(rows')
        BY <1>2, <1>9, FS_Union DEF IInv, Reported
    <2>2. UNION {load'[q].unprinted : q \in Loader}
            = load[p].rows \cup UNION {load[q].unprinted : q \in Loader}
        BY <1>1a, <1>3, <1>9
    <2>3. Unreported' = Unreported \cup load[p].rows
        BY <1>2, <2>2 DEF Unreported
    <2>4. rows' \ Unreported' = rows \ Unreported
        BY <1>2, <1>9, <2>3
    <2> QED BY <1>2, <2>1, <2>4 DEF IInv, Reported, ReportsAddUp
<1> QED BY <1>4, <1>5, <1>6, <1>7, <1>8, <1>10, <1>11 DEF IInv

\* What is printed was unreported, and what a death cuts off stays so for good.
LEMMA PrintInv == ASSUME IInv, NEW p \in Loader, PrintResults(p) PROVE IInv'
<1>1. PICK n \in 0..Len(load[p].results) :
        LET out == IF n = 0 THEN [count |-> 0, rows |-> {}] ELSE load[p].results[n]
        IN  /\ reported' = reported + out.count
            /\ lost' = lost \cup (load[p].unprinted \ out.rows)
    BY DEF PrintResults
<1> DEFINE out == IF n = 0 THEN [count |-> 0, rows |-> {}] ELSE load[p].results[n]
<1>2. reported' = reported + out.count /\ lost' = lost \cup (load[p].unprinted \ out.rows)
    BY <1>1
<1>3. out.rows \subseteq load[p].unprinted /\ out.count = Cardinality(out.rows)
    <2>1. CASE n = 0
        BY <2>1, FS_EmptySet
    <2>2. CASE n # 0
        <3>1. n \in DOMAIN load[p].results
            BY <2>2 DEF IInv, TypeOK, Position
        <3> QED BY <2>2, <3>1 DEF PrintResults, IInv, Counted, CountsRows
    <2> QED BY <2>1, <2>2
<1> HIDE DEF out
<1>4. /\ load[p].at = "print" /\ load' = [load EXCEPT ![p] = Idle]
      /\ UNCHANGED <<tenant, sources, rows, started>>
    BY DEF PrintResults
<1>5. load'[p] = Idle /\ \A q \in Loader : q # p => load'[q] = load[q]
    BY <1>4 DEF IInv, TypeOK
<1>6. /\ Idle \in Position /\ Idle.rows = {} /\ Idle.sources = {} /\ Idle.inserted = 0
      /\ Idle.at = "idle" /\ Idle.results = <<>> /\ Idle.unprinted = {}
    BY DEF Idle, Position
<1>7. load[p].unprinted \subseteq rows \ lost /\ IsFiniteSet(rows)
    BY DEF IInv, Counted, Reported
<1>8. IsFiniteSet(out.rows) /\ out.count \in Nat
    BY <1>3, <1>7, FS_Subset, FS_CardinalityType
<1>9. TypeOK'
    BY <1>2, <1>4, <1>6, <1>8 DEF IInv, TypeOK
<1>10. AtFile'
    BY <1>5, <1>6 DEF IInv, AtFile, File
<1>11. Distinct'
    BY <1>4, <1>5, <1>6 DEF IInv, Distinct, Unique, Apart
<1>12. Pending' /\ FileIsWhole'
    BY <1>4, <1>5, <1>6 DEF IInv, Pending, File, Has, FileIsWhole
<1>13. Counted'
    <2>1. \A q \in Loader : q # p => load[q].unprinted \cap load[p].unprinted = {}
        BY DEF IInv, Counted
    <2>2. \A q \in Loader : q # p => load[q].unprinted \subseteq rows \ lost'
        BY <1>2, <2>1 DEF IInv, Counted
    <2>3. IsFiniteSet({}) /\ Cardinality({}) = 0
        BY FS_EmptySet
    <2>4. CountsRows(<<>>, {})
        BY DEF CountsRows
    <2> QED BY <1>4, <1>5, <1>6, <2>2, <2>3, <2>4 DEF IInv, Counted
<1>14. Reported'
    <2>1. UNION {load[q].unprinted : q \in Loader}
            = load[p].unprinted \cup UNION {load[q].unprinted : q \in Loader \ {p}}
        OBVIOUS
    <2>2. UNION {load'[q].unprinted : q \in Loader} = UNION {load[q].unprinted : q \in Loader \ {p}}
        BY <1>5, <1>6
    <2>3. load[p].unprinted \cap UNION {load[q].unprinted : q \in Loader \ {p}} = {}
        BY DEF IInv, Counted
    <2>4. rows \ (Unreported') = (rows \ Unreported) \cup out.rows
          /\ (rows \ Unreported) \cap out.rows = {}
        BY <1>2, <1>3, <1>7, <2>1, <2>2, <2>3 DEF Unreported
    <2>5. IsFiniteSet(rows \ Unreported)
        BY <1>7, FS_Subset
    <2>6. Cardinality(rows \ (Unreported')) = Cardinality(rows \ Unreported) + out.count
        <3>1. PICK S, T : S = rows \ Unreported /\ T = out.rows
            OBVIOUS
        <3>2. Cardinality(S \cup T) = Cardinality(S) + Cardinality(T) - Cardinality(S \cap T)
            BY <1>8, <2>5, <3>1, FS_Union
        <3>3. S \cap T = {} /\ rows \ (Unreported') = S \cup T
            BY <2>4, <3>1
        <3>4. Cardinality({}) = 0 /\ Cardinality(S) \in Nat /\ Cardinality(T) = out.count
            BY <1>3, <2>5, <3>1, FS_EmptySet, FS_CardinalityType
        <3>5. Cardinality(S \cap T) = 0
            BY <3>3, <3>4
        <3>6. PICK k \in Nat, m \in Nat : k = Cardinality(S) /\ m = Cardinality(T) /\ m = out.count
            BY <1>8, <3>4
        <3>7. Cardinality(S \cup T) = k + m - 0
            BY <3>2, <3>5, <3>6
        <3>8. Cardinality(S \cup T) = Cardinality(S) + out.count
            BY <3>6, <3>7
        <3> QED BY <3>1, <3>3, <3>8
    <2>7. lost' \subseteq rows
        BY <1>2, <1>7 DEF IInv, Reported
    <2> QED BY <1>2, <1>4, <1>7, <2>6, <2>7 DEF IInv, Reported, ReportsAddUp
<1> QED BY <1>9, <1>10, <1>11, <1>12, <1>13, <1>14 DEF IInv

LEMMA StutterInv == ASSUME IInv, UNCHANGED vars PROVE IInv'
<1>1. TypeOK' /\ AtFile' /\ Distinct'
    BY DEF vars, IInv, TypeOK, AtFile, Distinct, File, Unique, Apart
<1>2. Pending' /\ FileIsWhole' /\ Counted'
    BY DEF vars, IInv, Pending, File, Has, FileIsWhole, Counted
<1>3. Reported'
    BY DEF vars, IInv, Reported, ReportsAddUp, Unreported
<1> QED BY <1>1, <1>2, <1>3 DEF IInv

\* Every step of every loader keeps the invariant.
LEMMA StepInv == IInv /\ [Next]_vars => IInv'
<1> SUFFICES ASSUME IInv, [Next]_vars PROVE IInv'
    OBVIOUS
<1>1. CASE UNCHANGED vars
    BY <1>1, StutterInv
<1>2. ASSUME NEW p \in Loader,
             \/ Begin(p) \/ EnsureTenant(p) \/ Parse(p) \/ InsertSource(p)
             \/ InsertRow(p) \/ FileLoaded(p) \/ Commit(p) \/ PrintResults(p) \/ RollBack(p)
      PROVE  IInv'
    BY <1>2, BeginInv, EnsureTenantInv, ParseInv, InsertSourceInv, InsertRowInv,
       FileLoadedInv, CommitInv, PrintInv, RollBackInv
<1> QED BY <1>1, <1>2 DEF Next

LEMMA Inductive == Spec => []IInv
<1> QED BY InitInv, StepInv, PTL DEF Spec

\* FactStoredOnce: overlapping loads, other files and other spellings never store a
\* fact a second time (loader.py 3-6).
THEOREM FactsStoredOnce == Spec => []FactStoredOnce
<1>1. IInv => FactStoredOnce
    BY HashIsFact DEF IInv, TypeOK, Distinct, Unique, FactStoredOnce
<1> QED BY <1>1, Inductive, PTL

\* FileIsWhole: a file that will be skipped from now on is there with all its rows,
\* also when the load that brought it took some of them from another (loader.py 56-57).
THEOREM FilesWhole == Spec => []FileIsWhole
<1>1. IInv => FileIsWhole
    BY DEF IInv
<1> QED BY <1>1, Inductive, PTL

\* ReportsAddUp: the printed counts add up to the rows of the tables, but for the rows
\* of results that wait to be printed or that a death cut off (cli.py 45-52).
THEOREM ReportsCorrect == Spec => []ReportsAddUp
<1>1. IInv => ReportsAddUp
    BY DEF IInv, Reported
<1> QED BY <1>1, Inductive, PTL
=============================================================================
