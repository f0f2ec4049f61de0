------------------------------- MODULE Ingest -------------------------------
(***************************************************************************)
(* Ingest: `recon ingest` loads a directory of ledger exports and bank      *)
(* statements (load_manifest_dir) in one transaction. Several may run at    *)
(* once, die anywhere, and be repeated with the same or with newer files.   *)
(*                                                                         *)
(* The tables hold what is committed; each loader carries what it inserted  *)
(* and has not committed. An insert waits while another loader holds the    *)
(* same key, as an insert into a unique index does. A file is what is in    *)
(* it: its sha256 is the file itself. Files do not change during a load.    *)
(***************************************************************************)
EXTENDS Integers, Sequences, FiniteSets

CONSTANTS
    Loader,      \* processes that can run an ingest
    Directory,   \* the directories of this instance: sequences of files
    Fold,        \* the folded form of each text
    MaxLoads     \* bound of the model: ingests that are started

\* A file has a kind and a sequence of rows. A row has a reference, what it says
\* (dates, amount, currency), a text, a status, and may not be parseable.
ASSUME DirectoryAssumption ==
    \A d \in Directory : /\ d \in Seq({d[i] : i \in DOMAIN d})
                         /\ \A i \in DOMAIN d : d[i].rows \in Seq({d[i].rows[j] : j \in DOMAIN d[i].rows})
ASSUME LoadsAssumption == MaxLoads \in Nat

VARIABLES
    tenant,     \* the tenants row exists
    sources,    \* table sources: the files it names
    rows,       \* tables bank_lines and ledger_entries
    reported,   \* rows_inserted, added up over the results that were printed
    lost,       \* the rows of results that were committed and never printed
    started,    \* ingests started
    load        \* per loader: its position and its open transaction

vars == <<tenant, sources, rows, reported, lost, started, load>>

Idle == [at |-> "idle", dir |-> <<>>, file |-> 1, row |-> 1,
         tenant |-> FALSE, sources |-> {}, rows |-> {}, inserted |-> 0,
         results |-> <<>>, unprinted |-> {}]

Init ==
    /\ tenant \in BOOLEAN /\ sources = {} /\ rows = {} /\ reported = 0
    /\ lost = {} /\ started = 0
    /\ load = [p \in Loader |-> Idle]

-----------------------------------------------------------------------------
File(p) == load[p].dir[load[p].file]
Row(p)  == File(p).rows[load[p].row]
Others(p) == Loader \ {p}

\* Mutant: the text goes into the hash as it was written.
ContentHashRaw(kind, r) == [kind |-> kind, ref |-> r.ref, what |-> r.what, text |-> r.text]

\* The identifying fields: not the status, not the file.
ContentHash(kind, r) == [kind |-> kind, ref |-> r.ref, what |-> r.what, text |-> Fold[r.text]]

\* normalise_bank_line, normalise_ledger_entry: the record a row becomes.
Record(f, r) ==
    [kind |-> f.kind, ref |-> r.ref, what |-> r.what, text |-> Fold[r.text],
     status |-> r.status, source |-> f, hash |-> ContentHash(f.kind, r)]

Hashes(records) == {r.hash : r \in records}

Begin(p) ==
    /\ load[p].at = "idle" /\ started < MaxLoads
    /\ started' = started + 1
    /\ \E d \in Directory : load' = [load EXCEPT ![p] = [Idle EXCEPT !.at = "tenant", !.dir = d]]
    /\ UNCHANGED <<tenant, sources, rows, reported, lost>>

EnsureTenant(p) ==
    /\ load[p].at = "tenant"
    /\ \A q \in Others(p) : ~ load[q].tenant
    /\ load' = [load EXCEPT ![p].at = "file", ![p].tenant = ~ tenant]
    /\ UNCHANGED <<tenant, sources, rows, reported, lost, started>>

\* All rows of the file are parsed and normalised before anything is stored. A
\* row that is not well formed raises: what is left is to roll back.
Parse(p) ==
    /\ load[p].at = "file" /\ load[p].file <= Len(load[p].dir)
    /\ \A i \in DOMAIN File(p).rows : File(p).rows[i].wellFormed
    /\ load' = [load EXCEPT ![p].at = "source"]
    /\ UNCHANGED <<tenant, sources, rows, reported, lost, started>>

\* The results of the files so far: what was inserted up to and with each, as a
\* count and, to say what the count is about, as rows.
Results(p) ==
    Append(load[p].results, [count |-> load[p].inserted, rows |-> load[p].rows])

\* Mutant: the source is committed at once.
InsertSourceCommits(p) ==
    /\ load[p].at = "source"
    /\ IF File(p) \in sources
       THEN /\ load' = [load EXCEPT ![p].at = "file", ![p].file = @ + 1,
                                    ![p].results = Results(p)]
            /\ UNCHANGED sources
       ELSE /\ load' = [load EXCEPT ![p].at = "rows", ![p].row = 1]
            /\ sources' = sources \cup {File(p)}
    /\ UNCHANGED <<tenant, rows, reported, lost, started>>

\* A file the tenant already has is skipped.
InsertSource(p) ==
    /\ load[p].at = "source"
    /\ \A q \in Others(p) : File(p) \notin load[q].sources
    /\ IF File(p) \in sources \cup load[p].sources
       THEN load' = [load EXCEPT ![p].at = "file", ![p].file = @ + 1,
                                 ![p].results = Results(p)]
       ELSE load' = [load EXCEPT ![p].at = "rows", ![p].row = 1,
                                 ![p].sources = @ \cup {File(p)}]
    /\ UNCHANGED <<tenant, sources, rows, reported, lost, started>>

\* Mutant: every row read is counted as inserted.
InsertRowCountsRead(p) ==
    /\ load[p].at = "rows" /\ load[p].row <= Len(File(p).rows)
    /\ LET new == Record(File(p), Row(p))
           known == new.hash \in Hashes(rows \cup load[p].rows)
       IN  /\ \A q \in Others(p) : new.hash \notin Hashes(load[q].rows)
           /\ load' = [load EXCEPT ![p].row = @ + 1, ![p].inserted = @ + 1,
                                   ![p].rows = IF known THEN @ ELSE @ \cup {new}]
    /\ UNCHANGED <<tenant, sources, rows, reported, lost, started>>

\* A row the tenant already has, from whatever file, is not inserted.
InsertRow(p) ==
    /\ load[p].at = "rows" /\ load[p].row <= Len(File(p).rows)
    /\ LET new == Record(File(p), Row(p))
           known == new.hash \in Hashes(rows \cup load[p].rows)
       IN  /\ \A q \in Others(p) : new.hash \notin Hashes(load[q].rows)
           /\ load' = [load EXCEPT ![p].row = @ + 1,
                                   ![p].rows = IF known THEN @ ELSE @ \cup {new},
                                   ![p].inserted = IF known THEN @ ELSE @ + 1]
    /\ UNCHANGED <<tenant, sources, rows, reported, lost, started>>

FileLoaded(p) ==
    /\ load[p].at = "rows" /\ load[p].row > Len(File(p).rows)
    /\ load' = [load EXCEPT ![p].at = "file", ![p].file = @ + 1, ![p].results = Results(p)]
    /\ UNCHANGED <<tenant, sources, rows, reported, lost, started>>

\* The transaction of the whole directory commits.
Commit(p) ==
    /\ load[p].at = "file" /\ load[p].file > Len(load[p].dir)
    /\ tenant' = (tenant \/ load[p].tenant)
    /\ sources' = sources \cup load[p].sources
    /\ rows' = rows \cup load[p].rows
    /\ load' = [load EXCEPT ![p] = [Idle EXCEPT !.at = "print", !.results = load[p].results,
                                               !.unprinted = load[p].rows]]
    /\ UNCHANGED <<reported, lost, started>>

\* The results are printed, one after the other. A process that dies meanwhile has
\* printed the first n: nothing else knows what the other files brought.
PrintResults(p) ==
    /\ load[p].at = "print"
    /\ \E n \in 0..Len(load[p].results) :
         LET out == IF n = 0 THEN [count |-> 0, rows |-> {}] ELSE load[p].results[n]
         IN  /\ reported' = reported + out.count
             /\ lost' = lost \cup (load[p].unprinted \ out.rows)
    /\ load' = [load EXCEPT ![p] = Idle]
    /\ UNCHANGED <<tenant, sources, rows, started>>

\* A row that does not parse, a statement that fails, two loaders that wait for
\* each other, a process that dies: the transaction leaves nothing.
RollBack(p) ==
    /\ load[p].at \notin {"idle", "print"}
    /\ load' = [load EXCEPT ![p] = Idle]
    /\ UNCHANGED <<tenant, sources, rows, reported, lost, started>>

Next == \E p \in Loader :
    \/ Begin(p) \/ EnsureTenant(p) \/ Parse(p) \/ InsertSource(p)
    \/ InsertRow(p) \/ FileLoaded(p) \/ Commit(p) \/ PrintResults(p) \/ RollBack(p)

Spec == Init /\ [][Next]_vars
-----------------------------------------------------------------------------
\* What the bank or the ledger said, whatever the file and its spelling.
SameFact(r, s) == r.kind = s.kind /\ r.ref = s.ref /\ r.what = s.what /\ r.text = s.text

\* A fact is stored once, although two ingests overlap and the same row arrives
\* in different files and spellings (loader.py 3-6, normalise.py 7-9).
FactStoredOnce == \A r, s \in rows : SameFact(r, s) => r = s

\* A file on record is there with all its rows: it would be skipped from then on,
\* so a row it lost would be lost for good (loader.py 56-57, 89-99; cli.py 45).
FileIsWhole ==
    \A f \in sources : \A i \in DOMAIN f.rows :
        \E r \in rows : SameFact(r, Record(f, f.rows[i]))

\* Rows that no printed result mentions: the ingest is about to print it or died.
Unreported == lost \cup UNION {load[p].unprinted : p \in Loader}

\* What the printed results say was inserted is what the tables gained, but for the
\* results that a death cut off: no row is claimed by two ingests, none by one that
\* was rolled back (loader.py 94-99, cli.py 45-52).
ReportsAddUp == reported = Cardinality(rows \ Unreported)
=============================================================================
