------------------------------ MODULE AuditTrail ------------------------------
(***************************************************************************)
(* The audit trail of a run: EventLog.append inside the transactions of     *)
(* several writers (the worker thread, resolve requests, the command line), *)
(* the unique index on (run_id, seq), the hash chain, and close_run, which  *)
(* verifies the chain before it finishes the run.                           *)
(*                                                                         *)
(* Transactions are READ COMMITTED: a statement sees what is committed when *)
(* it starts, and an insert waits for an uncommitted row with its key. A    *)
(* step is one statement, the commit or the roll-back. The rows a node      *)
(* writes before its event are in RunGraph.                                 *)
(***************************************************************************)
EXTENDS Integers, Sequences, FiniteSets

CONSTANTS
    Writer,     \* connections that append to the run's events
    Worker,     \* the writer that is the API's worker thread
    Payload,    \* what nodes other than close_run append
    MaxEvents   \* bound: rows of the run

ASSUME WriterAssumption == Worker \in Writer
ASSUME BoundAssumption  == MaxEvents \in Nat

VARIABLES
    events,    \* committed rows of table events
    finished,  \* runs.status is completed or halted_cost
    alive,     \* the worker thread runs
    tx,        \* per writer: how far its transaction is
    tail,      \* per writer: the seq and hash it read
    row        \* per writer: the row it inserted

trail == <<events, finished, alive, tx, tail, row>>

ZeroHash == <<>>

\* A hash that never collides: it is what was hashed.
ChainHash(prev, payload) == <<prev, payload>>

Closing == "close_run"

NoTail == [seq |-> -1, hash |-> ZeroHash]

TInit ==
    /\ events = {} /\ finished = FALSE
    /\ alive \in BOOLEAN
    /\ tx = [w \in Writer |-> "idle"]
    /\ tail = [w \in Writer |-> NoTail]
    /\ row = [w \in Writer |-> {}]

-----------------------------------------------------------------------------
\* verify_chain: each row names the hash of the one before it and hashes to its own.
Linked(r, rows) ==
    /\ r.hash = ChainHash(r.prev, r.payload)
    /\ IF r.seq = 0 THEN r.prev = ZeroHash
       ELSE \E q \in rows : q.seq = r.seq - 1 /\ q.hash = r.prev

Distinct(rows) == \A r, q \in rows : r.seq = q.seq => r = q

Verified(rows) == Distinct(rows) /\ \A r \in rows : Linked(r, rows)

\* Mutant: the tail is read without an order.
ReadAnyRow(w) ==
    /\ tx[w] = "idle" /\ (w = Worker => alive)
    /\ \/ events = {} /\ tail' = [tail EXCEPT ![w] = NoTail]
       \/ \E q, r \in events :
            /\ \A p \in events : p.seq <= q.seq
            /\ tail' = [tail EXCEPT ![w] = [seq |-> q.seq, hash |-> r.hash]]
    /\ tx' = [tx EXCEPT ![w] = "read"]
    /\ UNCHANGED <<events, finished, alive, row>>

\* _tail: the committed row with the largest seq.
ReadTail(w) ==
    /\ tx[w] = "idle" /\ (w = Worker => alive)
    /\ \/ events = {} /\ tail' = [tail EXCEPT ![w] = NoTail]
       \/ \E q \in events :
            /\ \A p \in events : p.seq <= q.seq
            /\ tail' = [tail EXCEPT ![w] = [seq |-> q.seq, hash |-> q.hash]]
    /\ tx' = [tx EXCEPT ![w] = "read"]
    /\ UNCHANGED <<events, finished, alive, row>>

NextSeq(w) == tail[w].seq + 1

\* Mutant: the index on (run_id, seq) is missing.
NoKey(w) == FALSE

\* The key of w's row is taken by a committed row.
KeyTaken(w) == \E r \in events : r.seq = NextSeq(w)

\* Mutant: an insert does not wait for uncommitted rows.
NeverWaits(w) == FALSE

\* The key of w's row is taken by a row that may still be committed.
KeyPending(w) == \E v \in Writer : \E r \in row[v] : r.seq = NextSeq(w)

\* append: the row follows the tail that was read.
Insert(w) ==
    /\ tx[w] = "read" /\ ~ KeyTaken(w) /\ ~ KeyPending(w) /\ NextSeq(w) < MaxEvents
    /\ \E p \in Payload \cup {Closing} :
         row' = [row EXCEPT ![w] = {[seq |-> NextSeq(w), prev |-> tail[w].hash, payload |-> p,
                                     hash |-> ChainHash(tail[w].hash, p)]}]
    /\ tx' = [tx EXCEPT ![w] = "inserted"]
    /\ UNCHANGED <<events, finished, alive, tail>>

\* The transaction ends without its row: the insert violates the index, the node
\* raises or its process dies.
RollBack(w) ==
    /\ tx[w] # "idle"
    /\ tx' = [tx EXCEPT ![w] = "idle"]
    /\ row' = [row EXCEPT ![w] = {}]
    /\ UNCHANGED <<events, finished, alive, tail>>

\* A node's transaction commits. close_run verifies the chain, its own row
\* included, and finishes the run in the same transaction.
Commit(w) ==
    /\ tx[w] = "inserted"
    /\ \E r \in row[w] :
         /\ r.payload = Closing => Verified(events \cup {r})
         /\ events' = events \cup {r}
         /\ finished' = (finished \/ r.payload = Closing)
    /\ tx' = [tx EXCEPT ![w] = "idle"]
    /\ row' = [row EXCEPT ![w] = {}]
    /\ UNCHANGED <<alive, tail>>

\* The worker's graph returns or raises.
ThreadEnds ==
    /\ alive /\ tx[Worker] = "idle"
    /\ alive' = FALSE
    /\ UNCHANGED <<events, finished, tx, tail, row>>

TNext ==
    \/ \E w \in Writer : ReadTail(w) \/ Insert(w) \/ RollBack(w) \/ Commit(w)
    \/ ThreadEnds

TSpec == TInit /\ [][TNext]_trail
-----------------------------------------------------------------------------
\* The tables hold rows, numbered from 0.
TrailTypeOK ==
    /\ \A r \in events \cup UNION {row[w] : w \in Writer} :
         /\ r.seq \in Nat
         /\ r.payload \in Payload \cup {Closing}
    /\ finished \in BOOLEAN /\ alive \in BOOLEAN
    /\ tx \in [Writer -> {"idle", "read", "inserted"}]
    /\ \A w \in Writer : tail[w].seq \in Nat \cup {-1}

\* However the writers' transactions interleave, the stored chain verifies: no two
\* rows share a number, none is missing and each hashes the one before it
\* (audit.py 1-11, 45-51).
ChainVerifies == Verified(events)

\* The trail only grows at its end: a transaction that committed late never slips
\* a row in front of one a reader may have seen (audit.py 28-43, unique(run_id, seq)).
GrowsAtItsEnd ==
    [][events' # events =>
        \E r \in events' : /\ events' = events \cup {r}
                           /\ \A q \in events : q.seq < r.seq]_events
=============================================================================
