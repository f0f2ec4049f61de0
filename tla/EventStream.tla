----------------------------- MODULE EventStream -----------------------------
(***************************************************************************)
(* GET /runs/{id}/stream: a client is served by a generator that tails the  *)
(* events table by seq and ends when the run is finished and its worker     *)
(* thread is gone, or after a time of silence. Events and run are read by   *)
(* two statements, and the trail grows between any two steps.               *)
(***************************************************************************)
EXTENDS AuditTrail

CONSTANTS
    Client,
    IdleLimit,      \* polls without an event after which the stream ends
    MaxReconnects   \* bound: connections a client opens again

ASSUME StreamAssumption == IdleLimit \in Nat \ {0} /\ MaxReconnects \in Nat

VARIABLES
    at,       \* per client: what its generator does next
    last,     \* seq of the event sent last
    batch,    \* `new`: events that were read and are not sent
    silent,   \* `new` was empty
    seen,     \* whether the run that was read is finished
    idle,     \* polls without an event
    sent,     \* what this connection has sent
    reconnects

stream == <<at, last, batch, silent, seen, idle, sent, reconnects>>
vars   == <<trail, stream>>

Init ==
    /\ TInit
    /\ at = [c \in Client |-> "poll"]
    /\ last = [c \in Client |-> -1]
    /\ batch = [c \in Client |-> {}]
    /\ silent = [c \in Client |-> FALSE]
    /\ seen = [c \in Client |-> FALSE]
    /\ idle = [c \in Client |-> 0]
    /\ sent = [c \in Client |-> <<>>]
    /\ reconnects = [c \in Client |-> 0]

-----------------------------------------------------------------------------
\* run_events(conn, run_id, last)
Poll(c) ==
    LET new == {r \in events : r.seq > last[c]}
    IN  /\ at[c] = "poll"
        /\ batch' = [batch EXCEPT ![c] = new]
        /\ silent' = [silent EXCEPT ![c] = (new = {})]
        /\ at' = [at EXCEPT ![c] = "read_run"]
        /\ UNCHANGED <<trail, last, seen, idle, sent, reconnects>>

\* get_run, a statement of its own.
ReadRun(c) ==
    /\ at[c] = "read_run"
    /\ seen' = [seen EXCEPT ![c] = finished]
    /\ at' = [at EXCEPT ![c] = "send"]
    /\ UNCHANGED <<trail, last, batch, silent, idle, sent, reconnects>>

\* The events of the batch are sent in the order of their numbers.
Send(c) ==
    /\ at[c] = "send"
    /\ \E r \in batch[c] :
         /\ \A q \in batch[c] : r.seq <= q.seq
         /\ sent' = [sent EXCEPT ![c] = Append(@, r)]
         /\ last' = [last EXCEPT ![c] = r.seq]
         /\ batch' = [batch EXCEPT ![c] = @ \ {r}]
    /\ idle' = [idle EXCEPT ![c] = 0]
    /\ UNCHANGED <<trail, at, silent, seen, reconnects>>

\* Mutant: polls without an event are not counted while the run is open.
CountsWhenFinished(c) ==
    IF silent[c] /\ seen[c] THEN idle[c] + 1 ELSE idle[c]

CountIdle(c) == IF silent[c] THEN idle[c] + 1 ELSE idle[c]

\* After the batch: the stream is done, times out, or polls again.
Check(c) ==
    /\ at[c] = "send" /\ batch[c] = {}
    /\ idle' = [idle EXCEPT ![c] = CountIdle(c)]
    /\ at' = [at EXCEPT ![c] = IF seen[c] /\ ~ alive THEN "done"
                               ELSE IF CountIdle(c) < IdleLimit THEN "poll" ELSE "timeout"]
    /\ UNCHANGED <<trail, last, batch, silent, seen, sent, reconnects>>

\* The connection breaks and the browser opens another: a new generator.
Reconnect(c) ==
    /\ at[c] \notin {"done", "timeout"} /\ reconnects[c] < MaxReconnects
    /\ reconnects' = [reconnects EXCEPT ![c] = @ + 1]
    /\ at' = [at EXCEPT ![c] = "poll"]
    /\ last' = [last EXCEPT ![c] = -1]
    /\ batch' = [batch EXCEPT ![c] = {}]
    /\ silent' = [silent EXCEPT ![c] = FALSE]
    /\ seen' = [seen EXCEPT ![c] = FALSE]
    /\ idle' = [idle EXCEPT ![c] = 0]
    /\ sent' = [sent EXCEPT ![c] = <<>>]
    /\ UNCHANGED trail

StreamStep(c) == Poll(c) \/ ReadRun(c) \/ Send(c) \/ Check(c)

Next ==
    \/ TNext /\ UNCHANGED stream
    \/ \E c \in Client : StreamStep(c) \/ Reconnect(c)

Spec == Init /\ [][Next]_vars

\* The server goes on serving a connection; nothing is assumed of the run.
FairSpec == Spec /\ \A c \in Client : WF_vars(StreamStep(c))
-----------------------------------------------------------------------------
\* The variables hold rows, counters and the steps of the generator.
TypeOK ==
    /\ TrailTypeOK
    /\ at \in [Client -> {"poll", "read_run", "send", "done", "timeout"}]
    /\ last \in [Client -> Nat \cup {-1}]
    /\ batch \in [Client -> SUBSET events]
    /\ sent \in [Client -> Seq(events)]
    /\ silent \in [Client -> BOOLEAN] /\ seen \in [Client -> BOOLEAN]
    /\ idle \in [Client -> 0..IdleLimit]
    /\ reconnects \in [Client -> 0..MaxReconnects]

\* What a connection has sent is the beginning of the stored trail, with no event
\* left out, repeated or out of order, so a client that reconnects sees the same
\* history again (app.py 3-6, service.py 3-7).
StreamIsHistory ==
    \A c \in Client :
        /\ last[c] = Len(sent[c]) - 1
        /\ \A i \in 1..Len(sent[c]) : sent[c][i] \in events /\ sent[c][i].seq = i - 1

\* Every stream ends, also that of a run that never finishes (app.py 133, 163).
StreamEnds == \A c \in Client : <>(at[c] \in {"done", "timeout"})
=============================================================================
