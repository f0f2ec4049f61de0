---------------------------- MODULE Adjudication ----------------------------
(***************************************************************************)
(* What leaves the process during a run and is recorded for replay: the     *)
(* retrieval queries of Tier 2 (tier2_candidates with a RecordingIndex) and *)
(* the model calls of Tier 3 (adjudicate: thread pool, cost meter, result   *)
(* loop), with the tables they fill, the checkpoint between the two nodes,  *)
(* which LangGraph stores in the background, and a process that may die and  *)
(* be continued anywhere in between, with the vector index or without it.   *)
(*                                                                         *)
(* The index changes on its own: corrections are written back to it, and it *)
(* is eventually consistent. A run's other lines and tables are in RunGraph.*)
(***************************************************************************)
EXTENDS Integers, FiniteSets

CONSTANTS
    Line,        \* ids of the lines Tiers 0-1 left over
    Narrative,   \* Narrative[l]: the text that is searched for
    Payment,     \* Payment[l]: all that the model is told about the line
    Hits,        \* what a search can return
    NoHits,      \* the empty result, which is all that NullIndex returns
    Committed,   \* answers that are committable, confident and name a candidate
    CallCost,    \* micro-dollars of an answered call
    Ceiling,     \* run_cost_ceiling_micro
    Workers,     \* tier3_concurrency
    MaxCrashes,  \* bound: deaths of the process
    MaxChanges   \* bound: changes of the index

ASSUME LineAssumption   == Line \subseteq Int /\ IsFiniteSet(Line)
ASSUME ConfigAssumption ==
    /\ CallCost \in Nat /\ Ceiling \in Nat /\ Workers \in Nat \ {0}
    /\ MaxCrashes \in Nat /\ MaxChanges \in Nat
ASSUME HitsAssumption   == NoHits \in Hits
ASSUME AnswerAssumption ==
    {"none", "declined", "rejected", "failed"} \cap Committed = {}

VARIABLES
    index,      \* what each search returns now
    retrieval,  \* table retrieval_calls: [line, hits]
    calls,      \* table llm_calls: [line, request, answer]
    decisions,  \* Tier 3's rows of table decisions: [line, request, answer]
    cost,       \* runs.cost_total_micro
    ckpt,       \* candidate_sets in the stored checkpoint: [line, hits]
    given,      \* candidate_sets in the channels that Tier 3 is given
    online,     \* the process reached the vector index when it built its own
    at,         \* what the process executes next
    found,      \* memory of Tier 2: what it retrieved
    waiting, running, answers,    \* memory of the fan-out
    toRecord, spent, chosen,      \* memory of the result loop
    billed,     \* what the provider charged for the answers it returned, ever
    crashes, changes

tables == <<retrieval, calls, decisions, cost>>
thread == <<ckpt, given>>
fanout == <<waiting, running, answers>>
loop   == <<toRecord, spent, chosen>>
vars   == <<index, tables, thread, online, at, found, fanout, loop, billed, crashes, changes>>

\* What comes back: an answer, one that was received and charged and then rejected
\* (no tool call, or validate raises), or no answer at all.
Answer == Committed \cup {"declined", "rejected", "failed"}

\* The call raised: the result loop only sees an error.
Raised == {"rejected", "failed"}

\* The call for a line: the payment and the candidates, not the line's identity.
Request(l, hits) == <<Payment[l], hits>>

NoAnswers == [l \in Line |-> "none"]

Init ==
    /\ index \in [{Narrative[l] : l \in Line} -> Hits]
    /\ retrieval = {} /\ calls = {} /\ decisions = {} /\ cost = 0
    /\ ckpt = {} /\ given = {} /\ online \in BOOLEAN
    /\ at = "tier2" /\ found = {}
    /\ waiting = {} /\ running = {} /\ answers = NoAnswers
    /\ toRecord = {} /\ spent = 0 /\ chosen = {}
    /\ billed = 0 /\ crashes = 0 /\ changes = 0

\* A correction is written back, or an earlier write becomes visible.
IndexChanges ==
    /\ changes < MaxChanges /\ changes' = changes + 1
    /\ \E n \in DOMAIN index, h \in Hits : h # index[n] /\ index' = [index EXCEPT ![n] = h]
    /\ UNCHANGED <<tables, thread, online, at, found, fanout, loop, billed, crashes>>

-----------------------------------------------------------------------------
Least(S, l) == l \in S /\ \A m \in S : l <= m

\* tier2_candidates asks the index for one line after the other. Without the
\* vector index the search is that of NullIndex, which finds nothing.
Retrieve(l) ==
    /\ at = "tier2" /\ Least({m \in Line : \A r \in found : r.line # m}, l)
    /\ found' = found \cup
         {[line |-> l, hits |-> IF online THEN index[Narrative[l]] ELSE NoHits]}
    /\ UNCHANGED <<index, tables, thread, online, at, fanout, loop, billed, crashes,
                   changes>>

\* Mutant: only the line bound last is recorded.
FlushLast ==
    /\ at = "tier2" /\ \A l \in Line : \E r \in found : r.line = l
    /\ retrieval' = retrieval \cup {r \in found : online /\ \A m \in Line : m <= r.line}
    /\ at' = "return2"
    /\ UNCHANGED <<index, calls, decisions, cost, thread, online, found, fanout,
                   loop, billed, crashes, changes>>

\* flush: one transaction; a row that exists is kept (on conflict do nothing).
\* NullIndex records nothing.
Flush ==
    /\ at = "tier2" /\ \A l \in Line : \E r \in found : r.line = l
    /\ retrieval' = retrieval \cup
         {r \in found : online /\ \A o \in retrieval : o.line # r.line}
    /\ at' = "return2"
    /\ UNCHANGED <<index, calls, decisions, cost, thread, online, found, fanout,
                   loop, billed, crashes, changes>>

\* The node returns its candidate sets: Tier 3 follows at once.
ReturnCandidates ==
    /\ at = "return2" /\ given' = found /\ at' = "tier3" /\ found' = {}
    /\ UNCHANGED <<index, tables, ckpt, online, fanout, loop, billed, crashes, changes>>

\* The background stores the checkpoint that holds them.
StoreCandidates ==
    /\ ckpt # given /\ ckpt' = given
    /\ UNCHANGED <<index, tables, given, online, at, found, fanout, loop, billed,
                   crashes, changes>>

-----------------------------------------------------------------------------
\* The loop over the lines checks the meter before each and submits them; it
\* ends before the first result is recorded.
Submit ==
    /\ at = "tier3"
    /\ waiting' = IF spent >= Ceiling THEN {} ELSE Line
    /\ answers' = NoAnswers /\ at' = "calls"
    /\ UNCHANGED <<index, tables, thread, online, found, running, loop, billed,
                   crashes, changes>>

\* A free worker takes the next line.
Call(l) ==
    /\ at = "calls" /\ Least(waiting, l) /\ Cardinality(running) < Workers
    /\ waiting' = waiting \ {l} /\ running' = running \cup {l}
    /\ UNCHANGED <<index, tables, thread, online, at, found, answers, loop, billed,
                   crashes, changes>>

\* The model answers or the call fails. Whatever is received is charged, also an
\* answer that is rejected.
Return(l) ==
    /\ at = "calls" /\ l \in running
    /\ running' = running \ {l}
    /\ \E a \in Answer :
         /\ answers' = [answers EXCEPT ![l] = a]
         /\ billed' = billed + (IF a = "failed" THEN 0 ELSE CallCost)
    /\ UNCHANGED <<index, tables, thread, online, at, found, waiting, loop, crashes,
                   changes>>

\* All results are in.
Gather ==
    /\ at = "calls" /\ waiting = {} /\ running = {}
    /\ toRecord' = {l \in Line : answers[l] # "none"} /\ at' = "loop"
    /\ UNCHANGED <<index, tables, thread, online, found, fanout, spent, chosen,
                   billed, crashes, changes>>

\* Mutant: the candidates are generated again.
ShownAgain(l) == index[Narrative[l]]

\* The candidate set the call was built from: the one in the channels.
Shown(l) == (CHOOSE r \in given : r.line = l).hits

Row(l) == [line |-> l, request |-> Request(l, Shown(l)), answer |-> answers[l]]

\* Mutant: only the calls of lines that are not committed are recorded.
RecordUncommitted(l) ==
    /\ at = "loop" /\ Least(toRecord, l)
    /\ toRecord' = toRecord \ {l}
    /\ CASE answers[l] \in Raised -> UNCHANGED <<spent, calls, chosen>>
         [] answers[l] \in Committed -> /\ spent' = spent + CallCost /\ UNCHANGED calls
                                        /\ chosen' = chosen \cup {Row(l)}
         [] OTHER -> /\ spent' = spent + CallCost /\ UNCHANGED chosen
                     /\ calls' = calls \cup {Row(l)}
    /\ UNCHANGED <<index, retrieval, decisions, cost, thread, online, at, found,
                   fanout, billed, crashes, changes>>

\* Mutant: a call is metered only when its answer is committed.
RecordCommittedCost(l) ==
    /\ at = "loop" /\ Least(toRecord, l)
    /\ toRecord' = toRecord \ {l}
    /\ IF answers[l] \in Raised
       THEN UNCHANGED <<spent, calls, chosen>>
       ELSE /\ spent' = spent + (IF answers[l] \in Committed THEN CallCost ELSE 0)
            /\ calls' = calls \cup {Row(l)}
            /\ chosen' = IF answers[l] \in Committed THEN chosen \cup {Row(l)} ELSE chosen
    /\ UNCHANGED <<index, retrieval, decisions, cost, thread, online, at, found,
                   fanout, billed, crashes, changes>>

\* One result, in line order. A call that raised is queued, unmetered, unrecorded.
Record(l) ==
    /\ at = "loop" /\ Least(toRecord, l)
    /\ toRecord' = toRecord \ {l}
    /\ IF answers[l] \in Raised
       THEN UNCHANGED <<spent, calls, chosen>>
       ELSE /\ spent' = spent + CallCost
            /\ calls' = calls \cup {Row(l)}
            /\ chosen' = IF answers[l] \in Committed THEN chosen \cup {Row(l)} ELSE chosen
    /\ UNCHANGED <<index, retrieval, decisions, cost, thread, online, at, found,
                   fanout, billed, crashes, changes>>

\* The escalations' transaction, which also writes the run's cost.
StoreCost ==
    /\ at = "loop" /\ toRecord = {}
    /\ cost' = spent /\ at' = "commit"
    /\ UNCHANGED <<index, retrieval, calls, decisions, thread, online, found, fanout,
                   loop, billed, crashes, changes>>

\* _persist: the decisions and the event of the node.
Persist ==
    /\ at = "commit"
    /\ decisions' = decisions \cup chosen /\ at' = "return3"
    /\ UNCHANGED <<index, retrieval, calls, cost, thread, online, found, fanout,
                   loop, billed, crashes, changes>>

\* The checkpoints of both nodes are stored: no process executes them again.
SaveDecisions ==
    /\ at = "return3" /\ ckpt = given /\ at' = "done"
    /\ UNCHANGED <<index, tables, thread, online, found, fanout, loop, billed,
                   crashes, changes>>

\* The process dies; a new one continues at the checkpoint, with a new meter and
\* with the index it gets: build_index falls back to NullIndex.
Crash ==
    /\ at # "done" /\ crashes < MaxCrashes /\ crashes' = crashes + 1
    /\ at' = IF ckpt = {} THEN "tier2" ELSE "tier3"
    /\ given' = ckpt /\ online' \in BOOLEAN
    /\ found' = {} /\ waiting' = {} /\ running' = {} /\ answers' = NoAnswers
    /\ toRecord' = {} /\ spent' = 0 /\ chosen' = {}
    /\ UNCHANGED <<index, tables, ckpt, billed, changes>>

Next ==
    \/ IndexChanges \/ Flush \/ ReturnCandidates \/ StoreCandidates \/ Submit \/ Gather
    \/ \E l \in Line : Retrieve(l) \/ Call(l) \/ Return(l) \/ Record(l)
    \/ StoreCost \/ Persist \/ SaveDecisions \/ Crash

Spec == Init /\ [][Next]_vars
-----------------------------------------------------------------------------
\* The variables hold rows of this instance and the phases of the two nodes.
TypeOK ==
    /\ index \in [{Narrative[l] : l \in Line} -> Hits]
    /\ ckpt \cup given \cup found \subseteq [line: Line, hits: Hits]
    /\ online \in BOOLEAN /\ retrieval \subseteq [line: Line, hits: Hits]
    /\ decisions \cup chosen \subseteq [line: Line, request: {Payment[l] : l \in Line} \X Hits, answer: Committed]
    /\ calls \subseteq [line: Line, request: {Payment[l] : l \in Line} \X Hits, answer: Answer]
    /\ at \in {"tier2", "return2", "tier3", "calls", "loop", "commit", "return3", "done"}
    /\ waiting \subseteq Line /\ running \subseteq Line /\ toRecord \subseteq Line
    /\ answers \in [Line -> Answer \cup {"none"}]
    /\ {spent, cost, billed, crashes, changes} \subseteq Nat

\* Whatever died or was asked again, a committed model decision can be traced to
\* a stored call: same line, same request, same answer (nodes.py 253-276).
CommitsAreRecorded == decisions \subseteq calls

\* A decision is made on the candidates the checkpoint holds, or will hold when
\* the background has stored it, whatever the index returned since (nodes.py
\* 193-197).
DecidedOnSavedCandidates ==
    [][\A d \in decisions' \ decisions : \E r \in (IF ckpt = {} THEN given ELSE ckpt) :
         r.line = d.line /\ d.request = Request(d.line, r.hits)]_vars

\* What the vector index told Tier 3 was recorded before Tier 3 got it: a line with
\* hits has a recorded query. When no process died, nothing is recorded, and the
\* replay is refused, or what was recorded is what every line was given (nodes.py
\* 168-186, recording.py 91-106, runner.py 86-112).
RetrievalIsRecorded ==
    /\ \A r \in given \cup ckpt :
         r.hits # NoHits => \E q \in retrieval : q.line = r.line
    /\ crashes = 0 /\ retrieval # {} => given \subseteq retrieval

\* A run never reports more than what was paid, and the one whose process never died
\* reports all of it but the answers that were received and rejected, which are
\* charged and not metered (nodes.py 244-252, persistence.py 80-88).
CostIsWhatWasPaid ==
    /\ cost <= billed
    /\ at = "done" /\ crashes = 0 =>
         cost + CallCost * Cardinality({l \in Line : answers[l] = "rejected"}) = billed

\* The ceiling stops the run: what it pays exceeds it by no more than the calls
\* in flight (adjudicator.py CostMeter 65-66).
CeilingHolds == billed <= Ceiling + Workers * CallCost
=============================================================================
