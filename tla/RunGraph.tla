------------------------------ MODULE RunGraph ------------------------------
(***************************************************************************)
(* One reconciliation run: the graph of build.py, its nodes (nodes.py),     *)
(* the Postgres tables they write, the checkpoint LangGraph keeps, and the  *)
(* processes that drive the run (the API's worker thread, the resolve       *)
(* endpoint, `recon resume` and `recon resume --continue`).                 *)
(*                                                                         *)
(* A step is one database transaction or one checkpoint write, so a crash   *)
(* or another driver can come between any two of them. runner.py invokes    *)
(* the graph without a durability, so LangGraph writes a node's checkpoint  *)
(* in the background while the next nodes run: the tables can be any number *)
(* of nodes ahead of the checkpoint a process that dies leaves behind.      *)
(***************************************************************************)
EXTENDS Naturals, Sequences, FiniteSets

CONSTANTS
    Line,        \* the period's bank lines (bank_ref names one line)
    Entry,       \* the tenant's ledger entries
    Driver,      \* processes that may start or resume the run
    Det,         \* Det[l]: the entries Tiers 0-1 settle l with, {} when they do not
    Option,      \* Option[l]: the candidates (sets of entries) Tier 2 knows for l
    Answer,      \* the resolutions a reviewer can post
    Ceiling,     \* MatchConfig.run_cost_ceiling_micro
    MaxFaults,   \* bound: processes that die or raise
    MaxOverlaps  \* bound: drivers started while another one is running

ASSUME DetAssumption    == Det \in [Line -> SUBSET Entry]
ASSUME OptionAssumption == Option \in [Line -> SUBSET (SUBSET Entry)]
ASSUME AnswerAssumption ==
    Answer \subseteq [line: Line, action: {"approve", "reject", "reassign"},
                      entries: SUBSET Entry]
ASSUME BoundAssumption  == Ceiling \in Nat /\ MaxFaults \in Nat /\ MaxOverlaps \in Nat

VARIABLES
    row,        \* runs.status, "none" before the row exists
    decisions,  \* table decisions; an id is the pair <<tx, line>>
    events,     \* table events, in seq order
    txn,        \* committed transactions that wrote decisions or events
    ckpt,       \* the thread's latest stored checkpoint: channels and next node
    resume,     \* the resume value stored with it, {} for none
    pending,    \* checkpoints taken and not stored yet, of every driver
    made,       \* checkpoints taken so far: ids grow with the time they are taken
    pc,         \* per driver: what it executes next
    st,         \* per driver: the channels it holds in memory
    answer,     \* per driver: the resume value of its first node, {} for none
    work,       \* per driver: adjudicate's local `committed` and `queue`
    faults, overlaps

tables == <<row, decisions, events, txn>>
thread == <<ckpt, resume>>
memory == <<pc, st, answer, work>>
bounds == <<faults, overlaps>>
vars   == <<tables, thread, pending, made, memory, bounds>>

-----------------------------------------------------------------------------
Node == {"ingest", "deterministic_tiers", "tier2_candidates",
         "tier3_adjudicate", "human_review", "apply_human", "close_run"}

PC == Node \cup {"idle", "enter", "tier3_escalate", "tier3_persist",
                 "apply_human_commit", "exit"}

Terminal == {"completed", "halted_cost"}

Status == {"none", "running", "awaiting_human"} \cup Terminal

Commit     == [line: Line, entries: SUBSET Entry]
QueueItem  == [line: Line, esc: Nat]
Channels   == [unmatched: SUBSET Line, decided: SUBSET Commit,
               cands: SUBSET Line, queue: SUBSET QueueItem,
               resolutions: SUBSET Answer, halted: BOOLEAN]
Work       == [commits: SUBSET Commit, escalate: SUBSET Line]
Decision   == [tx: Nat, line: Line, entries: SUBSET Entry, sup: Nat,
               kind: {"deterministic", "model", "escalated", "human"}]
Event      == [node: Node, tx: Nat]
Checkpoint == [id: Nat, next: Node \cup {"none", "end"}, st: Channels]
Unsaved    == [by: Driver, id: Nat, next: Node \cup {"end"}, st: Channels]

NoChannels == [unmatched |-> {}, decided |-> {}, cands |-> {}, queue |-> {},
               resolutions |-> {}, halted |-> FALSE]
NoWork     == [commits |-> {}, escalate |-> {}]

Init ==
    /\ row = "none" /\ decisions = {} /\ events = <<>> /\ txn = 0
    /\ ckpt = [id |-> 0, next |-> "none", st |-> NoChannels] /\ resume = {}
    /\ pending = {} /\ made = 0
    /\ pc = [d \in Driver |-> "idle"]
    /\ st = [d \in Driver |-> NoChannels]
    /\ answer = [d \in Driver |-> {}]
    /\ work = [d \in Driver |-> NoWork]
    /\ faults = 0 /\ overlaps = 0

-----------------------------------------------------------------------------
\* One transaction that inserts `rows` and appends the event of node n.
Persist(rows, n) ==
    /\ txn' = txn + 1
    /\ decisions' = decisions \cup rows
    /\ events' = Append(events, [node |-> n, tx |-> txn + 1])

\* Decision rows written by the current transaction.
Rows(commits, kind) ==
    {[tx |-> txn + 1, line |-> c.line, entries |-> c.entries,
      sup |-> 0, kind |-> kind] : c \in commits}

\* A node returns the channels s: their checkpoint is taken, its write handed to
\* the background, and the edge to n followed at once.
Return(d, s, n) ==
    /\ made' = made + 1
    /\ pending' = pending \cup {[by |-> d, id |-> made + 1, next |-> n, st |-> s]}
    /\ st' = [st EXCEPT ![d] = s]
    /\ pc' = [pc EXCEPT ![d] = IF n = "end" THEN "exit" ELSE n]

\* The driver's call ends and its memory with it.
Leave(d) ==
    /\ pc' = [pc EXCEPT ![d] = "idle"]
    /\ st' = [st EXCEPT ![d] = NoChannels]
    /\ answer' = [answer EXCEPT ![d] = {}]
    /\ work' = [work EXCEPT ![d] = NoWork]

\* No checkpoint of the driver waits to be stored.
AllSaved(d) == \A c \in pending : c.by # d

\* Mutant: Tier 3 is not told what Tiers 0-1 claimed.
NothingClaimed(s) == {}

Claimed(s) == UNION {c.entries : c \in s.decided}

\* What Tier 3 may settle l with: the one candidate the model names (validate
\* rejects more), {} when the line is not auto-committed.
Choices(l, s) == {{}} \cup {c \in Option[l] : c \cap Claimed(s) = {}}

-----------------------------------------------------------------------------
\* start_run, first half: the runs row, in its own transaction.
CreateRun(d) ==
    /\ row = "none" /\ pc[d] = "idle"
    /\ row' = "running"
    /\ pc' = [pc EXCEPT ![d] = "enter"]
    /\ UNCHANGED <<decisions, events, txn, thread, pending, made, st, answer, work, bounds>>

\* Mutant: the graph is entered at the second node.
EnterPastIngest(d) ==
    /\ pc[d] = "enter"
    /\ Return(d, [NoChannels EXCEPT !.unmatched = Line], "deterministic_tiers")
    /\ UNCHANGED <<tables, thread, answer, work, bounds>>

\* start_run, second half: graph.invoke takes a checkpoint of its input.
EnterGraph(d) ==
    /\ pc[d] = "enter"
    /\ Return(d, NoChannels, "ingest")
    /\ UNCHANGED <<tables, thread, answer, work, bounds>>

\* The resume value the first node gets: the posted one, or the one stored by a
\* call that died. Only human_review asks for it, and it lasts for one superstep.
Given(a) ==
    IF ckpt.next # "human_review" THEN {} ELSE IF a = {} THEN resume ELSE a

\* resume_run: the graph loads the latest checkpoint and executes its next
\* node. A finished thread has none, so the call changes nothing. The resume
\* value is stored in the background as well: it may be lost with the process.
Resume(d, a) ==
    /\ pc[d] = "idle"
    /\ ckpt.next \in Node
    /\ IF \E e \in Driver : pc[e] # "idle"
       THEN overlaps < MaxOverlaps /\ overlaps' = overlaps + 1
       ELSE overlaps' = overlaps
    /\ pc' = [pc EXCEPT ![d] = ckpt.next]
    /\ st' = [st EXCEPT ![d] = ckpt.st]
    /\ answer' = [answer EXCEPT ![d] = Given(a)]
    /\ resume' \in {resume, Given(a)}
    /\ UNCHANGED <<tables, ckpt, pending, made, work, faults>>

Continue(d) == Resume(d, {})
Resolve(d)  == \E a \in SUBSET Answer : a # {} /\ Resume(d, a)

\* The background writes a driver's checkpoints in order. The thread's latest is
\* the one with the largest id, so another driver's newer one stays the latest.
Save(d) ==
    \E c \in pending :
        /\ c.by = d
        /\ \A b \in pending : b.by = d => c.id <= b.id
        /\ pending' = pending \ {c}
        /\ IF ckpt.id < c.id
           THEN ckpt' = [id |-> c.id, next |-> c.next, st |-> c.st] /\ resume' = {}
           ELSE UNCHANGED thread
        /\ UNCHANGED <<tables, made, memory, bounds>>

\* graph.invoke comes back, or raises, once its checkpoints are stored.
Exit(d) ==
    /\ pc[d] = "exit" /\ AllSaved(d)
    /\ Leave(d)
    /\ UNCHANGED <<tables, thread, pending, made, bounds>>

\* The process dies: what was committed stays, what was not stored is lost. (A
\* node that raises is the case in which everything was stored before.)
Fail(d) ==
    /\ pc[d] # "idle"
    /\ faults < MaxFaults /\ faults' = faults + 1
    /\ pending' = {c \in pending : c.by # d}
    /\ Leave(d)
    /\ UNCHANGED <<tables, thread, made, overlaps>>

-----------------------------------------------------------------------------
Ingest(d) ==
    /\ pc[d] = "ingest"
    /\ Persist({}, "ingest")
    /\ Return(d, [NoChannels EXCEPT !.unmatched = Line], "deterministic_tiers")
    /\ UNCHANGED <<row, thread, answer, work, bounds>>

\* Tiers 0 and 1: the cascade is a pure function of the stored rows (Det).
Deterministic(d) ==
    LET s       == st[d]
        matched == {l \in s.unmatched : Det[l] # {}}
        commits == {[line |-> l, entries |-> Det[l]] : l \in matched}
    IN  /\ pc[d] = "deterministic_tiers"
        /\ Persist(Rows(commits, "deterministic"), "deterministic_tiers")
        /\ Return(d, [s EXCEPT !.decided = @ \cup commits, !.unmatched = @ \ matched],
                  "tier2_candidates")
        /\ UNCHANGED <<row, thread, answer, work, bounds>>

\* Mutant: the candidate sets are not returned to the checkpoint.
CandidatesLost(d) ==
    /\ pc[d] = "tier2_candidates"
    /\ Persist({}, "tier2_candidates")
    /\ Return(d, st[d], "tier3_adjudicate")
    /\ UNCHANGED <<row, thread, answer, work, bounds>>

Candidates(d) ==
    /\ pc[d] = "tier2_candidates"
    /\ Persist({}, "tier2_candidates")
    /\ Return(d, [st[d] EXCEPT !.cands = st[d].unmatched], "tier3_adjudicate")
    /\ UNCHANGED <<row, thread, answer, work, bounds>>

\* Mutant: a call that fails is counted and its line is not queued.
AdjudicateForgets(d) ==
    LET s == st[d]
    IN  /\ pc[d] = "tier3_adjudicate"
        /\ s.unmatched \subseteq s.cands
        /\ \E out \in [s.unmatched -> SUBSET Entry], failed \in SUBSET s.unmatched :
             /\ \A l \in s.unmatched : out[l] \in Choices(l, s)
             /\ work' = [work EXCEPT ![d] =
                  [commits  |-> {[line |-> l, entries |-> out[l]] :
                                   l \in {m \in s.unmatched \ failed : out[m] # {}}},
                   escalate |-> {l \in s.unmatched \ failed : out[l] = {}}]]
        /\ pc' = [pc EXCEPT ![d] = "tier3_escalate"]
        /\ UNCHANGED <<tables, thread, pending, made, st, answer, bounds>>

\* The fan-out and the result loop. The meter is fresh and nothing is recorded
\* before the loop over the lines ends, so the check sees 0 for every line.
Adjudicate(d) ==
    LET s       == st[d]
        halts   == s.unmatched # {} /\ 0 >= Ceiling
        called  == IF halts THEN {} ELSE s.unmatched
    IN  /\ pc[d] = "tier3_adjudicate"
        /\ s.unmatched \subseteq s.cands
        /\ \E out \in [called -> SUBSET Entry] :
             /\ \A l \in called : out[l] \in Choices(l, s)
             /\ work' = [work EXCEPT ![d] =
                  [commits  |-> {[line |-> l, entries |-> out[l]] :
                                   l \in {m \in called : out[m] # {}}},
                   escalate |-> {l \in called : out[l] = {}}]]
        /\ st' = [st EXCEPT ![d].halted = halts]
        /\ pc' = [pc EXCEPT ![d] = "tier3_escalate"]
        /\ UNCHANGED <<tables, thread, pending, made, answer, bounds>>

\* Mutant: the queue names the decision before the escalation.
EscalateOffByOne(d) ==
    LET rows == {[line |-> l, entries |-> {}] : l \in work[d].escalate}
    IN  /\ pc[d] = "tier3_escalate"
        /\ txn' = txn + 1
        /\ decisions' = decisions \cup Rows(rows, "escalated")
        /\ st' = [st EXCEPT ![d].queue =
                    {[line |-> l, esc |-> txn] : l \in work[d].escalate}]
        /\ pc' = [pc EXCEPT ![d] = "tier3_persist"]
        /\ UNCHANGED <<row, events, thread, pending, made, answer, work, bounds>>

\* Mutant: escalations are only queued, and stored when somebody reviews them.
EscalateQueueOnly(d) ==
    /\ pc[d] = "tier3_escalate"
    /\ txn' = txn + 1
    /\ st' = [st EXCEPT ![d].queue =
                {[line |-> l, esc |-> txn + 1] : l \in work[d].escalate}]
    /\ pc' = [pc EXCEPT ![d] = "tier3_persist"]
    /\ UNCHANGED <<row, decisions, events, thread, pending, made, answer, work, bounds>>

\* The escalations' own transaction: it appends no event.
AdjudicateEscalate(d) ==
    LET rows == {[line |-> l, entries |-> {}] : l \in work[d].escalate}
    IN  /\ pc[d] = "tier3_escalate"
        /\ txn' = txn + 1
        /\ decisions' = decisions \cup Rows(rows, "escalated")
        /\ st' = [st EXCEPT ![d].queue =
                    {[line |-> l, esc |-> txn + 1] : l \in work[d].escalate}]
        /\ pc' = [pc EXCEPT ![d] = "tier3_persist"]
        /\ UNCHANGED <<row, events, thread, pending, made, answer, work, bounds>>

\* Mutant: the edge is labelled with the halting status instead of a node.
AfterAdjudicationHalts(s) ==
    CASE s.halted -> "halted_cost" [] s.queue = {} -> "completed" [] OTHER -> "human_review"

AfterAdjudication(s) ==
    IF s.halted \/ s.queue = {} THEN "close_run" ELSE "human_review"

\* Mutant: a batch without a commitment is not reported.
AdjudicatePersistSilent(d) ==
    LET s       == st[d]
        commits == work[d].commits
        matched == {c.line : c \in commits}
    IN  /\ pc[d] = "tier3_persist"
        /\ IF commits = {} THEN UNCHANGED <<decisions, events, txn>>
                           ELSE Persist(Rows(commits, "model"), "tier3_adjudicate")
        /\ Return(d, [s EXCEPT !.decided = @ \cup commits, !.unmatched = @ \ matched],
                  AfterAdjudication(s))
        /\ work' = [work EXCEPT ![d] = NoWork]
        /\ UNCHANGED <<row, thread, answer, bounds>>

AdjudicatePersist(d) ==
    LET s       == st[d]
        commits == work[d].commits
        matched == {c.line : c \in commits}
    IN  /\ pc[d] = "tier3_persist"
        /\ Persist(Rows(commits, "model"), "tier3_adjudicate")
        /\ Return(d, [s EXCEPT !.decided = @ \cup commits, !.unmatched = @ \ matched],
                  AfterAdjudication(s))
        /\ work' = [work EXCEPT ![d] = NoWork]
        /\ UNCHANGED <<row, thread, answer, bounds>>

-----------------------------------------------------------------------------
\* interrupt() without a resume value: the driver's call returns.
Pause(d) ==
    /\ pc[d] = "human_review" /\ answer[d] = {}
    /\ row' = "awaiting_human"
    /\ pc' = [pc EXCEPT ![d] = "exit"]
    /\ UNCHANGED <<decisions, events, txn, thread, pending, made, st, answer, work, bounds>>

\* The node re-executes from its top, status update included, and interrupt()
\* returns the resume value.
Answered(d) ==
    /\ pc[d] = "human_review" /\ answer[d] # {}
    /\ row' = "awaiting_human"
    /\ Return(d, [st[d] EXCEPT !.resolutions = answer[d]], "apply_human")
    /\ answer' = [answer EXCEPT ![d] = {}]
    /\ UNCHANGED <<decisions, events, txn, thread, work, bounds>>

ApplyHuman(d) ==
    /\ pc[d] = "apply_human"
    /\ row' = IF row = "awaiting_human" THEN "running" ELSE row
    /\ pc' = [pc EXCEPT ![d] = "apply_human_commit"]
    /\ UNCHANGED <<decisions, events, txn, thread, pending, made, st, answer, work, bounds>>

\* The rows apply_human inserts: one per resolution of a queued line, each
\* superseding that line's escalation.
HumanRows(s) ==
    {[tx |-> txn + 1, line |-> p[2].line, entries |-> p[1].entries, sup |-> p[2].esc,
      kind |-> "human"] :
        p \in {rq \in s.resolutions \X s.queue : rq[1].line = rq[2].line}}

\* Mutant: the unique index on supersedes_id is missing.
NoIndex(s) == TRUE

\* Mutant: a resolution of a line that is not queued raises.
RefusesUnknown(s) ==
    /\ \A r \in s.resolutions : \E q \in s.queue : q.line = r.line
    /\ \A q \in s.queue :
         (\E r \in s.resolutions : r.line = q.line)
           => ~ \E x \in decisions : x.sup = q.esc /\ x.line = q.line

\* decisions_supersedes_uniq: no row, old or new, supersedes a row twice.
SupersedesUnique(s) ==
    /\ \A r, t \in s.resolutions :
         r.line = t.line /\ (\E q \in s.queue : q.line = r.line) => r = t
    /\ \A q \in s.queue :
         (\E r \in s.resolutions : r.line = q.line)
           => ~ \E x \in decisions : x.sup = q.esc /\ x.line = q.line

ApplyHumanCommit(d) ==
    LET s       == st[d]
        rows    == HumanRows(s)
        applied == {[line |-> x.line, entries |-> x.entries] : x \in rows}
        matched == {c.line : c \in {a \in applied : a.entries # {}}}
    IN  /\ pc[d] = "apply_human_commit"
        /\ SupersedesUnique(s)
        /\ Persist(rows, "apply_human")
        /\ Return(d, [s EXCEPT !.decided = @ \cup applied, !.unmatched = @ \ matched],
                  "close_run")
        /\ UNCHANGED <<row, thread, answer, work, bounds>>

\* The insert violates the index: the transaction rolls back, the node raises.
ApplyHumanRejected(d) ==
    /\ pc[d] = "apply_human_commit"
    /\ ~ SupersedesUnique(st[d])
    /\ pc' = [pc EXCEPT ![d] = "exit"]
    /\ UNCHANGED <<tables, thread, pending, made, st, answer, work, bounds>>

\* Mutant: finish_run is not called.
CloseUnfinished(d) ==
    /\ pc[d] = "close_run"
    /\ Persist({}, "close_run")
    /\ Return(d, st[d], "end")
    /\ UNCHANGED <<row, thread, answer, work, bounds>>

CloseRun(d) ==
    /\ pc[d] = "close_run"
    /\ Persist({}, "close_run")
    /\ row' = IF st[d].halted THEN "halted_cost" ELSE "completed"
    /\ Return(d, st[d], "end")
    /\ UNCHANGED <<thread, answer, work, bounds>>

-----------------------------------------------------------------------------
\* What a live driver does on its own.
Step(d) ==
    \/ EnterGraph(d) \/ Exit(d)
    \/ Ingest(d) \/ Deterministic(d) \/ Candidates(d)
    \/ Adjudicate(d) \/ AdjudicateEscalate(d) \/ AdjudicatePersist(d)
    \/ Pause(d) \/ Answered(d)
    \/ ApplyHuman(d) \/ ApplyHumanCommit(d) \/ ApplyHumanRejected(d)
    \/ CloseRun(d)

Next == \E d \in Driver : CreateRun(d) \/ Continue(d) \/ Resolve(d) \/ Step(d) \/ Save(d) \/ Fail(d)

Spec == Init /\ [][Next]_vars
-----------------------------------------------------------------------------
\* The state of every variable is one the code can store.
TypeOK ==
    /\ row \in Status
    /\ decisions \subseteq Decision
    /\ events \in Seq(Event)
    /\ txn \in Nat
    /\ ckpt \in Checkpoint /\ resume \in SUBSET Answer
    /\ pending \subseteq Unsaved /\ made \in Nat
    /\ pc \in [Driver -> PC]
    /\ st \in [Driver -> Channels]
    /\ answer \in [Driver -> SUBSET Answer]
    /\ work \in [Driver -> Work]
    /\ faults \in Nat /\ overlaps \in Nat

\* The channels the thread holds, the ones still to be stored, the drivers' own.
AllChannels == {ckpt.st} \cup {c.st : c \in pending} \cup {st[d] : d \in Driver}

Escalated(line, tx) ==
    \E r \in decisions : r.kind = "escalated" /\ r.line = line /\ r.tx = tx

\* The queue a reviewer answers is read from a checkpoint, the rows it will
\* supersede live in a table: every queue item, saved or in memory, names an
\* escalation row of its own line (nodes.py 291-313, runner.py get_queue).
QueueIsEscalated ==
    \A s \in AllChannels : \A q \in s.queue : Escalated(q.line, q.esc)

\* A human decision supersedes an earlier escalation of the same line, and no
\* escalation is superseded twice, whoever resolves and however often a node
\* is executed again (decisions_supersedes_uniq, 001_init.sql 102).
SupersedesSound ==
    \A x \in decisions : x.kind = "human" =>
        /\ Escalated(x.line, x.sup) /\ x.sup < x.tx
        /\ \A y \in decisions :
             y.kind = "human" /\ y.line = x.line /\ y.sup = x.sup => y = x

\* Edges of build_graph between the nodes that append an event.
Edge == {<<"ingest", "deterministic_tiers">>,
         <<"deterministic_tiers", "tier2_candidates">>,
         <<"tier2_candidates", "tier3_adjudicate">>,
         <<"tier3_adjudicate", "apply_human">>,
         <<"tier3_adjudicate", "close_run">>,
         <<"apply_human", "close_run">>}

\* The audit trail never shows a node before one the graph runs it after:
\* no crash, re-execution or second driver lets a node's event precede its
\* predecessor's (build.py 31-51, nodes.py _persist).
EventsFollowGraph ==
    \A i \in 1..Len(events) : events[i].node # "ingest" =>
        \E j \in 1..(i - 1) : <<events[j].node, events[i].node>> \in Edge

\* A run that reports "completed" has a decision for every bank line of the
\* period: committed, escalated or reviewed (nodes.py adjudicate, close_run).
CompletedCoversEveryLine ==
    row = "completed" => \A l \in Line : \E r \in decisions : r.line = l

\* An entry settled by Tiers 0-1 is invisible to Tier 3: no model commitment
\* uses one, in whatever process either was made (nodes.py 161-164).
TierSeparation ==
    \A a, b \in decisions :
        a.kind = "deterministic" /\ b.kind = "model" => a.entries \cap b.entries = {}

AdjudicationReported(after, before) ==
    \E i \in 1..Len(events) :
        events[i].node = "tier3_adjudicate" /\ after < events[i].tx /\ events[i].tx < before

\* Escalations are committed in a transaction before the event of their node, so
\* a death leaves escalations the trail does not mention. No reviewer is ever
\* asked about one of those, and no human decision replaces one: between an
\* escalation that is put up for review and the review, the trail reports an
\* adjudication (nodes.py 291-343).
ReviewedIsReported ==
    /\ \A q \in ckpt.st.queue : AdjudicationReported(q.esc, txn + 1)
    /\ \A x \in decisions : x.kind = "human" => AdjudicationReported(x.sup, x.tx)

\* What runs.status tells a caller, with one driver at a time: a finished graph
\* reads as finished, and when a call has come back the row reads
\* "awaiting_human" exactly if a review is what the thread does next. (After a
\* death it may be further: the row of a later node, the checkpoint of an
\* earlier one.) (nodes.py 352-360, 371-379, finish_run.)
StatusTellsTruth ==
    /\ ckpt.next = "end" => row \in Terminal
    /\ \A d \in Driver : pc[d] = "exit" /\ AllSaved(d) =>
         (ckpt.next = "human_review" <=> row = "awaiting_human")

\* One open item settles one bank line (cascade.py 3-5, ARCHITECTURE.md 523).
OneEntryOneLine ==
    \A a, b \in decisions : a.line # b.line => a.entries \cap b.entries = {}

-----------------------------------------------------------------------------
FactOf(kind) == CASE kind = "escalated" -> "escalated"
                  [] kind = "human"     -> "reviewed"
                  [] OTHER              -> "committed"

Promise == INSTANCE RunPromise WITH
    facts <- [l \in Line |-> {FactOf(r.kind) : r \in {x \in decisions : x.line = l}}],
    phase <- IF ckpt.next = "end" THEN row ELSE "open"

\* With one driver at a time, however often it dies and is continued, a run
\* keeps the abstract promise (nodes.py, runner.py): reviews only follow
\* escalations, "completed" leaves no line out, a finished run stays finished.
\* A run is finished once the last checkpoint is stored; a row that reads
\* "completed" before that is reopened by a death and a continue.
KeepsPromise == Promise!Spec

-----------------------------------------------------------------------------
\* A live driver keeps going; a run whose process died is continued by the
\* operator unless it waits for a reviewer; a reviewer posts sooner or later.
Fairness ==
    /\ \A d \in Driver : WF_vars(Step(d)) /\ WF_vars(Save(d))
    /\ WF_vars(ckpt.next # "human_review" /\ \E d \in Driver : Continue(d))
    /\ SF_vars(ckpt.next = "human_review" /\ \E d \in Driver : Resolve(d))

FairSpec == Spec /\ Fairness

\* Once the graph is entered, and however often its process dies, the automatic
\* part ends: the run waits for a reviewer or is closing.
AutomaticPartEnds ==
    ckpt.next = "ingest" ~> ckpt.next \in {"human_review", "close_run", "end"}

\* No two resolutions of one line.
OnePerLine(res) == \A r, s \in res : r.line = s.line => r = s

\* An answer whose checkpoint is stored takes effect however often the process
\* dies: in the end a reviewer's decision is stored or the run is closed. Not so
\* an answer that resolves one line twice, which the index refuses for ever
\* (runner.py 156-199, nodes.py apply_human).
AnswerTakesEffect ==
    (ckpt.next = "apply_human" /\ OnePerLine(ckpt.st.resolutions)) ~>
        (row \in Terminal \/ \E r \in decisions : r.kind = "human")

\* A run whose reviewer answered is closed in the end, also when its process
\* dies on the way (runner.py 164-169: what was committed before the crash is
\* durable and the run is continued after it).
AnsweredRunCloses == ckpt.next = "apply_human" ~> row \in Terminal
=============================================================================
