# A TLA+ model of the bank reconciliation system

Modules, model-checking configurations and machine-checked proofs for the
reconciliation service in `src/api/src/recon`. The service takes a period's bank
lines and a tenant's open ledger entries and settles as many lines as it can:
with rules first (Tiers 0 and 1), then with candidates (Tier 2) put before a
language model (Tier 3), and with a reviewer for the rest.

Definitions are translated from the source; `PROJECT.json` maps each of them to
the lines it stands for, each property to a defect that would break it, and
lists the hazards the properties are aimed at.

## 1. The system

| Part | State | Operations | Interacts with |
|---|---|---|---|
| Run graph (`graph/nodes.py`, `build.py`, `state.py`) | channels of one LangGraph thread | seven nodes, one conditional edge, one `interrupt` | every part below |
| Runner (`graph/runner.py`) | none of its own | `start_run`, `resume_run` with resolutions or `None`, `get_queue` | graph, checkpointer |
| Run tables (`graph/persistence.py`, `migrations/`) | `runs`, `decisions`, `events`, `llm_calls`, `human_reviews`, `retrieval_calls` | inserts, status and cost updates; `decisions` and `events` are append-only | written by the nodes |
| Audit chain (`graph/audit.py`, `hashing.py`) | `events` | `append` reads the tail and inserts the next link; `verify` | inside the nodes' transactions |
| Checkpointer (LangGraph `PostgresSaver`, external) | latest channels and next node of a thread, a resume value | taken after each node, stored in the background | runner |
| Cascade (`matching/cascade.py`, `tier0_exact.py`, `tier1_struct.py`) | the claimed entries of one execution | one walk over the ordered lines per tier | `deterministic_tiers` |
| Candidates (`matching/tier2_candidates.py`, `subset_sum.py`) | the search's stack, budget and hits | five generators, one of them a bounded subset-sum | `tier2_candidates` |
| Retrieval (`retrieval/`) | a vector index, eventually consistent; pending recordings | searches, `flush`, write-back of confirmed pairs | Tier 2, the resolve endpoint |
| Adjudication (`llm/`) | the cost meter, a thread pool | request, call, `validate`, `record_llm_call` | `tier3_adjudicate` |
| Replay (`replay.py`) | the recordings of a run | executes the run again and compares | all tables |
| API (`api/service.py`, `app.py`, `api/queries.py`) | a worker thread per run, a map of handles under a lock | start, resolve, event stream, reads | runner, tables |
| Ingest (`ingest/`) | `sources`, `bank_lines`, `ledger_entries` | parse, normalise, deduplicate by file and by row | before a run |
| Data generator (`seed/generator.py`) | the number series and the cases of a period | build the cases class by class, draw the golden set | its files are what ingest and evaluation read |
| Evaluation (`evals/`) | report file, committed baseline, a scratch tenant of the index | score, measure the feedback loop, compare with the baseline | index, a finished run |

What is hard about it:

* **Two writes per node.** A node commits its rows and its event in one
  transaction; that it *finished* is recorded by the checkpoint, a second write
  that happens in the background while the next nodes run. A process can die with
  its tables several nodes ahead, and those nodes are then executed again.
* **Several drivers.** A run is driven by the API's worker thread, by any number
  of `resolve` requests and by `recon resume` on the command line. Nothing keeps
  two of them from resuming the same checkpoint.
* **Order.** A line's settlement depends on what was claimed before it, by either
  tier; calls to the model return in any order.
* **The outside.** The index changes between two queries, calls fail, and what
  they returned must be recorded so that a finished run can be replayed.
* **Bounds.** A cost ceiling, a node budget, a collection cap, a ranking cut over
  generators of unequal worth, a quota over classes of unequal size.
* **Repetition.** An ingest, a resolve or an evaluation that died is started again,
  in whatever state it left its table, its index or its file.

What makes each part correct is the list of properties in section 3. The parts
that are not modelled, or only partly, are listed with reasons in section 6.

## 2. Modules

| Module | What it is |
|---|---|
| `RunGraph` | the graph, its tables, the checkpoint and the drivers |
| `RunPromise` | abstract: what a run promises about each line and its status |
| `RunGraphProofs` | theorems about `RunGraph` |
| `Cascade` | Tiers 0 and 1 |
| `Matching` | abstract: lines and entries are paired one to one |
| `Candidates` | extends `Cascade` with Tier 2: generators, merging, ranking, cut |
| `CandidatesProofs` | theorems about `Cascade` and `Candidates` |
| `SubsetSum` | `find_subsets`, the depth-first search and its ranking |
| `SubsetSumProofs` | theorems about `SubsetSum` |
| `Adjudication` | Tiers 2 and 3 as far as they leave the process: queries, calls, meter, recordings |
| `AdjudicationProofs` | theorems about `Adjudication` and `Replay` |
| `Replay` | extends `Adjudication` with `make replay` |
| `AuditTrail` | `EventLog` in the concurrent transactions of several writers |
| `EventStream` | extends `AuditTrail` with the stream that tails it |
| `EventStreamProofs` | theorems about both |
| `Service` | starting a run, resolving it, teaching the index |
| `ServiceProofs` | theorems about `Service` |
| `Ingest` | overlapping loads of directories into the tables |
| `IngestProofs` | theorems about `Ingest` |
| `Dataset` | the generator's cases, numbers and golden set |
| `Evaluation` | extends `Dataset` with `recon eval` |
| `EvaluationProofs` | theorems about `Dataset` and `Evaluation` |
| `MCRunGraph`, `MCCandidates`, `MCSubsetSum`, `MCReplay`, `MCService`, `MCIngest`, `MCEvaluation` | the instances TLC checks |

### RunGraph

A step is one database transaction or one checkpoint write. `pc[d]` is what
driver `d` executes next; `st[d]` are the channels it holds in memory, `ckpt` the
ones that are stored, with the node that follows. The nodes that commit twice are
split where the code commits: `adjudicate` into `Adjudicate` (calls, in memory),
`AdjudicateEscalate` and `AdjudicatePersist`, `apply_human` into `ApplyHuman`
(status) and `ApplyHumanCommit`.

`runner.py` 146 and 195 invoke the graph without a `durability`, and LangGraph then
stores checkpoints in the background. `Return` ends a node: its checkpoint is taken
(`pending`, numbered by `made`) and the next node may start at once. `Save` stores
the driver's oldest one at any later time; of two drivers' checkpoints the one taken
later stays the thread's latest. `Exit` is the call that comes back, which waits for
its checkpoints. `Fail` is the process dying at any of these points: memory and what
was not stored are gone, the tables stay, as many nodes ahead as they are. (A node
that raises is the case in which everything was stored before.)

`Resume` is `resume_run`: it loads the stored checkpoint, with the resolutions
(`Resolve`) or without (`Continue`). LangGraph hands the resume value to the first
node only (`Given`): it answers a review that comes next, and is lost when the run
had died in an automatic node. It is stored too, in the background, so a call that
dies may or may not leave it to its successor (`resume`).

An id of `decisions` is the pair of the transaction and the line, which is enough
to say which row supersedes which. The cascade enters as the constant `Det` and
the candidates as `Option`, since the rows they are computed from do not change
during a run; the answers of the model are chosen. The unique index on
`supersedes_id` is `SupersedesUnique`: a transaction that violates it rolls back
and its node raises (`ApplyHumanRejected`).

LangGraph and its saver are not in the repository. They are modelled by how
`runner.py` and `build.py` use them: a checkpoint of the input is taken before the
first node and one of each node's return with the node that follows, an interrupted
node is executed again from its top, and a finished thread has nothing to execute.

### Cascade

The rows are chosen in `Init` and never change. `Turn` is one line of one tier, in
the order of `_ordered_lines`; `Tier0` and `Tier1` are the rules by which at most
one entry is found for it. Texts (rationale, evidence) and confidences are left
out. `bank_ref` and `id`, which break ties of the date, are the line's number.

### Candidates

`Candidates` goes on where `Cascade` ends: the entries it claimed are those Tier 2
does not see, the lines it left are walked in the same order. `Generate` is
`_for_line` for one line: `ByAmount`, `ByParty`, `ByHybrid` and `ByHistory` are the
generators of single entries with their scores, `Combinations` what the subset
search contributes from its two pools, `Best` the merge by entry set, `Ranked` the
one sort and the one cut. `Save` is the form in which the set goes into the
checkpoint; the next line then starts with nothing. The index is not trusted: it
answers any entries of the line's side, claimed and closed ones included, with any
score of the instance. Of the search `Candidates` takes what `SubsetSum` shows of
it: with no budget hit and no negative amount in the pool (`NoCredit`), what is not
found continues something that was found; of a pool with a credit it may miss
anything, since the pruning by `suffix_max` is no bound there. What is cut is no
nearer than what stays. Ties on document references are left open in both sorts.

### SubsetSum

The recursion of `walk` is a stack of frames and a step is one turn of its loop.
`Stop` is every way in which the search gives up as a whole; all callers then
return, so the stack is emptied at once. A combination is a set of positions in
the sorted pool. Ranking ties on document references are left open: `Cut` keeps
any cut the first two keys allow.

### Adjudication and Replay

One run from Tier 2 to the end of Tier 3. A query and a call are reduced to what
decides whether two of them are the same: `Narrative[l]` is searched for, and
`Request(l, hits)` is what the model is shown. Lines with the same narrative share
a query hash, lines with the same payment and candidates a request hash. The
index changes on its own; the two kinds of query (open items, resolved pairs) are
one. A process that reaches the vector index when it builds its own is `online`;
the others, and those with retrieval switched off, have the `NullIndex` of
`build_index`, which finds nothing (`NoHits`) and records nothing. `ReturnCandidates`
ends Tier 2: Tier 3 is `given` the candidate sets at once, and `StoreCandidates`
stores the checkpoint with them at any later time. A call returns an answer that
commits, one that declines, one that was received and then `rejected` (no tool call,
or `validate` raises), or has `failed`; the result loop only sees that the last two
`Raised`. `billed` is not in the code: it is what the provider charged, for rejected
answers as well, against which the meter is compared. `Crash` restarts the run at
its stored checkpoint with a new meter, empty pending recordings and whatever index
the new process reaches.

A replay runs when nothing else does and writes only rows of its own, so it is
one step. The queries that load the recordings have no `order by`, so which of
two rows with one hash survives is chosen.

### AuditTrail and EventStream

`RunGraph` appends a node's event in one step. `AuditTrail` opens that step up: a
writer reads the tail (`ReadTail`), inserts the next row (`Insert`) and commits or
rolls back, and the statements of all writers interleave under READ COMMITTED.
`KeyTaken` and `KeyPending` are the unique index on `(run_id, seq)`: an insert
fails on a committed row with its key and waits for an uncommitted one. Which
node a row belongs to matters only for `close_run`, which verifies the chain and
finishes the run in the transaction of its own row. A hash is the pair of what was
hashed, so hashes collide only when they should. A transaction whose row was
inserted and which raises, loses its connection or dies is `RollBack`.

`EventStream` adds the generator of `GET /runs/{id}/stream`: `Poll` and `ReadRun`
are its two statements, between which anything may commit, `Send` sends one event,
`Check` decides whether the stream is done, has timed out or polls again.
`Reconnect` is a browser that opens the stream once more, from the beginning. The
state `alive` of the worker thread is what `_service.status` is asked for; it may
be dead from the start, as after a restart of the server.

### Service

`RunGraph` has the nodes of a run; `Service` has what surrounds a resume and
reduces the graph to where its stored checkpoint stands (`working`, `paused`,
`answering` when it also holds a resume value, `answered`, `applied`, `closed`). A
request's own position may be ahead of it, since checkpoints are stored in the
background, until the call returns. `CreateRow`, `Register` and `StartThread` are the three steps
of `RunService.start`; the `Worker...` actions are the thread's function with its
`except`. A request reads the queue (`ReadQueue`), loads the checkpoint (`Load`),
drives the graph from there (`RunOn`, where an answer may be lost, `Answer`, `Apply`,
`SaveApplied`, `Close`) and teaches the index (`Teach`) with pairs made from the queue it read *first*.
Between any two of these steps other requests, the worker, `Fail` and `Restart`
may come. `Post` is the endpoint, `Simulate` and `Continue` the two forms of `recon
resume`, which run in processes of their own, survive the restart of the server and
have no write-back. An insert that would supersede an escalation twice does not
happen (`Supersedable`), and the call can then only fail. `overlapped` is a history
variable: two callers were at work at once.

### Ingest

The tables hold what is committed; each loader carries its open transaction, which
covers the whole directory. `EnsureTenant`, `InsertSource` and `InsertRow` are the
statements with `on conflict do nothing`; each waits while another open transaction
holds the same key, as PostgreSQL does, and `RollBack` is also how a deadlock of two
loaders ends. `Parse` reads a whole file before anything of it is stored. `Commit`
ends the transaction and `PrintResults` is what follows it: a process that dies in between
has printed the results of the first files only, or none (`lost`). A file is
its content, so its sha256 is the file itself; `ContentHash` leaves out status and
source and folds the text, as `normalise.py` does.

### Dataset and Evaluation

`Dataset` keeps of a case its class, its documents and the wrong reference it
quotes. `BuildClass` and `AddDistractors` take numbers from the series,
`BuildMistyped` runs last and exchanges digits of its own number until the result
names no document so far, else takes one of a block that is never issued;
`PeriodBuilt` starts the series anew. `TakeFloor`, `TakeShare`, `TopUp` and `Draw`
are `_stratified`, once per half of the golden set.

`Evaluation` scores what is committed per class (`Commits`: as labelled, wrong, one
slip, nothing) on the sample and on the month, runs the feedback measurement in its
scratch tenant (`Clear`, `MeasureBefore`, `IndexPairs`, `MeasureAfter`,
`ClearAgain`; `FeedbackFails` is the index being away), writes the report, checks
it and, if asked, makes the file the baseline. `Die` may come anywhere.

## 3. What the runs check

Passing runs:

| Run | Question | Bounds |
|---|---|---|
| `RunGraphCrash` | Does a run that dies anywhere stay consistent and come to an end? | 3 lines (one settled by Tier 0, one with two candidates, one that shares an entry with it), requests with one or both of two rival resolutions of a line, 1 driver, any lag of its checkpoints, 2 deaths |
| `RunGraphOverlap` | Do tables, queue and audit trail stay sound with two drivers on a run? | 2 lines, 2 drivers, 1 of them started while the other works, 1 death, two reviewers who disagree, in two requests or in one; drivers symmetric |
| `PipelineRun` | Do the rule tiers commit nothing ambiguous, and does Tier 2 offer the right things? | all combinations of 3 lines out of 3 records and 4 entries out of 8 (one a credit), an index with one score, 2 places per offer; entries symmetric |
| `SubsetSumSearch` | Is what is found right, and is "exhausted" true? | every sorted pool of up to 5 amounts of a small set, budgets small enough to stop the search |
| `ReplayRecorded` | Does a decision stay traceable, and does a clean run replay? | 2 lines with one narrative, 3 results of a search (one empty), with and without the vector index, 2 workers, 2 committable answers, 2 changes of the index, 1 death |
| `EventStreamRun` | Is the chain whole whoever appends, and what does a client that tails it see? | 3 writers, 3 rows, 1 client, time-out after 2 silent polls (300 in the code), 1 reconnect |
| `ServiceRun` | Does a failed worker show, and does the index learn approvals only? | 2 lines, 3 entries (one without a known payer), 2 symmetric requests of any kind, 3 bodies, any number of failures and restarts |
| `IngestRun` | Is every fact stored once and every file whole? | 2 loaders, 3 loads of 4 directories: a month, a newer export of it, a broken file, all of them |
| `EvaluationRun` | Are the labels reachable, the sample stratified, the numbers what they say? | both periods with the program's real mixes, 3 pairs of quotas, 5 qualities of the cascade, 1 evaluation at a time, deaths anywhere |

`RunGraphCrash` checks, besides the type invariant: `TierSeparation` (no
entry the rules settled is used by a model's commitment), `ReviewedIsReported` (an
escalation commits before its node's event; one whose event a death cut off is never
put to a reviewer nor superseded), `StatusTellsTruth` (when a call comes back, the
status says "awaiting_human" exactly if a review comes next, and a thread that ended
reads as finished), the refinement `KeepsPromise` and the liveness properties
`AutomaticPartEnds` and `AnswerTakesEffect`. The last is about answers whose
checkpoint is stored and that resolve no line twice (`OnePerLine`): the requests of
this run include one that does, and it rolls back on every resume. `RunGraphOverlap`
checks `QueueIsEscalated` (every queue item names an escalation row of its line),
`SupersedesSound` (a review supersedes an earlier escalation of its line, once),
`EventsFollowGraph` (no node's event comes before one of a node the graph runs
before it) and `CompletedCoversEveryLine`. Two deaths are enough for a node to be
executed three times, once from each side of its commit; with three lines every
line can end in another way in the same run. More than one overlap only repeats
what two drivers at any two points can do, since a driver keeps nothing between
two calls.

`PipelineRun` checks the cascade's `RivalsTakenEarlier` (whatever could be taken for
a committed match had been settled before it) and the refinement `PairsOneToOne`,
then of each offer: `OffersOnlyOpen`, `FeeNettedKeepsItsPlace` (an entry of the payer
that is short by a bank fee is not pushed out by combinations) and
`ExactCombinationsOffered`, which states from the scores and cuts together what the
subset search alone cannot: an exact combination is there, or the set says it is
truncated, or the search left its branch, or better ones took the places, in pools
without negative amounts. The eighth record is a credit, so that pools with one are
checked to need the exception. With four entries a pool can be cut, a combination can have an exact rival, and a hit can
hide a continuation; with two places every generator competes.

The runs with small search budgets and pools of five amounts reach every way the
search can end: exhausted, at the budget, at the cap, with nothing to search.

`ReplayRecorded` checks `CommitsAreRecorded`, `DecidedOnSavedCandidates` (a decision
rests on the candidates that are stored, or will be, whatever the index became),
`RetrievalIsRecorded` (a line with hits has a recorded query; without a death the
recording is empty or holds what each line was given), `CostIsWhatWasPaid` (never more
than was paid; without a death, all of it but what rejected answers cost) and
`CleanRunReplays`. Two changes of the index reach a line that is searched between
them and one that is searched after; the replay's two committable answers let a call that is repeated after a death answer
differently from the first.

`EventStreamRun` checks `ChainVerifies` (no two rows share a number, none is
missing, each hashes the one before), `GrowsAtItsEnd` (a commit never slips a row
behind one that is stored), `StreamIsHistory` (what was sent is a prefix of the
trail) and `StreamEnds`. Three writers let one wait for a second while a third has
already committed the key both want; three rows are enough for a stale tail to be
one row and two rows behind.

`ServiceRun` checks `FailureReported` (the error of a failed worker is where `GET
/runs/{id}` looks), `OnlyApprovalsTaught` (every pair in the index comes from a
committed approval) and `TaughtOnce`. The last two are stated for requests that
follow one another, with anything failing in between; for overlapping requests they
do not hold (section 6). Two requests are what it takes for one to follow another's
lost answer; the three bodies approve, reject, reassign, and contradict themselves.

`IngestRun` checks `FactStoredOnce` (no fact twice, in whatever file and spelling),
`FileIsWhole` (a source that will be skipped from now on has all its rows) and
`ReportsAddUp` (what the printed results say was inserted is what the tables hold, but
for rows whose result a death after the commit cut off: `Unreported`). Three
loads by two loaders overlap two and repeat one; the four directories make them
share a file, rows without a file, a row within a file, and nothing.

`EvaluationRun` checks `MistypedNamesNothing` (a wrong reference names no document
of its period, also none issued later), `SampleIsStratified` (quota met, floors kept,
larger classes sampled no less), `BrokenRuleShows` (a rule that is wrong for its
whole class costs precision on the sample), `BeforeIsUntaught` (the number "before
any correction" is measured on an empty history) and `BaselineNeverWorse`. The
mixes are those of the generator, so the first two are about the data the program
writes; the quotas are the real one, one where nothing but floors fits, and one that
a half cannot fill.

Violations, each a statement of the repository that the code does not keep
(`findings` in `PROJECT.json` quotes it):

| Run | What happens |
|---|---|
| `RunGraphStuck` | A process that dies after `apply_human` committed and before its checkpoint leaves a run that no resume closes: the node is executed again and its insert violates the index each time. |
| `RunGraphSharedEntry` | Tier 3 settles two lines with one open item. |
| `ReplayCeiling` | The cost ceiling is checked before anything is metered and never stops a batch. |

More that no run keeps, since the properties above are stated around them:

* The window of `RunGraphStuck` also exists in the automatic nodes, whose
  commitments are then stored twice (`runner.py` 168-169 says nothing durable is
  recomputed). `KeepsPromise` is about what a line is settled with, not how often.
* A search that calls itself exhaustive never finds an exact combination that
  continues one within the tolerance: items 50, 100 and 100 for a payment of 250,
  with a tolerance of 100, stop at 50 + 100. `NothingOverlooked` and
  `ExactCombinationsOffered` except `Continues`.
* A call that fails, or whose answer is rejected, is escalated and not recorded, so the
  run's replay misses (`README.md` 149-150 says every call is recorded).
  `CleanRunReplays` is stated for runs without such a call.
* The charge of a rejected answer reaches neither the meter nor `runs`
  (`nodes.py` 244-251). `CostIsWhatWasPaid` states the difference.

### Fairness

`FairSpec` is used for liveness only. A live driver keeps going (`WF` of its
`Step`): a thread executes its node and calls into Postgres return or raise. Its
background writes happen in the end (`WF` of its `Save`), if it lives. A run
whose process died is continued by an operator (`WF` of some `Continue` while the
run is not waiting for a reviewer): `recon resume --continue` exists for it. A
reviewer answers sooner or later (`SF` of some `Resolve`, since the run may die
and wait again). Deaths are bounded by `MaxFaults` and carry no fairness. Without
the operator no run that died would end, which is what the code does.

The stream is served on (`WF` of each client's `StreamStep`): a generator is
iterated until it returns. Nothing is assumed of the run it follows, neither that
it finishes nor that it stands still.

Deadlock is not checked: a finished run stops.

## 4. What is proved

For every value of the constants that their `ASSUME`s allow and, where an item names
one, under the stated hypothesis:

* **`RunGraph`**: `TypeCorrect`, `QueueCorrect`, `SupersedesCorrect`. The queue a
  reviewer answers may be in the checkpoint, in a driver's memory, or in a table
  row's `supersedes_id`, so the invariant has to hold in all three at once:
  `QueueIsEscalated` over all channels together with the rows, preserved because
  rows are never removed, an escalation is inserted before the channel that
  names it, and a checkpoint only copies a driver's channels. `SupersedesSound`
  needs more: a row of a transaction that exists has a number not above `txn`
  (so that a superseding row is younger than what it supersedes), and the index.
  `ReviewedReported` and `TrailCorrect` rest on one lemma:
  a step changes the tables by a transaction of escalations, or by the one
  transaction of the node its driver has come to. For the order of events the
  invariant (`OnTrack`) says of everything a run can go on from, a driver's memory,
  a checkpoint that waits or the stored one (the last two are `Places`), that the event
  of a predecessor is stored. `ReviewedReported` says of the same that the escalations
  of a queue are older than an event of their node (`ReportedInv`), but for a driver
  between the two transactions of `adjudicate`, whose queue nobody else can see; the
  rows of a review are made from one of the others.
  `TiersApart` and `LinesCovered` follow the bank lines (`LinesInv`): the channels
  that enter Tier 3 know every settlement of Tiers 0 and 1, and a line is still
  unmatched, in the locals of `adjudicate`, or has a row. All four hold for any
  number of overlapping drivers. `StatusCorrect` and the refinement `PromiseKept`
  are for one driver at a time (`MaxOverlaps = 0`): its position, the checkpoints
  that wait, the stored one and `runs.status` then tell one story (`SoloInv`): what
  waits belongs to the one live driver and is newer than what is stored, the latest
  of all is where the driver is (`InPlace`), so that a call that comes back has its
  last position stored, and a thread that has ended executes nothing more. For two it does not
  hold: a driver that comes late to `human_review` sets a run that another one closed
  back to `awaiting_human` (`nodes.py` 356).
* **`Cascade`**: `TypeCorrect`, `RivalsCorrect`, `PairsCorrect`. The invariant adds
  to `RivalsTakenEarlier` that the claimed entries are exactly those of the matches
  and that the walk is in order: a line that still waits comes after every line
  this tier settled. A rival that was claimed then was claimed by an earlier line
  or tier. `PairsCorrect` is the refinement of `Matching`, step by step.
* **`Candidates`**: `OffersCorrect`, `FeeNettedCorrect`, `ExactCorrect`, for any
  records, scores, limits and answers of the index, over finitely many entries
  (`EntryAssumption`: the ledger is a table). The invariant is the cascade's, plus
  that an offer exists only in Tier 2, when `claimed` no longer changes: an offer
  made of open entries would go stale otherwise. That each generator and both
  searches stay among the open entries of the line's side are lemmas of their own.
  The other two argue about the one cut over all generators; `ExactCorrect` is about
  pools without negative amounts (`NoCredit`), since it rests on a complete search. For `FeeNettedCorrect`
  scores decide: the payer's own entry has more than 940 and no combination has, so
  it is kept wherever one is. `ExactCorrect` follows a combination
  from the pool it may be cut from, through the search's own limit and the merge
  (which keeps the higher score of an entry set), to the offer.
* **`SubsetSum`**: `FoundFit`, for any amounts, budgets and limits; `OverlooksNothing`
  and `DropsNothingBetter` for pools without negative amounts (`NoNegative`, on
  which the pruning by `suffix_max` rests: section 6). The invariant of the stack
  (`Sound`) says that a frame's total is the sum of what it picked, that a call has
  one item more than its caller, and that what was found lies behind every call, so
  that nothing is found twice. `Covered` is the search's completeness: as
  long as nothing stopped it, a combination that fits was found, continues one that
  was, or is still ahead of some call on the stack: it contains what the call picked,
  and the rest of it is at the call's `next` position or later. `Rest` bounds what
  lies ahead, which is a fact about the sum of any set of later positions. `RankInv`
  keeps the cut to the end.
* **`Adjudication`**: `CommitsRecorded`, `DecidedOnSaved`, `RetrievalRecorded`,
  `TypeCorrect`. The invariant follows a decision back: chosen rows are among the
  recorded calls and rest on the candidates the process was given, which are those of
  the checkpoint if it holds any (`Handover`), and what Tier 2 found in the vector
  index is recorded before it is handed on (`Flushed`). `CostIsBilled` compares the
  meter with the bill (`Metered`): what the live process was charged (`Paid`) is on the
  meter, still to be recorded, or was rejected, in whatever order answers come, and is
  the whole bill while no process died (`Accounted`); lines are
  finitely many (`LineAssumption`).
* **`Replay`**: `ReplayLeavesRunAlone` (every behaviour with replays is one of
  `Adjudication`: a replay changes nothing of the run it repeats) and
  `CleanReplaysIdentical`. The invariant (`Stored`) says of a process that never died
  that the recorded queries are those of the checkpoint and the recorded calls those
  of the results the loop has come to, one per line. With different requests it does
  not matter which of several rows survives when they are loaded unordered.
* **`AuditTrail`, `EventStream`**: `ChainCorrect`, `GrowthCorrect`, `StreamCorrect`,
  for any number of writers, rows and clients. `ChainVerifies` is not inductive:
  whether a commit keeps it depends on the row that waits in a transaction and on
  the tail it was made from. The invariant adds that stored numbers have no gap,
  that every tail that was read is still a stored row (rows are never removed), and
  that an uncommitted row continues the trail and holds a number nobody else has,
  stored or not. A number that is free and whose predecessor is stored is then
  above all others, which is `GrowthCorrect`. For the stream: what is read and not
  sent follows what was sent without a gap.
* **`Service`**: `FailuresReported`, `ApprovalsTaught`, `EachTaughtOnce`, for any
  lines, requests and bodies. That a failed worker has its handle needs that the
  thread starts after it (`Started`). The other two need the whole protocol of one
  request after another: at most one is active (`Alone`), what it holds is what the
  checkpoint holds or falls behind of (`InStep`), the body it teaches from is the answer
  that was applied, or its queue was empty (`Brings`), a closed run has no further
  queue to teach from (`TaughtWhenClosed`), and an escalation has one human decision
  (`OneReview`).
* **`Ingest`**: `FactsStoredOnce`, `FilesWhole`, `ReportsCorrect`, for any number of
  loaders, loads, directories and files. None of the three is inductive, since
  everything is decided before the commit: the invariant (`Distinct`, `Pending`,
  `Counted`) says of open transactions that their rows have hashes that no other
  transaction and no table has, that a file they hold has each row up to the
  position of the loader stored in the tables or in that same transaction, and that
  they count what they hold, each result with the rows it is about: whichever of them
  are printed, their count and the rows left `Unreported` then agree. A row found "known" can only be in the tables or one's
  own transaction, because an insert waits for all others: without the wait a file
  could lean on a row that is rolled back.

* **`Dataset`**: `SampleCorrect`, `MistypedCorrect`. The first holds for any mixes,
  quotas and floor, if the quotas hold the floors of all classes (`RoomForFloors`;
  the program's do: 180 and 120 for floors of 15 and 27, and below that it would
  not end). The invariant (`DInv`) says at each phase what is drawn of a class: its
  floor, at most all, and no less than of a smaller class, which survives the shares,
  because they grow with what is spare, and the top-up, because it takes from the
  class with most left. That the shares fit the budget is a lemma about rounded-down
  sums. `MistypedCorrect` tells *why* no wrong reference of this dataset names a
  document. The code compares with the references issued so far (`generator.py`
  354-360, where the comment has the check complete), and other mixes do break it.
  It holds if of each number that is mistyped one of the first two exchanges puts a
  greater digit forward, no more than 90 are mistyped, and the period stays below
  the block that is never issued (`ExchangesLeadPast`): the number quoted is then
  past the last of its period. The invariant (`Numbered`) counts the series class
  by class.
* **`Evaluation`**: `BrokenRuleCorrect`, for any mixes and quotas and a floor of at
  least one; `BeforeCorrect` and `BaselineCorrect`, which need that evaluations run
  one at a time (`OneAtATime`; two share the report file and the scratch tenant,
  section 6), and nothing else, whatever dies. The invariant (`EInv`) says what an
  evaluation has measured at each of its positions, what the scratch tenant then
  holds, and that from the check on the report is its own.

The hypotheses `RoomForFloors`, `ExchangesLeadPast`, `OneAtATime` and `NoNegative` are
about constants; TLC evaluates them for the instances of the runs, with the program's
own mixes (`MCEvaluation`, `MCSubsetSum`).

Sums and searches over any number of items need induction over data. The library's
induction theorems take an operator as a parameter; the proofs use the least element
of a set of naturals instead, which follows from `WFMin`, and state what is to be
shown as membership in a set (`SetInduction`, `SubsetInduction`).

Only model-checked: liveness and what rests on `ENABLED` (`AutomaticPartEnds`,
`AnswerTakesEffect`, `StreamEnds`). Every safety property of a passing run is the
statement of a theorem.

## 5. Running it

    tlc -workers 2 -config RunGraphCrash.cfg MCRunGraph
    tlapm RunGraphProofs.tla

The module of each configuration is in `PROJECT.json`. The largest run,
`ReplayRecorded`, visits 5.2 million states; `PipelineRun` takes longest, for what
it computes in each of its 0.3 million.

## 6. Bounds of the model

Not modelled, and why:

* Texts, confidences, prompts, pricing, money conversion: pure functions whose
  results enter as constants or choices.
* `halted_cost` with a ceiling that trips: in the code only a ceiling of zero can
  trip (`ReplayCeiling`), and such a run closes from `tier3_adjudicate` without a
  review. `Adjudicate` has the path; the passing runs use a positive ceiling.
* A run whose process dies between its `runs` row and its first checkpoint: it is
  in `RunGraph` (`Fail` at `enter`), and has no continuation, as in the code.
  `Service` starts no request on it.
* The nodes behind the rows of `AuditTrail`: any writer may append at any time, also
  after the run closed, which is more than the graph does.
* The CAMT parser, which no loader calls, and the printing, statistics and `recon
  index` of the command line.
* What hybrid search finds, and the recall arms of the evaluation: the index is
  Weaviate's. Names, amounts and days of the generated cases, and the file formats.
* The connection pool, the migration runner, the web interface: pure I/O.

What the models show of the code and no property claims:

* A run that reads `completed` is reopened if its process dies before the last
  checkpoint is stored and somebody continues it: its last nodes are executed again.
  If `apply_human` is among them, it is `RunGraphStuck`.
* An answer to a run that died in an automatic node is lost: the resume executes that
  node and pauses at the review, and the reviewer has to answer again.
* A request with two resolutions of one line is refused by the index on every resume,
  and the run it is stored in can never close.
* A process that dies with its Tier 2 checkpoint unstored may leave decisions on
  candidates that the next process does not generate.
* A run without the vector index records no query, and its replay is refused.
* Two `resolve` requests that overlap on one run may teach the index an approval
  that was never committed: the second read the queue while the run was paused,
  resumes it when the first has closed it, which executes nothing, and makes its
  pairs from its own body. `overlapped` is where the properties of `Service` stop.
* Two evaluations at one git sha share the report file and the scratch tenant:
  one can make the other's report the baseline after its own check, or empty the
  history the other measures.
* A server that dies before the first checkpoint leaves a run that reads `running`
  for ever; nothing writes `failed` to `runs.status`.
* A later export that closes an entry changes no row: its content is known.
* `_stratified` trims while it is above its quota, and would loop for ever with
  nothing but floors to take from. The checked quotas never come to it.
* An open item with a negative amount (a credit note; `ingest/normalise.py` 91-96
  parses signed amounts and no table checks them) defeats the pruning of the subset
  search: of items of -5, -1, 6 and 9 the one combination for 10 is not found, since
  `suffix_max` counts the -1 that it leaves out, and the search calls itself
  exhaustive. `OverlooksNothing` is about pools without.
* `generator.py` 249 speaks of two occurrences of a recurring fee, where the July
  mix has twelve.

## 7. Plan

Done: run graph, cascade, Tier 2, subset search, adjudication and replay, audit
chain, event stream, service, ingest, dataset and evaluation, with a theorem for
every safety property the runs check. Next, in this order:

1. *Proofs.* Type correctness of `EventStream`, `Service` and `Ingest`, which no run
   needs as a property; `PromiseKept` for overlapping drivers, with the status left out.
2. *Composition.* `Service` on the nodes of `RunGraph` instead of the checkpoint
   alone, so that a request dies inside a node.
