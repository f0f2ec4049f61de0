------------------------------- MODULE Service -------------------------------
(***************************************************************************)
(* The API around one run: POST /runs and its worker thread, the resolve    *)
(* endpoint, `recon resume`, and the write-back of approvals to the         *)
(* retrieval index. A request reads the queue, resumes the graph and        *)
(* teaches the index in steps of its own, so other requests, failures and   *)
(* restarts of the server come between.                                     *)
(*                                                                         *)
(* The graph is reduced to what a resume finds in the checkpoint; RunGraph  *)
(* has its nodes. A checkpoint taken on the way is stored in the background: *)
(* when the process dies it may be missing. A call returns with all stored. *)
(***************************************************************************)
EXTENDS Naturals, Sequences, FiniteSets

CONSTANTS
    Line,        \* bank lines of the run
    Entry,       \* ledger entries a reviewer can name
    Request,     \* calls of the resolve endpoint and of `recon resume`
    Resolutions, \* the bodies of this instance: sets of [line, action, entries]
    Payer,       \* Payer[e]: the entry's counterparty
    NoParty,
    Top          \* Top[l]: the entries of l's first candidate, <<>> for none

ASSUME ResolutionsAssumption ==
    \A rs \in Resolutions :
        rs \subseteq [line: Line, action: {"approve", "reject", "reassign"}, entries: Seq(Entry)]
ASSUME PayerAssumption == Entry = DOMAIN Payer /\ Top \in [Line -> Seq(Entry)]

VARIABLES
    start,      \* POST /runs: "no", "row", "registered", "done"
    thread,     \* the worker: "none", "running", "raised", "ended"
    handle,     \* RunService._runs: at most one [error] for the run
    ckpt,       \* the checkpoint: where a resume goes on, the queue, the answer
    human,      \* committed human decisions: resolutions
    index,      \* resolved pairs in the index: [line, party, by]
    req,        \* per request: where it is and what it holds
    overlapped  \* history: two callers drove the run at once

store == <<ckpt, human, index>>
boot  == <<start, thread, handle>>
vars  == <<boot, store, req, overlapped>>

New  == [at |-> "new", cli |-> FALSE, answers |-> TRUE,
         items |-> {}, body |-> {}, queue |-> {}, answer |-> {}]
Over == [New EXCEPT !.at = "over"]

Init ==
    /\ start = "no" /\ thread = "none" /\ handle = {}
    /\ ckpt = [at |-> "none", queue |-> {}, answer |-> {}]
    /\ human = {} /\ index = {}
    /\ req = [r \in Request |-> New] /\ overlapped = FALSE

-----------------------------------------------------------------------------
(* POST /runs: RunService.start                                            *)

CreateRow ==
    /\ start = "no" /\ start' = "row"
    /\ UNCHANGED <<thread, handle, store, req, overlapped>>

Register ==
    /\ start = "row" /\ start' = "registered"
    /\ handle' = {[error |-> FALSE]}
    /\ UNCHANGED <<thread, store, req, overlapped>>

\* Mutant: the thread does not wait for its handle.
StartThreadEarly ==
    /\ start \in {"row", "registered"} /\ thread = "none"
    /\ start' = IF start = "registered" THEN "done" ELSE start
    /\ thread' = "running"
    /\ UNCHANGED <<handle, store, req, overlapped>>

StartThread ==
    /\ start = "registered" /\ start' = "done"
    /\ thread' = "running"
    /\ UNCHANGED <<handle, store, req, overlapped>>

\* The graph saves its first checkpoint: from here on the run can be resumed.
WorkerEnters ==
    /\ thread = "running" /\ ckpt.at = "none"
    /\ ckpt' = [ckpt EXCEPT !.at = "working"]
    /\ UNCHANGED <<boot, human, index, req, overlapped>>

\* start_run returns: the run waits for a reviewer, or it closed.
WorkerPauses ==
    /\ thread = "running" /\ ckpt.at # "none" /\ thread' = "ended"
    /\ \E q \in SUBSET Line \ {{}} : ckpt' = [at |-> "paused", queue |-> q, answer |-> {}]
    /\ UNCHANGED <<start, handle, human, index, req, overlapped>>

WorkerCloses ==
    /\ thread = "running" /\ ckpt.at # "none" /\ thread' = "ended"
    /\ ckpt' = [ckpt EXCEPT !.at = "closed"]
    /\ UNCHANGED <<start, handle, human, index, req, overlapped>>

\* start_run raises; the exception goes to the run's handle.
WorkerRaises ==
    /\ thread = "running" /\ thread' = "raised"
    /\ handle' = {[h EXCEPT !.error = TRUE] : h \in handle}
    /\ UNCHANGED <<start, store, req, overlapped>>

-----------------------------------------------------------------------------
(* Requests                                                                *)

Active(r) == req[r].at \notin {"new", "over"}

\* Request r is at `at` and holds what the record `with` says.
Enter(r, with) ==
    /\ req[r].at = "new" /\ ckpt.at # "none"
    /\ req' = [req EXCEPT ![r] = with]
    /\ overlapped' = (overlapped \/ thread = "running" \/ \E o \in Request : Active(o))
    /\ UNCHANGED <<boot, store>>

\* POST /runs/{id}/resolve: an answer to the queue the reviewer saw.
Post(r) == \E rs \in Resolutions : Enter(r, [New EXCEPT !.at = "queue", !.body = rs])

\* recon resume --simulate-reviewer, recon resume --continue.
Simulate(r) == Enter(r, [New EXCEPT !.at = "queue", !.cli = TRUE])
Continue(r) == Enter(r, [New EXCEPT !.at = "load", !.cli = TRUE, !.answers = FALSE])

\* _simulated_resolutions: the first candidate of every queued item.
Simulated(items) ==
    {[line |-> l, action |-> IF Top[l] = <<>> THEN "reject" ELSE "approve", entries |-> Top[l]] :
        l \in items}

\* Mutant: the queue channel is read, answered or not.
ReadQueueChannel(r) ==
    /\ req[r].at = "queue"
    /\ req' = [req EXCEPT ![r].at = "load", ![r].items = ckpt.queue,
                          ![r].body = IF req[r].cli THEN Simulated(ckpt.queue) ELSE @]
    /\ UNCHANGED <<boot, store, overlapped>>

\* The run waits for a review. "answering": with the resume value of a call stored.
Waiting == {"paused", "answering"}

\* get_queue: the payload of the interrupt, nothing when none is pending.
ReadQueue(r) ==
    LET items == IF ckpt.at \in Waiting THEN ckpt.queue ELSE {}
    IN  /\ req[r].at = "queue"
        /\ req' = [req EXCEPT ![r].at = "load", ![r].items = items,
                              ![r].body = IF req[r].cli THEN Simulated(items) ELSE @]
        /\ UNCHANGED <<boot, store, overlapped>>

\* Where a resume takes r: a closed run has nothing left to execute, a paused one
\* pauses again when nothing answers it; an empty list is an answer.
NextStep(r) ==
    CASE ckpt.at = "working"   -> "run"
      [] ckpt.at = "paused"    -> IF req[r].answers THEN "answer" ELSE "over"
      [] ckpt.at = "answering" -> IF req[r].answers THEN "answer" ELSE "apply"
      [] ckpt.at = "answered"  -> "apply"
      [] ckpt.at = "applied"   -> "close"
      [] ckpt.at = "closed"    -> "teach"

\* resume_run: the checkpoint is loaded, and the resume value stored with it, unless
\* the process dies first.
Load(r) ==
    /\ req[r].at = "load"
    /\ req' = [req EXCEPT ![r].at = NextStep(r), ![r].queue = ckpt.queue,
                          ![r].answer = ckpt.answer]
    /\ \/ UNCHANGED ckpt
       \/ /\ ckpt.at \in Waiting /\ req[r].answers
          /\ ckpt' = [ckpt EXCEPT !.at = "answering", !.answer = req[r].body]
    /\ UNCHANGED <<boot, human, index, overlapped>>

\* A run that had not paused yet goes on: it closes, or pauses. The resume value is
\* for the first node only, so it answers the review if that was next, or is lost.
RunOn(r) ==
    /\ req[r].at = "run"
    /\ \E q \in SUBSET Line : \E next \in {"over", "answer"} :
         /\ next = "answer" => req[r].answers
         /\ ckpt' = [at |-> IF q = {} THEN "closed" ELSE "paused", queue |-> q, answer |-> {}]
         /\ req' = [req EXCEPT ![r].queue = q, ![r].at = IF q = {} THEN "teach" ELSE next]
    /\ UNCHANGED <<boot, human, index, overlapped>>

\* human_review returns what r brought.
Answer(r) ==
    /\ req[r].at = "answer"
    /\ req' = [req EXCEPT ![r].at = "apply", ![r].answer = req[r].body]
    /\ ckpt' \in {ckpt, [at |-> "answered", queue |-> req[r].queue, answer |-> req[r].body]}
    /\ UNCHANGED <<boot, human, index, overlapped>>

\* The resolutions apply_human inserts.
Applied(r) == {x \in req[r].answer : x.line \in req[r].queue}

\* No escalation is superseded twice: not within the request, not by an earlier one.
Supersedable(r) ==
    \A x \in Applied(r) : \A y \in human \cup Applied(r) : y.line = x.line => y = x /\ y \notin human

\* apply_human's transaction.
Apply(r) ==
    /\ req[r].at = "apply" /\ Supersedable(r)
    /\ human' = human \cup Applied(r)
    /\ req' = [req EXCEPT ![r].at = "applied"]
    /\ UNCHANGED <<boot, ckpt, index, overlapped>>

SaveApplied(r) ==
    /\ req[r].at = "applied"
    /\ ckpt' \in {ckpt, [at |-> "applied", queue |-> req[r].queue, answer |-> req[r].answer]}
    /\ req' = [req EXCEPT ![r].at = "close"]
    /\ UNCHANGED <<boot, human, index, overlapped>>

\* close_run: the resume returns when its checkpoint is stored.
Close(r) ==
    /\ req[r].at = "close"
    /\ ckpt' = [at |-> "closed", queue |-> req[r].queue, answer |-> req[r].answer]
    /\ req' = [req EXCEPT ![r].at = "teach"]
    /\ UNCHANGED <<boot, human, index, overlapped>>

\* The counterparty of the first entry that has one.
PartyOf(x) ==
    LET known == SelectSeq(x.entries, LAMBDA e : Payer[e] # NoParty)
    IN  IF known = <<>> THEN {} ELSE {Payer[Head(known)]}

\* Mutant: rejections and reassignments teach as well.
PairsOfAny(r) ==
    UNION {{[line |-> x.line, party |-> p, by |-> r] : p \in PartyOf(x)} :
             x \in {y \in req[r].body : y.line \in req[r].items}}

\* pairs_from_resolutions, on the queue read before the resume.
Pairs(r) ==
    UNION {{[line |-> x.line, party |-> p, by |-> r] : p \in PartyOf(x)} :
             x \in {y \in req[r].body : y.action = "approve" /\ y.line \in req[r].items}}

\* The answer goes out. write_back indexes all pairs, or raises after some of them,
\* which is reported and not raised. The command line has no write-back.
Teach(r) ==
    /\ req[r].at = "teach"
    /\ \E some \in SUBSET (IF req[r].cli THEN {} ELSE Pairs(r)) : index' = index \cup some
    /\ req' = [req EXCEPT ![r] = Over]
    /\ UNCHANGED <<boot, ckpt, human, overlapped>>

\* A refused insert, a lost connection or a dead process ends the call.
Fail(r) ==
    /\ Active(r)
    /\ req' = [req EXCEPT ![r] = Over]
    /\ UNCHANGED <<boot, store, overlapped>>

\* The server restarts: handles, daemon threads and its requests are gone.
Restart ==
    /\ start # "no"
    /\ start' = "done" /\ thread' = "none" /\ handle' = {}
    /\ req' = [r \in Request |-> IF Active(r) /\ ~ req[r].cli THEN Over ELSE req[r]]
    /\ UNCHANGED <<store, overlapped>>

Next ==
    \/ CreateRow \/ Register \/ StartThread
    \/ WorkerEnters \/ WorkerPauses \/ WorkerCloses \/ WorkerRaises \/ Restart
    \/ \E r \in Request :
         \/ Post(r) \/ Simulate(r) \/ Continue(r) \/ ReadQueue(r) \/ Load(r) \/ RunOn(r)
         \/ Answer(r) \/ Apply(r) \/ SaveApplied(r) \/ Close(r) \/ Teach(r) \/ Fail(r)

Spec == Init /\ [][Next]_vars
-----------------------------------------------------------------------------
\* A worker that failed left its error where GET /runs/{id} looks for it: the thread
\* never outruns the handle it reports to (service.py 65-72, app.py 114-115).
FailureReported == thread = "raised" => \E h \in handle : h.error

Confirms(x, p) == x.line = p.line /\ x.action = "approve" /\ p.party \in PartyOf(x)

\* While requests follow one another, the index learns only what a committed
\* approval confirms, whatever fails in between (service.py 110-121, app.py 198-199).
OnlyApprovalsTaught == ~ overlapped => \A p \in index : \E x \in human : Confirms(x, p)

\* A correction is taught once, although resolve is repeated after a lost answer or
\* a restart (runner.py 202-208).
TaughtOnce == ~ overlapped => \A p, q \in index : p.line = q.line => p = q
=============================================================================
