---------------------------- MODULE ServiceProofs ----------------------------
(***************************************************************************)
(* Proofs about Service for any lines, entries, requests and resolutions: a *)
(* failed worker is reported, and while requests follow one another the     *)
(* index learns committed approvals only, each once.                        *)
(***************************************************************************)
EXTENDS Service, TLAPS

Resolution == [line: Line, action: {"approve", "reject", "reassign"}, entries: Seq(Entry)]

Position ==
    [at: {"new", "queue", "load", "run", "answer", "apply", "applied", "close", "teach", "over"},
     cli: BOOLEAN, answers: BOOLEAN, items: SUBSET Line, body: SUBSET Resolution,
     queue: SUBSET Line, answer: SUBSET Resolution]

Checkpoint ==
    [at: {"none", "working", "paused", "answering", "answered", "applied", "closed"},
     queue: SUBSET Line, answer: SUBSET Resolution]

TypeOK ==
    /\ start \in {"no", "row", "registered", "done"}
    /\ thread \in {"none", "running", "raised", "ended"}
    /\ handle \subseteq [error: BOOLEAN]
    /\ ckpt \in Checkpoint /\ human \subseteq Resolution
    /\ req \in [Request -> Position] /\ overlapped \in BOOLEAN

\* The thread comes after its handle, the checkpoint after the thread, and requests
\* after the checkpoint.
Started ==
    /\ start # "done" => thread = "none" /\ ckpt.at = "none"
    /\ start = "registered" \/ thread = "running" => handle # {}
    /\ thread = "raised" => \E h \in handle : h.error
    /\ \A r \in Request : Active(r) => ckpt.at # "none"

OneReview == \A x, y \in human : x.line = y.line => x = y

\* Only one caller drives the run, and the checkpoint is where that caller left it.
Alone ==
    /\ \A r, o \in Request : Active(r) /\ Active(o) => r = o
    /\ \A r \in Request : Active(r) => thread # "running"
    /\ thread = "running" => ckpt.at \in {"none", "working"}

\* Where the stored checkpoint is when its only caller is at position q: it may lag,
\* but a run that reads closed is one whose caller has come back.
InStep(q, at) ==
    /\ q.at = "queue" => q.answers
    /\ q.at = "run" => at = "working"
    /\ q.at \in {"answer", "apply", "applied", "close"} => at # "closed"
    /\ q.at = "teach" => at = "closed"

\* What a request that found a queue brings to it, and what became of it.
Brought(q) == {x \in q.body : x.line \in q.items}
Brings(q, c, reviews, taught) ==
    q.at \notin {"new", "over"} /\ q.items # {} =>
        /\ taught = {} /\ q.answers /\ q.at # "run"
        /\ q.at = "load" => c.at \in Waiting /\ c.queue = q.items
        /\ q.at \in {"answer", "apply"} => q.queue = q.items
        /\ q.at = "apply" => q.answer = q.body
        /\ q.at \in {"applied", "close", "teach"} => Brought(q) \subseteq reviews

TaughtWhenClosed == index # {} => ckpt.at = "closed"
Taught == /\ \A p \in index : \E x \in human : Confirms(x, p)
          /\ \A p, q \in index : p.line = q.line => p = q

InTurn ==
    /\ Alone
    /\ \A r \in Request : InStep(req[r], ckpt.at) /\ Brings(req[r], ckpt, human, index)
    /\ TaughtWhenClosed /\ Taught

IInv == TypeOK /\ Started /\ OneReview /\ (~ overlapped => InTurn)
-----------------------------------------------------------------------------
\* Nothing has happened at the start.
LEMMA InitInv == Init => IInv
<1> SUFFICES ASSUME Init PROVE IInv
    OBVIOUS
<1>1. New \in Position /\ New.at = "new"
    BY DEF New, Position
<1>2. TypeOK
    BY <1>1 DEF Init, TypeOK, Checkpoint
<1>3. \A r \in Request : req[r].at = "new" /\ ~ Active(r)
    BY <1>1 DEF Init, Active
<1>4. Started /\ OneReview /\ Alone /\ TaughtWhenClosed /\ Taught
    BY <1>3 DEF Init, Started, OneReview, Alone, TaughtWhenClosed, Taught
<1>5. \A r \in Request : InStep(req[r], ckpt.at) /\ Brings(req[r], ckpt, human, index)
    BY <1>3 DEF InStep, Brings
<1> QED BY <1>2, <1>4, <1>5 DEF IInv, InTurn

\* A step of a request keeps the invariant when it leaves the request, the checkpoint
\* and the index in step, as far as no other caller interferes.
LEMMA RequestInv ==
    ASSUME IInv, NEW r \in Request, Active(r), NEW new \in Position,
           req' = [req EXCEPT ![r] = new], UNCHANGED <<start, thread, handle, overlapped>>,
           ckpt' \in Checkpoint, ckpt'.at # "none",
           human' \subseteq Resolution, OneReview',
           ~ overlapped => /\ InStep(new, ckpt'.at) /\ Brings(new, ckpt', human', index')
                           /\ TaughtWhenClosed' /\ Taught'
    PROVE  IInv'
<1>1. req' \in [Request -> Position] /\ req'[r] = new
      /\ \A o \in Request : o # r => req'[o] = req[o]
    BY DEF IInv, TypeOK
<1>2. TypeOK'
    BY <1>1 DEF IInv, TypeOK
<1>3. \A o \in Request : Active(o)' => Active(o)
    BY <1>1 DEF Active
<1>4. Started'
    BY <1>3 DEF IInv, Started
<1>5. ASSUME ~ overlapped PROVE InTurn'
    <2>1. Alone'
        BY <1>3, <1>5 DEF IInv, InTurn, Alone
    <2>2. \A o \in Request : o # r => req'[o].at \in {"new", "over"}
        BY <1>1, <1>5 DEF IInv, InTurn, Alone, Active
    <2>3. \A o \in Request : InStep(req'[o], ckpt'.at) /\ Brings(req'[o], ckpt', human', index')
        BY <1>1, <1>5, <2>2 DEF InStep, Brings
    <2> QED BY <1>5, <2>1, <2>3 DEF InTurn
<1> QED BY <1>2, <1>4, <1>5 DEF IInv

\* A step of the server keeps it when no request moves, except those that end.
LEMMA ServerInv ==
    ASSUME IInv, UNCHANGED <<human, index, overlapped>>,
           req' \in [Request -> Position],
           \A r \in Request : req'[r] = req[r] \/ req'[r].at = "over",
           start' \in {"no", "row", "registered", "done"},
           thread' \in {"none", "running", "raised", "ended"},
           handle' \subseteq [error: BOOLEAN], ckpt' \in Checkpoint, Started',
           thread' = "running" => thread = "running" \/ start = "registered",
           thread' = "running" => ckpt'.at \in {"none", "working"},
           ckpt' # ckpt => thread = "running"
    PROVE  IInv'
<1>1. TypeOK' /\ OneReview'
    BY DEF IInv, TypeOK, OneReview
<1>2. \A r \in Request : Active(r)' => Active(r) /\ req'[r] = req[r]
    BY DEF Active
<1>3. ASSUME ~ overlapped PROVE InTurn'
    <2>1. Alone'
        <3>1. \A r \in Request : Active(r)' => thread' # "running"
            BY <1>2, <1>3 DEF IInv, InTurn, Alone, Started
        <3> QED BY <1>2, <1>3, <3>1 DEF IInv, InTurn, Alone
    <2>2. ASSUME NEW r \in Request
          PROVE  InStep(req'[r], ckpt'.at) /\ Brings(req'[r], ckpt', human', index')
        <3>1. CASE ~ Active(r)'
            BY <3>1 DEF Active, InStep, Brings
        <3>2. CASE Active(r)'
            <4>1. req'[r] = req[r] /\ ckpt' = ckpt
                BY <1>2, <1>3, <3>2 DEF IInv, InTurn, Alone
            <4> QED BY <1>3, <4>1 DEF IInv, InTurn
        <3> QED BY <3>1, <3>2
    <2>3. TaughtWhenClosed'
        BY <1>3 DEF IInv, InTurn, Alone, TaughtWhenClosed
    <2>4. Taught'
        BY <1>3 DEF IInv, InTurn, Taught
    <2> QED BY <2>1, <2>2, <2>3, <2>4 DEF InTurn
<1> QED BY <1>1, <1>3 DEF IInv

LEMMA BootInv ==
    ASSUME IInv, CreateRow \/ Register \/ StartThread
    PROVE  IInv'
<1>1. /\ start' \in {"row", "registered", "done"} /\ thread' \in {"none", "running"}
      /\ handle' \subseteq [error: BOOLEAN]
      /\ thread' = "running" => start = "registered"
    <2>1. thread = "none" /\ handle \subseteq [error: BOOLEAN]
        BY DEF IInv, TypeOK, Started, CreateRow, Register, StartThread
    <2>2. CASE CreateRow
        BY <2>1, <2>2 DEF CreateRow
    <2>3. CASE Register
        <3>1. {[error |-> FALSE]} \subseteq [error: BOOLEAN]
            OBVIOUS
        <3> QED BY <2>1, <2>3, <3>1 DEF Register
    <2>4. CASE StartThread
        BY <2>1, <2>4 DEF StartThread
    <2> QED BY <2>2, <2>3, <2>4
<1>2. UNCHANGED <<ckpt, human, index, req, overlapped>> /\ ckpt.at = "none"
    BY DEF IInv, Started, CreateRow, Register, StartThread, store
<1>3. Started'
    BY <1>2 DEF IInv, Started, Active, CreateRow, Register, StartThread
<1>4. req' \in [Request -> Position] /\ ckpt' \in Checkpoint /\ ckpt' = ckpt
      /\ \A r \in Request : req'[r] = req[r]
    BY <1>2 DEF IInv, TypeOK
<1>5. /\ start' \in {"no", "row", "registered", "done"}
      /\ thread' \in {"none", "running", "raised", "ended"}
      /\ thread' = "running" => ckpt'.at \in {"none", "working"}
    BY <1>1, <1>2
<1> QED BY <1>1, <1>2, <1>3, <1>4, <1>5, ServerInv

LEMMA WorkerInv ==
    ASSUME IInv, WorkerEnters \/ WorkerPauses \/ WorkerCloses
    PROVE  IInv'
<1>1. /\ thread = "running" /\ UNCHANGED <<start, handle, human, index, req, overlapped>>
      /\ thread' \in {"running", "ended"} /\ ckpt'.at # "none"
      /\ thread' = "running" => ckpt'.at = "working"
      /\ ckpt' \in Checkpoint
    <2>1. CASE WorkerEnters
        <3>1. [ckpt EXCEPT !.at = "working"] \in Checkpoint
              /\ [ckpt EXCEPT !.at = "working"].at = "working"
            BY DEF IInv, TypeOK, Checkpoint
        <3> QED BY <2>1, <3>1 DEF WorkerEnters, boot
    <2>2. CASE WorkerPauses
        <3>1. PICK q \in SUBSET Line \ {{}} : ckpt' = [at |-> "paused", queue |-> q, answer |-> {}]
            BY <2>2 DEF WorkerPauses
        <3> QED BY <2>2, <3>1 DEF WorkerPauses, Checkpoint
    <2>3. CASE WorkerCloses
        <3>1. [ckpt EXCEPT !.at = "closed"] \in Checkpoint
              /\ [ckpt EXCEPT !.at = "closed"].at = "closed"
            BY DEF IInv, TypeOK, Checkpoint
        <3> QED BY <2>3, <3>1 DEF WorkerCloses
    <2> QED BY <2>1, <2>2, <2>3
<1>2. Started'
    BY <1>1 DEF IInv, Started, Active
<1> QED BY <1>1, <1>2, ServerInv DEF IInv, TypeOK

LEMMA WorkerRaisesInv == ASSUME IInv, WorkerRaises PROVE IInv'
<1>1. thread = "running" /\ thread' = "raised" /\ UNCHANGED <<start, store, req, overlapped>>
      /\ handle' = {[h EXCEPT !.error = TRUE] : h \in handle}
    BY DEF WorkerRaises
<1>2. handle' \subseteq [error: BOOLEAN] /\ \E h \in handle' : h.error
    <2>1. PICK h \in handle : h \in [error: BOOLEAN]
        BY <1>1 DEF IInv, TypeOK, Started
    <2>2. [h EXCEPT !.error = TRUE] \in handle' /\ [h EXCEPT !.error = TRUE].error
        BY <1>1, <2>1
    <2>3. handle' \subseteq [error: BOOLEAN]
        BY <1>1 DEF IInv, TypeOK
    <2> QED BY <2>2, <2>3
<1>3. Started'
    BY <1>1, <1>2 DEF IInv, Started, Active, store
<1> QED BY <1>1, <1>2, <1>3, ServerInv DEF IInv, TypeOK, store

\* A restart leaves the checkpoint and the requests of other processes.
LEMMA RestartInv == ASSUME IInv, Restart PROVE IInv'
<1> DEFINE gone == [r \in Request |-> IF Active(r) /\ ~ req[r].cli THEN Over ELSE req[r]]
<1>1. start' = "done" /\ thread' = "none" /\ handle' = {} /\ UNCHANGED <<ckpt, human, index, overlapped>>
      /\ req' = gone
    BY DEF Restart, store
<1>2. Over \in Position /\ Over.at = "over"
    BY DEF Over, New, Position
<1>3. gone \in [Request -> Position] /\ \A r \in Request : gone[r] = req[r] \/ gone[r].at = "over"
    BY <1>2 DEF IInv, TypeOK
<1> HIDE DEF gone
<1>4. Started'
    BY <1>1, <1>3 DEF IInv, Started, Active
<1> QED BY <1>1, <1>3, <1>4, ServerInv DEF IInv, TypeOK

\* A request that begins while another caller drives the run makes them overlap.
LEMMA EnterInv ==
    ASSUME IInv, NEW r \in Request, NEW with \in Position, Enter(r, with),
           with.at \in {"queue", "load"}, with.items = {},
           with.at = "queue" => with.answers
    PROVE  IInv'
<1>1. /\ req[r].at = "new" /\ ckpt.at # "none" /\ req' = [req EXCEPT ![r] = with]
      /\ overlapped' = (overlapped \/ thread = "running" \/ \E o \in Request : Active(o))
      /\ UNCHANGED <<start, thread, handle, ckpt, human, index>>
    BY DEF Enter, boot, store
<1>2. req' \in [Request -> Position] /\ req'[r] = with
      /\ \A o \in Request : o # r => req'[o] = req[o]
    BY <1>1 DEF IInv, TypeOK
<1>3. TypeOK' /\ OneReview'
    <2>1. overlapped' \in BOOLEAN
        BY <1>1
    <2> QED BY <1>1, <1>2, <2>1 DEF IInv, TypeOK, OneReview
<1>4. Started'
    BY <1>1 DEF IInv, Started, Active
<1>5. ASSUME ~ overlapped' PROVE InTurn'
    <2>1. ~ overlapped /\ thread # "running" /\ \A o \in Request : ~ Active(o)
        BY <1>1, <1>5
    <2>2. \A o \in Request : Active(o)' => o = r
        BY <1>2, <2>1 DEF Active
    <2>3. Alone'
        BY <1>1, <2>1, <2>2 DEF Alone
    <2>4. \A o \in Request : InStep(req'[o], ckpt'.at) /\ Brings(req'[o], ckpt', human', index')
        BY <1>1, <1>2, <2>1 DEF IInv, InTurn, InStep, Brings
    <2>5. TaughtWhenClosed' /\ Taught'
        BY <1>1, <2>1 DEF IInv, InTurn, TaughtWhenClosed, Taught
    <2> QED BY <2>3, <2>4, <2>5 DEF InTurn
<1> QED BY <1>3, <1>4, <1>5 DEF IInv

LEMMA BeginInv ==
    ASSUME IInv, NEW r \in Request, Post(r) \/ Simulate(r) \/ Continue(r)
    PROVE  IInv'
<1>1. CASE Post(r)
    <2>1. PICK rs \in Resolutions : Enter(r, [New EXCEPT !.at = "queue", !.body = rs])
        BY <1>1 DEF Post
    <2> DEFINE with == [New EXCEPT !.at = "queue", !.body = rs]
    <2>2. rs \in SUBSET Resolution
        BY ResolutionsAssumption DEF Resolution
    <2>3. with \in Position /\ with.at = "queue" /\ with.items = {} /\ with.answers
        BY <2>2 DEF New, Position
    <2>4. Enter(r, with)
        BY <2>1
    <2> HIDE DEF with
    <2> QED BY <2>3, <2>4, EnterInv
<1>2. CASE Simulate(r)
    <2> DEFINE with == [New EXCEPT !.at = "queue", !.cli = TRUE]
    <2>1. with \in Position /\ with.at = "queue" /\ with.items = {} /\ with.answers
        BY DEF New, Position
    <2>2. Enter(r, with)
        BY <1>2 DEF Simulate
    <2> HIDE DEF with
    <2> QED BY <2>1, <2>2, EnterInv
<1>3. CASE Continue(r)
    <2> DEFINE with == [New EXCEPT !.at = "load", !.cli = TRUE, !.answers = FALSE]
    <2>1. with \in Position /\ with.at = "load" /\ with.items = {}
        BY DEF New, Position
    <2>2. Enter(r, with)
        BY <1>3 DEF Continue
    <2> HIDE DEF with
    <2> QED BY <2>1, <2>2, EnterInv
<1> QED BY <1>1, <1>2, <1>3

LEMMA SimulatedIsBody == \A items \in SUBSET Line : Simulated(items) \in SUBSET Resolution
<1> SUFFICES ASSUME NEW items \in SUBSET Line, NEW l \in items
             PROVE  [line |-> l, action |-> IF Top[l] = <<>> THEN "reject" ELSE "approve",
                     entries |-> Top[l]] \in Resolution
    BY DEF Simulated
<1>1. Top[l] \in Seq(Entry)
    BY PayerAssumption
<1> QED BY <1>1 DEF Resolution

\* What is read of a run that is not paused is empty.
LEMMA ReadQueueInv == ASSUME IInv, NEW r \in Request, ReadQueue(r) PROVE IInv'
<1> DEFINE items == IF ckpt.at \in Waiting THEN ckpt.queue ELSE {}
           body == IF req[r].cli THEN Simulated(items) ELSE req[r].body
           new == [req[r] EXCEPT !.at = "load", !.items = items, !.body = body]
<1>1. req[r] \in Position /\ ckpt \in Checkpoint
    BY DEF IInv, TypeOK
<1>2. items \in SUBSET Line
    BY <1>1 DEF Checkpoint
<1>3. body \in SUBSET Resolution
    BY <1>1, <1>2, SimulatedIsBody DEF Position
<1>4. Active(r) /\ req' = [req EXCEPT ![r] = new]
      /\ UNCHANGED <<start, thread, handle, overlapped, ckpt, human, index>>
    BY DEF ReadQueue, Active, boot, store
<1>5. items # {} => ckpt.at \in Waiting /\ ckpt.queue = items
    OBVIOUS
<1> HIDE DEF items, body
<1>6. new \in Position /\ new.at = "load" /\ new.items = items /\ new.answers = req[r].answers
    BY <1>1, <1>2, <1>3 DEF Position
<1> HIDE DEF new
<1>7. ~ overlapped => /\ InStep(new, ckpt'.at) /\ Brings(new, ckpt', human', index')
                      /\ TaughtWhenClosed' /\ Taught'
    <2>1. req[r].at = "queue"
        BY DEF ReadQueue
    <2> QED BY <1>4, <1>5, <1>6, <2>1
            DEF IInv, InTurn, InStep, Brings, TaughtWhenClosed, Taught, Waiting
<1>8. ckpt'.at # "none" /\ OneReview' /\ ckpt' \in Checkpoint /\ human' \subseteq Resolution
    BY <1>4 DEF IInv, Started, OneReview, TypeOK
<1> QED BY <1>4, <1>6, <1>7, <1>8, RequestInv

LEMMA LoadInv == ASSUME IInv, NEW r \in Request, Load(r) PROVE IInv'
<1> DEFINE next == NextStep(r)
           new == [req[r] EXCEPT !.at = next, !.queue = ckpt.queue, !.answer = ckpt.answer]
<1>1. req[r] \in Position /\ ckpt \in Checkpoint /\ Active(r) /\ req[r].at = "load"
    BY DEF IInv, TypeOK, Load, Active
<1>2. ckpt.at \in {"working", "paused", "answering", "answered", "applied", "closed"}
    BY <1>1 DEF IInv, Started, Checkpoint
<1>3. req' = [req EXCEPT ![r] = new]
      /\ UNCHANGED <<start, thread, handle, overlapped, human, index>>
    BY DEF Load, boot
<1>4. /\ ckpt.at = "working" => next = "run"
      /\ ckpt.at \in Waiting => next \in {"answer", "over", "apply"}
      /\ ckpt.at \in Waiting /\ req[r].answers => next = "answer"
      /\ ckpt.at = "answered" => next = "apply"
      /\ ckpt.at = "applied" => next = "close"
      /\ ckpt.at = "closed" => next = "teach"
    BY DEF NextStep, Waiting
<1> HIDE DEF next
<1>5. next \in {"run", "answer", "over", "apply", "close", "teach"}
    BY <1>2, <1>4 DEF Waiting
<1>6. /\ new \in Position /\ new.at = next /\ new.queue = ckpt.queue
      /\ new.items = req[r].items /\ new.body = req[r].body /\ new.answers = req[r].answers
    BY <1>1, <1>5 DEF Position, Checkpoint
<1> HIDE DEF new
<1>7. /\ ckpt' \in Checkpoint
      /\ ckpt' = ckpt \/ (ckpt.at \in Waiting /\ ckpt'.at = "answering")
    <2>1. CASE UNCHANGED ckpt
        BY <1>1, <2>1
    <2>2. CASE /\ ckpt.at \in Waiting /\ req[r].answers
               /\ ckpt' = [ckpt EXCEPT !.at = "answering", !.answer = req[r].body]
        BY <1>1, <2>2 DEF Checkpoint, Position
    <2> QED BY <2>1, <2>2 DEF Load
<1>8. ASSUME ~ overlapped PROVE InStep(new, ckpt'.at) /\ Brings(new, ckpt', human', index')
    <2>1. Brings(req[r], ckpt, human, index)
        BY <1>8 DEF IInv, InTurn
    <2>2. req[r].items # {} =>
            index = {} /\ req[r].answers /\ ckpt.at \in Waiting /\ ckpt.queue = req[r].items
        BY <1>1, <2>1 DEF Brings
    <2>3. InStep(new, ckpt'.at)
        BY <1>2, <1>4, <1>6, <1>7 DEF InStep, Waiting
    <2>4. Brings(new, ckpt', human', index')
        BY <1>3, <1>4, <1>6, <2>2 DEF Brings
    <2> QED BY <2>3, <2>4
<1>9. ~ overlapped => TaughtWhenClosed' /\ Taught'
    BY <1>3, <1>7 DEF IInv, InTurn, TaughtWhenClosed, Taught, Waiting
<1>10. ckpt'.at # "none" /\ OneReview' /\ human' \subseteq Resolution
    BY <1>1, <1>2, <1>3, <1>7 DEF IInv, OneReview, TypeOK
<1> QED BY <1>1, <1>3, <1>6, <1>7, <1>8, <1>9, <1>10, RequestInv

\* A run that goes on by itself had nothing to answer when its queue was read.
LEMMA RunOnInv == ASSUME IInv, NEW r \in Request, RunOn(r) PROVE IInv'
<1>1. PICK q \in SUBSET Line : \E at \in {"over", "answer"} :
        /\ ckpt' = [at |-> IF q = {} THEN "closed" ELSE "paused", queue |-> q, answer |-> {}]
        /\ req' = [req EXCEPT ![r].queue = q, ![r].at = IF q = {} THEN "teach" ELSE at]
    BY DEF RunOn
<1>2. PICK at \in {"over", "answer"} :
        /\ ckpt' = [at |-> IF q = {} THEN "closed" ELSE "paused", queue |-> q, answer |-> {}]
        /\ req' = [req EXCEPT ![r].queue = q, ![r].at = IF q = {} THEN "teach" ELSE at]
    BY <1>1
<1> DEFINE next == IF q = {} THEN "teach" ELSE at
           new == [req[r] EXCEPT !.queue = q, !.at = next]
<1>3. req[r] \in Position /\ Active(r) /\ req[r].at = "run"
    BY DEF IInv, TypeOK, RunOn, Active
<1>4. req' = [req EXCEPT ![r] = new] /\ UNCHANGED <<start, thread, handle, overlapped, human, index>>
    BY <1>2 DEF RunOn, boot
<1>5. /\ next \in {"teach", "answer", "over"}
      /\ next = "teach" => ckpt'.at = "closed"
      /\ next = "answer" => ckpt'.at = "paused"
      /\ ckpt' \in Checkpoint /\ ckpt'.at # "none"
    BY <1>2 DEF Checkpoint
<1> HIDE DEF next
<1>6. new \in Position /\ new.at = next /\ new.items = req[r].items
    BY <1>3, <1>5 DEF Position
<1> HIDE DEF new
<1>7. ASSUME ~ overlapped
      PROVE  /\ InStep(new, ckpt'.at) /\ Brings(new, ckpt', human', index')
             /\ TaughtWhenClosed' /\ Taught'
    <2>1. InStep(req[r], ckpt.at) /\ Brings(req[r], ckpt, human, index)
        BY <1>7 DEF IInv, InTurn
    <2>2. req[r].items = {} /\ ckpt.at = "working"
        BY <1>3, <2>1 DEF Brings, InStep
    <2>3. index = {} /\ index' = {}
        BY <1>4, <1>7, <2>2 DEF IInv, InTurn, TaughtWhenClosed
    <2> QED BY <1>5, <1>6, <2>2, <2>3 DEF InStep, Brings, TaughtWhenClosed, Taught
<1>8. OneReview' /\ human' \subseteq Resolution
    BY <1>4 DEF IInv, OneReview, TypeOK
<1> QED BY <1>3, <1>4, <1>5, <1>6, <1>7, <1>8, RequestInv

LEMMA AnswerInv == ASSUME IInv, NEW r \in Request, Answer(r) PROVE IInv'
<1> DEFINE new == [req[r] EXCEPT !.at = "apply", !.answer = req[r].body]
<1>1. req[r] \in Position /\ Active(r) /\ req[r].at = "answer"
    BY DEF IInv, TypeOK, Answer, Active
<1>2. /\ req' = [req EXCEPT ![r] = new]
      /\ ckpt' \in {ckpt, [at |-> "answered", queue |-> req[r].queue, answer |-> req[r].body]}
      /\ UNCHANGED <<start, thread, handle, overlapped, human, index>>
    BY DEF Answer, boot
<1>3. /\ new \in Position /\ new.at = "apply" /\ new.items = req[r].items
      /\ new.body = req[r].body /\ new.queue = req[r].queue /\ new.answer = req[r].body
      /\ new.answers = req[r].answers
    BY <1>1 DEF Position
<1> HIDE DEF new
<1>4. /\ ckpt' \in Checkpoint /\ ckpt'.at # "none"
      /\ ckpt.at # "closed" => ckpt'.at # "closed"
    BY <1>1, <1>2 DEF Checkpoint, Position, IInv, TypeOK, Started
<1>5. ASSUME ~ overlapped
      PROVE  /\ InStep(new, ckpt'.at) /\ Brings(new, ckpt', human', index')
             /\ TaughtWhenClosed' /\ Taught'
    <2>1. InStep(req[r], ckpt.at) /\ Brings(req[r], ckpt, human, index)
        BY <1>5 DEF IInv, InTurn
    <2>2. index = {} /\ index' = {}
        BY <1>1, <1>2, <1>5, <2>1 DEF IInv, InTurn, TaughtWhenClosed, InStep
    <2>3. req[r].items # {} => req[r].answers /\ req[r].queue = req[r].items
        BY <1>1, <2>1 DEF Brings
    <2>4. ckpt'.at # "closed"
        BY <1>1, <1>4, <2>1 DEF InStep
    <2> QED BY <1>2, <1>3, <2>2, <2>3, <2>4 DEF InStep, Brings, TaughtWhenClosed, Taught
<1>6. OneReview' /\ human' \subseteq Resolution
    BY <1>2 DEF IInv, OneReview, TypeOK
<1> QED BY <1>1, <1>2, <1>3, <1>4, <1>5, <1>6, RequestInv

\* The transaction takes the whole answer, and nothing that was reviewed before.
LEMMA ApplyInv == ASSUME IInv, NEW r \in Request, Apply(r) PROVE IInv'
<1> DEFINE new == [req[r] EXCEPT !.at = "applied"]
<1>1. req[r] \in Position /\ Active(r) /\ req[r].at = "apply"
    BY DEF IInv, TypeOK, Apply, Active
<1>2. /\ req' = [req EXCEPT ![r] = new] /\ human' = human \cup Applied(r)
      /\ UNCHANGED <<start, thread, handle, overlapped, ckpt, index>>
    BY DEF Apply, boot
<1>3. /\ new \in Position /\ new.at = "applied" /\ new.items = req[r].items
      /\ new.body = req[r].body /\ new.answers = req[r].answers
    BY <1>1 DEF Position
<1> HIDE DEF new
<1>4. human' \subseteq Resolution /\ OneReview'
    <2>1. Applied(r) \subseteq Resolution
        BY <1>1 DEF Applied, Position
    <2>2. \A x \in Applied(r) : \A y \in human \cup Applied(r) : y.line = x.line => y = x
        BY DEF Apply, Supersedable
    <2> QED BY <1>2, <2>1, <2>2 DEF IInv, TypeOK, OneReview
<1>5. ASSUME ~ overlapped
      PROVE  /\ InStep(new, ckpt'.at) /\ Brings(new, ckpt', human', index')
             /\ TaughtWhenClosed' /\ Taught'
    <2>1. InStep(req[r], ckpt.at) /\ Brings(req[r], ckpt, human, index)
        BY <1>5 DEF IInv, InTurn
    <2>2. req[r].items # {} => index = {} /\ req[r].answers /\ Brought(new) \subseteq human'
        BY <1>1, <1>2, <1>3, <2>1 DEF Brings, Brought, Applied
    <2>3. InStep(new, ckpt'.at)
        BY <1>1, <1>2, <1>3, <2>1 DEF InStep
    <2>4. Brings(new, ckpt', human', index')
        BY <1>2, <1>3, <2>2 DEF Brings
    <2>5. TaughtWhenClosed' /\ Taught'
        BY <1>2, <1>5 DEF IInv, InTurn, TaughtWhenClosed, Taught
    <2> QED BY <2>3, <2>4, <2>5
<1>6. ckpt' \in Checkpoint /\ ckpt'.at # "none"
    BY <1>1, <1>2 DEF IInv, TypeOK, Started
<1> QED BY <1>1, <1>2, <1>3, <1>4, <1>5, <1>6, RequestInv

LEMMA FinishInv == ASSUME IInv, NEW r \in Request, SaveApplied(r) \/ Close(r) PROVE IInv'
<1> DEFINE next == IF SaveApplied(r) THEN "close" ELSE "teach"
           new == [req[r] EXCEPT !.at = next]
<1>1. req[r] \in Position /\ Active(r) /\ req[r].at \in {"applied", "close"}
    BY DEF IInv, TypeOK, SaveApplied, Close, Active
<1>2. /\ req' = [req EXCEPT ![r] = new] /\ next \in {"close", "teach"}
      /\ UNCHANGED <<start, thread, handle, overlapped, human, index>>
    BY DEF SaveApplied, Close, boot
<1>3. /\ next = "close" => ckpt' \in {ckpt, [at |-> "applied", queue |-> req[r].queue,
                                          answer |-> req[r].answer]}
      /\ next = "teach" => ckpt' = [at |-> "closed", queue |-> req[r].queue,
                                   answer |-> req[r].answer]
      /\ next = "close" => req[r].at = "applied"
    BY DEF SaveApplied, Close
<1> HIDE DEF next
<1>4. /\ new \in Position /\ new.at = next /\ new.items = req[r].items
      /\ new.body = req[r].body /\ new.answers = req[r].answers
    BY <1>1, <1>2 DEF Position
<1> HIDE DEF new
<1>5. ckpt' \in Checkpoint /\ ckpt'.at # "none"
    BY <1>1, <1>2, <1>3 DEF Checkpoint, Position, IInv, TypeOK, Started
<1>6. next = "close" /\ ckpt.at # "closed" => ckpt'.at # "closed"
    BY <1>3
<1>7. next = "teach" => ckpt'.at = "closed"
    BY <1>3
<1>8. ASSUME ~ overlapped
      PROVE  /\ InStep(new, ckpt'.at) /\ Brings(new, ckpt', human', index')
             /\ TaughtWhenClosed' /\ Taught'
    <2>1. InStep(req[r], ckpt.at) /\ Brings(req[r], ckpt, human, index)
        BY <1>8 DEF IInv, InTurn
    <2>2. index = {} /\ index' = {}
        BY <1>1, <1>2, <1>8, <2>1 DEF IInv, InTurn, TaughtWhenClosed, InStep
    <2>3. req[r].items # {} => req[r].answers /\ Brought(new) \subseteq human
        BY <1>1, <1>4, <2>1 DEF Brings, Brought
    <2>4. InStep(new, ckpt'.at)
        BY <1>1, <1>2, <1>4, <1>6, <1>7, <2>1 DEF InStep
    <2>5. Brings(new, ckpt', human', index')
        BY <1>2, <1>4, <2>2, <2>3 DEF Brings
    <2> QED BY <2>2, <2>4, <2>5 DEF TaughtWhenClosed, Taught
<1>9. OneReview' /\ human' \subseteq Resolution
    BY <1>2 DEF IInv, OneReview, TypeOK
<1> QED BY <1>1, <1>2, <1>4, <1>5, <1>8, <1>9, RequestInv

\* A request that ends frees the run and changes nothing else.
LEMMA FailInv == ASSUME IInv, NEW r \in Request, Fail(r) PROVE IInv'
<1>1. /\ Active(r) /\ req' = [req EXCEPT ![r] = Over]
      /\ UNCHANGED <<start, thread, handle, overlapped, ckpt, human, index>>
    BY DEF Fail, boot, store
<1>2. Over \in Position /\ Over.at = "over"
    BY DEF Over, New, Position
<1>3. InStep(Over, ckpt'.at) /\ Brings(Over, ckpt', human', index')
    BY <1>2 DEF InStep, Brings
<1>4. ~ overlapped => TaughtWhenClosed' /\ Taught'
    BY <1>1 DEF IInv, InTurn, TaughtWhenClosed, Taught
<1>5. ckpt' \in Checkpoint /\ ckpt'.at # "none" /\ OneReview' /\ human' \subseteq Resolution
    BY <1>1 DEF IInv, TypeOK, Started, OneReview
<1> QED BY <1>1, <1>2, <1>3, <1>4, <1>5, RequestInv

\* A resolution teaches one party at most.
LEMMA OneParty == \A x : \A p, q \in PartyOf(x) : p = q
    BY DEF PartyOf

\* The pairs of a request that taught nothing yet come from reviews it committed.
LEMMA TeachInv == ASSUME IInv, NEW r \in Request, Teach(r) PROVE IInv'
<1>1. PICK some \in SUBSET (IF req[r].cli THEN {} ELSE Pairs(r)) : index' = index \cup some
    BY DEF Teach
<1>2. /\ Active(r) /\ req[r].at = "teach" /\ req' = [req EXCEPT ![r] = Over]
      /\ UNCHANGED <<start, thread, handle, overlapped, ckpt, human>>
    BY DEF Teach, boot, Active
<1>3. Over \in Position /\ Over.at = "over"
    BY DEF Over, New, Position
<1>4. InStep(Over, ckpt'.at) /\ Brings(Over, ckpt', human', index')
    BY <1>3 DEF InStep, Brings
<1>5. ckpt' \in Checkpoint /\ ckpt'.at # "none" /\ OneReview' /\ human' \subseteq Resolution
    BY <1>2 DEF IInv, TypeOK, Started, OneReview
<1>6. ASSUME ~ overlapped PROVE TaughtWhenClosed' /\ Taught'
    <2>1. InStep(req[r], ckpt.at) /\ Brings(req[r], ckpt, human, index)
        BY <1>6 DEF IInv, InTurn
    <2>2. TaughtWhenClosed'
        BY <1>2, <2>1 DEF TaughtWhenClosed, InStep
    <2>3. CASE req[r].items = {}
        <3>1. Pairs(r) = {}
            BY <2>3 DEF Pairs
        <3>2. index' = index
            BY <1>1, <3>1
        <3> QED BY <1>2, <1>6, <2>2, <3>2 DEF IInv, InTurn, Taught
    <2>4. CASE req[r].items # {}
        <3>1. index = {} /\ Brought(req[r]) \subseteq human
            BY <1>2, <2>1, <2>4 DEF Brings
        <3>2. \A p \in index' : p \in Pairs(r)
            BY <1>1, <3>1
        <3>3. \A p \in Pairs(r) : \E x \in Brought(req[r]) :
                 /\ x.action = "approve" /\ p.line = x.line /\ p.by = r
                 /\ p.party \in PartyOf(x)
                 /\ p = [line |-> p.line, party |-> p.party, by |-> p.by]
            <4> SUFFICES ASSUME NEW p \in Pairs(r)
                         PROVE  \E x \in Brought(req[r]) :
                                   /\ x.action = "approve" /\ p.line = x.line /\ p.by = r
                                   /\ p.party \in PartyOf(x)
                                   /\ p = [line |-> p.line, party |-> p.party, by |-> p.by]
                OBVIOUS
            <4>1. PICK x \in {y \in req[r].body : y.action = "approve" /\ y.line \in req[r].items} :
                     p \in {[line |-> x.line, party |-> z, by |-> r] : z \in PartyOf(x)}
                BY Zenon DEF Pairs
            <4>2. PICK z \in PartyOf(x) : p = [line |-> x.line, party |-> z, by |-> r]
                BY <4>1
            <4> QED BY <4>1, <4>2 DEF Brought
        <3>4. ASSUME NEW p \in index' PROVE \E x \in human : Confirms(x, p)
            BY <3>1, <3>2, <3>3 DEF Confirms
        <3>5. ASSUME NEW p \in index', NEW q \in index', p.line = q.line PROVE p = q
            <4>1. PICK x \in Brought(req[r]) :
                     /\ p.line = x.line /\ p.by = r /\ p.party \in PartyOf(x)
                     /\ p = [line |-> p.line, party |-> p.party, by |-> p.by]
                BY <3>2, <3>3
            <4>2. PICK y \in Brought(req[r]) :
                     /\ q.line = y.line /\ q.by = r /\ q.party \in PartyOf(y)
                     /\ q = [line |-> q.line, party |-> q.party, by |-> q.by]
                BY <3>2, <3>3
            <4>3. x = y
                BY <3>1, <3>5, <4>1, <4>2 DEF IInv, OneReview
            <4>4. p.party = q.party
                BY <4>1, <4>2, <4>3, OneParty
            <4> QED BY <3>5, <4>1, <4>2, <4>4
        <3> QED BY <1>2, <2>2, <3>4, <3>5 DEF Taught
    <2> QED BY <2>3, <2>4
<1> QED BY <1>2, <1>3, <1>4, <1>5, <1>6, RequestInv

LEMMA StutterInv == ASSUME IInv, UNCHANGED vars PROVE IInv'
<1>1. UNCHANGED <<start, thread, handle, ckpt, human, index, req, overlapped>>
    BY DEF vars, boot, store
<1>2. TypeOK' /\ Started' /\ OneReview'
    BY <1>1 DEF IInv, TypeOK, Started, OneReview, Active
<1>3. ~ overlapped' => InTurn'
    BY <1>1 DEF IInv, InTurn, Alone, Active, TaughtWhenClosed, Taught
<1> QED BY <1>2, <1>3 DEF IInv

\* Every step of the server and of every request keeps the invariant.
LEMMA StepInv == IInv /\ [Next]_vars => IInv'
<1> SUFFICES ASSUME IInv, [Next]_vars PROVE IInv'
    OBVIOUS
<1>1. CASE UNCHANGED vars
    BY <1>1, StutterInv
<1>2. CASE \/ CreateRow \/ Register \/ StartThread
           \/ WorkerEnters \/ WorkerPauses \/ WorkerCloses \/ WorkerRaises \/ Restart
    BY <1>2, BootInv, WorkerInv, WorkerRaisesInv, RestartInv
<1>3. ASSUME NEW r \in Request,
             \/ Post(r) \/ Simulate(r) \/ Continue(r) \/ ReadQueue(r) \/ Load(r) \/ RunOn(r)
             \/ Answer(r) \/ Apply(r) \/ SaveApplied(r) \/ Close(r) \/ Teach(r) \/ Fail(r)
      PROVE  IInv'
    <2>1. CASE Post(r) \/ Simulate(r) \/ Continue(r)
        BY <2>1, BeginInv
    <2>2. CASE ReadQueue(r) \/ Load(r) \/ RunOn(r) \/ Answer(r)
        BY <2>2, ReadQueueInv, LoadInv, RunOnInv, AnswerInv
    <2>3. CASE Apply(r) \/ SaveApplied(r) \/ Close(r) \/ Teach(r) \/ Fail(r)
        BY <2>3, ApplyInv, FinishInv, TeachInv, FailInv
    <2> QED BY <1>3, <2>1, <2>2, <2>3
<1> QED BY <1>1, <1>2, <1>3 DEF Next

LEMMA Inductive == Spec => []IInv
<1> QED BY InitInv, StepInv, PTL DEF Spec

\* FailureReported: the error of a worker that raised is where GET /runs/{id} looks for
\* it, whatever the server and the requests do (service.py 65-72).
THEOREM FailuresReported == Spec => []FailureReported
<1>1. IInv => FailureReported
    BY DEF IInv, Started, FailureReported
<1> QED BY <1>1, Inductive, PTL

\* OnlyApprovalsTaught: among requests that follow one another, the index learns only
\* what a committed approval confirms (app.py 198-199).
THEOREM ApprovalsTaught == Spec => []OnlyApprovalsTaught
<1>1. IInv => OnlyApprovalsTaught
    BY DEF IInv, InTurn, Taught, OnlyApprovalsTaught
<1> QED BY <1>1, Inductive, PTL

\* TaughtOnce: and learns it once, however often resolve is repeated (runner.py 202-208).
THEOREM EachTaughtOnce == Spec => []TaughtOnce
<1>1. IInv => TaughtOnce
    BY DEF IInv, InTurn, Taught, TaughtOnce
<1> QED BY <1>1, Inductive, PTL
=============================================================================
