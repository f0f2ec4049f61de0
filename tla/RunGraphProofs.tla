--------------------------- MODULE RunGraphProofs ---------------------------
(***************************************************************************)
(* Theorems about RunGraph, for every set of lines, entries and drivers and *)
(* every number of faults and overlapping drivers. First the types, the     *)
(* queue, and what resumed runs answer; then what a run leaves behind: what *)
(* is reviewed was reported, the trail follows the graph, the tiers stay    *)
(* apart, and a completed run has left no line out. With one driver at a    *)
(* time: the row tells where a call left the run, and the run keeps         *)
(* RunPromise. Wherever a run can go on from, the stored checkpoint and the *)
(* ones still to be stored, is one of its Places.                           *)
(***************************************************************************)
EXTENDS RunGraph, TLAPS

USE DetAssumption, OptionAssumption, AnswerAssumption, BoundAssumption

-----------------------------------------------------------------------------
\* A transaction's rows have the type of the decisions table.
LEMMA RowsType ==
    ASSUME NEW commits \in SUBSET Commit, txn \in Nat,
           NEW kind \in {"deterministic", "model", "escalated", "human"}
    PROVE  Rows(commits, kind) \subseteq Decision
BY DEF Rows, Commit, Decision

\* The rows apply_human inserts have the type of the decisions table.
LEMMA HumanRowsType ==
    ASSUME NEW s \in Channels, txn \in Nat
    PROVE  HumanRows(s) \subseteq Decision
<1> SUFFICES ASSUME NEW x \in HumanRows(s) PROVE x \in Decision
    OBVIOUS
<1>1. PICK r \in s.resolutions, q \in s.queue :
        x = [tx |-> txn + 1, line |-> q.line, entries |-> r.entries, sup |-> q.esc,
             kind |-> "human"]
    BY DEF HumanRows
<1>2. r \in Answer /\ q \in QueueItem
    BY DEF Channels
<1>3. r.entries \in SUBSET Entry /\ q.line \in Line /\ q.esc \in Nat
    BY <1>2 DEF QueueItem
<1> QED BY <1>1, <1>3 DEF Decision

\* A node's transaction keeps the three tables in their domains.
LEMMA PersistType ==
    ASSUME TypeOK, NEW rows \in SUBSET Decision, NEW n \in Node, Persist(rows, n)
    PROVE  txn' \in Nat /\ decisions' \subseteq Decision /\ events' \in Seq(Event)
BY DEF Persist, TypeOK, Event

\* A node that returns well-typed channels leaves well-typed memory.
LEMMA ReturnType ==
    ASSUME TypeOK, NEW d \in Driver, NEW s \in Channels, NEW n \in Node \cup {"end"},
           Return(d, s, n)
    PROVE  /\ st' \in [Driver -> Channels]
           /\ pc' \in [Driver -> PC]
           /\ pending' \subseteq Unsaved /\ made' \in Nat
<1>1. [by |-> d, id |-> made + 1, next |-> n, st |-> s] \in Unsaved
    BY DEF Unsaved, TypeOK
<1>2. (IF n = "end" THEN "exit" ELSE n) \in PC
    BY DEF PC
<1> QED BY <1>1, <1>2 DEF Return, TypeOK

\* A driver that leaves, or dies, leaves well-typed memory.
LEMMA LeaveType ==
    ASSUME TypeOK, NEW d \in Driver, Leave(d)
    PROVE  /\ pc' \in [Driver -> PC] /\ st' \in [Driver -> Channels]
           /\ answer' \in [Driver -> SUBSET Answer] /\ work' \in [Driver -> Work]
BY DEF Leave, TypeOK, PC, Node, Channels, NoChannels, NoWork, Work

-----------------------------------------------------------------------------
\* Every step keeps every variable in its domain.
LEMMA TypeInit == Init => TypeOK
BY DEF Init, TypeOK, Status, Node, PC, Channels, NoChannels, Work, NoWork, Checkpoint

\* Type correctness is inductive: one case per action.
LEMMA TypeStep == TypeOK /\ [Next]_vars => TypeOK'
<1> SUFFICES ASSUME TypeOK, [Next]_vars PROVE TypeOK'
    OBVIOUS
<1>0. \A d \in Driver : st[d] \in Channels /\ answer[d] \in SUBSET Answer
    BY DEF TypeOK
<1>1. CASE UNCHANGED vars
    BY <1>1 DEF TypeOK, vars, tables, thread, memory, bounds
<1>2. ASSUME NEW d \in Driver, CreateRun(d) PROVE TypeOK'
    BY <1>2 DEF TypeOK, CreateRun, Status, PC, thread, bounds
<1>3. ASSUME NEW d \in Driver, NEW a \in SUBSET Answer, Resume(d, a) PROVE TypeOK'
    <2>1. Given(a) \in SUBSET Answer
        BY DEF Given, TypeOK
    <2>2. resume' \in SUBSET Answer /\ answer' \in [Driver -> SUBSET Answer]
        BY <1>3, <2>1 DEF Resume, TypeOK
    <2>3. pc' \in [Driver -> PC] /\ st' \in [Driver -> Channels]
        BY <1>3 DEF Resume, TypeOK, PC, Checkpoint
    <2> QED BY <1>3, <2>2, <2>3 DEF TypeOK, Resume, tables
<1>4. ASSUME NEW d \in Driver, Fail(d) PROVE TypeOK'
    BY <1>4, LeaveType DEF TypeOK, Fail, tables, thread, bounds
<1>5. ASSUME NEW d \in Driver, EnterGraph(d) PROVE TypeOK'
    <2>1. NoChannels \in Channels
        BY DEF Channels, NoChannels
    <2> QED BY <1>5, <2>1, ReturnType DEF TypeOK, EnterGraph, tables, thread, bounds, Node
<1>6. ASSUME NEW d \in Driver, Save(d) PROVE TypeOK'
    <2>1. PICK c \in pending :
            /\ pending' = pending \ {c}
            /\ \/ ckpt' = [id |-> c.id, next |-> c.next, st |-> c.st] /\ resume' = {}
               \/ UNCHANGED thread
            /\ UNCHANGED <<tables, made, memory, bounds>>
        BY <1>6 DEF Save
    <2>2. c \in Unsaved
        BY DEF TypeOK
    <2>3. ckpt' \in Checkpoint /\ resume' \in SUBSET Answer
        BY <2>1, <2>2 DEF TypeOK, Unsaved, Checkpoint, thread
    <2> QED BY <2>1, <2>3 DEF TypeOK, tables, memory, bounds
<1>20. ASSUME NEW d \in Driver, Exit(d) PROVE TypeOK'
    BY <1>20, LeaveType DEF TypeOK, Exit, tables, thread, bounds
<1>7. ASSUME NEW d \in Driver, Ingest(d) PROVE TypeOK'
    <2>1. [NoChannels EXCEPT !.unmatched = Line] \in Channels
        BY DEF Channels, NoChannels
    <2> QED BY <1>7, <2>1, PersistType, ReturnType DEF TypeOK, Ingest, Node, thread, bounds
<1>8. ASSUME NEW d \in Driver, Deterministic(d) PROVE TypeOK'
    <2> DEFINE s == st[d]
               matched == {l \in s.unmatched : Det[l] # {}}
               commits == {[line |-> l, entries |-> Det[l]] : l \in matched}
               t == [s EXCEPT !.decided = @ \cup commits, !.unmatched = @ \ matched]
    <2>1. s \in Channels /\ commits \in SUBSET Commit
        BY DEF TypeOK, Channels, Commit
    <2>2. t \in Channels
        BY <2>1 DEF Channels
    <2>3. Rows(commits, "deterministic") \in SUBSET Decision
        BY <2>1, RowsType DEF TypeOK
    <2>4. Persist(Rows(commits, "deterministic"), "deterministic_tiers")
          /\ Return(d, t, "tier2_candidates")
          /\ UNCHANGED <<row, thread, answer, work, bounds>>
        BY <1>8 DEF Deterministic
    <2> HIDE DEF s, matched, commits, t
    <2>5. txn' \in Nat /\ decisions' \subseteq Decision /\ events' \in Seq(Event)
        BY <2>3, <2>4, PersistType DEF Node
    <2> QED BY <2>2, <2>4, <2>5, ReturnType DEF TypeOK, Node, thread, bounds
<1>9. ASSUME NEW d \in Driver, Candidates(d) PROVE TypeOK'
    <2>1. [st[d] EXCEPT !.cands = st[d].unmatched] \in Channels
        BY <1>0 DEF Channels
    <2> QED BY <1>9, <2>1, PersistType, ReturnType DEF TypeOK, Candidates, Node, thread, bounds
<1>10. ASSUME NEW d \in Driver, Adjudicate(d) PROVE TypeOK'
    <2>1. st' \in [Driver -> Channels] /\ pc' \in [Driver -> PC]
        <3> DEFINE h == st[d].unmatched # {} /\ 0 >= Ceiling
                   t == [st[d] EXCEPT !.halted = h]
        <3>0. h \in BOOLEAN
            OBVIOUS
        <3>1. t \in Channels
            <4> HIDE DEF h
            <4> QED BY <1>0, <3>0 DEF Channels
        <3>2. st' = [st EXCEPT ![d] = t] /\ pc' = [pc EXCEPT ![d] = "tier3_escalate"]
            BY <1>10 DEF Adjudicate
        <3> HIDE DEF t
        <3> QED BY <3>1, <3>2 DEF TypeOK, PC
    <2>2. work' \in [Driver -> Work]
        <3> DEFINE called == IF st[d].unmatched # {} /\ 0 >= Ceiling THEN {} ELSE st[d].unmatched
        <3>1. PICK out \in [called -> SUBSET Entry] :
                work' = [work EXCEPT ![d] =
                  [commits  |-> {[line |-> l, entries |-> out[l]] :
                                   l \in {m \in called : out[m] # {}}},
                   escalate |-> {l \in called : out[l] = {}}]]
            BY <1>10 DEF Adjudicate
        <3>2. called \subseteq Line
            BY DEF TypeOK, Channels
        <3> HIDE DEF called
        <3> QED BY <3>1, <3>2 DEF TypeOK, Work, Commit
    <2> QED BY <1>10, <2>1, <2>2 DEF Adjudicate, TypeOK, tables, thread, bounds
<1>11. ASSUME NEW d \in Driver, AdjudicateEscalate(d) PROVE TypeOK'
    <2> DEFINE rows == {[line |-> l, entries |-> {}] : l \in work[d].escalate}
    <2>1. rows \in SUBSET Commit
        BY DEF TypeOK, Work, Commit
    <2>2. Rows(rows, "escalated") \in SUBSET Decision
        BY <2>1, RowsType DEF TypeOK
    <2>3. decisions' = decisions \cup Rows(rows, "escalated")
        BY <1>11 DEF AdjudicateEscalate
    <2>4. {[line |-> l, esc |-> txn + 1] : l \in work[d].escalate} \subseteq QueueItem
        BY DEF TypeOK, Work, QueueItem
    <2>5. st' \in [Driver -> Channels]
        <3> DEFINE items == {[line |-> l, esc |-> txn + 1] : l \in work[d].escalate}
                   t == [st[d] EXCEPT !.queue = items]
        <3>1. t \in Channels
            <4> HIDE DEF items
            <4> QED BY <1>0, <2>4 DEF Channels, items
        <3>2. st' = [st EXCEPT ![d] = t]
            BY <1>11 DEF AdjudicateEscalate
        <3> HIDE DEF t
        <3> QED BY <3>1, <3>2 DEF TypeOK
    <2>6. /\ txn' = txn + 1 /\ pc' = [pc EXCEPT ![d] = "tier3_persist"]
          /\ UNCHANGED <<row, events, thread, pending, made, answer, work, bounds>>
        BY <1>11 DEF AdjudicateEscalate
    <2> HIDE DEF rows
    <2> QED BY <2>2, <2>3, <2>5, <2>6 DEF TypeOK, thread, bounds, PC
<1>12. ASSUME NEW d \in Driver, AdjudicatePersist(d) PROVE TypeOK'
    <2> DEFINE s == st[d]
               commits == work[d].commits
               matched == {c.line : c \in commits}
               t == [s EXCEPT !.decided = @ \cup commits, !.unmatched = @ \ matched]
    <2>1. s \in Channels /\ commits \in SUBSET Commit
        BY DEF TypeOK, Work
    <2>2. t \in Channels
        BY <2>1 DEF Channels
    <2>3. Rows(commits, "model") \in SUBSET Decision
        BY <2>1, RowsType DEF TypeOK
    <2>4. Persist(Rows(commits, "model"), "tier3_adjudicate")
          /\ Return(d, t, AfterAdjudication(s))
          /\ work' = [work EXCEPT ![d] = NoWork]
          /\ UNCHANGED <<row, thread, answer, bounds>>
        BY <1>12 DEF AdjudicatePersist
    <2>5. AfterAdjudication(s) \in Node \cup {"end"}
        BY DEF AfterAdjudication, Node
    <2> HIDE DEF s, matched, commits, t
    <2>6. txn' \in Nat /\ decisions' \subseteq Decision /\ events' \in Seq(Event)
        BY <2>3, <2>4, PersistType DEF Node
    <2> QED BY <2>2, <2>4, <2>5, <2>6, ReturnType DEF TypeOK, thread, bounds, Work, NoWork
<1>13. ASSUME NEW d \in Driver, Pause(d) PROVE TypeOK'
    BY <1>13 DEF Pause, TypeOK, Status, PC, thread, bounds
<1>14. ASSUME NEW d \in Driver, Answered(d) PROVE TypeOK'
    <2>1. [st[d] EXCEPT !.resolutions = answer[d]] \in Channels
        BY <1>0 DEF Channels
    <2> QED BY <1>14, <2>1, ReturnType DEF Answered, TypeOK, Status, Node, thread, bounds
<1>15. ASSUME NEW d \in Driver, ApplyHuman(d) PROVE TypeOK'
    BY <1>15 DEF ApplyHuman, TypeOK, Status, PC, thread, bounds
<1>16. ASSUME NEW d \in Driver, ApplyHumanCommit(d) PROVE TypeOK'
    <2> DEFINE s == st[d]
               rows == HumanRows(s)
               applied == {[line |-> x.line, entries |-> x.entries] : x \in rows}
               matched == {c.line : c \in {a \in applied : a.entries # {}}}
               t == [s EXCEPT !.decided = @ \cup applied, !.unmatched = @ \ matched]
    <2>1. s \in Channels /\ rows \in SUBSET Decision
        BY HumanRowsType DEF TypeOK
    <2>2. applied \in SUBSET Commit
        BY <2>1 DEF Decision, Commit
    <2>3. t \in Channels
        BY <2>1, <2>2 DEF Channels
    <2>4. Persist(rows, "apply_human") /\ Return(d, t, "close_run")
          /\ UNCHANGED <<row, thread, answer, work, bounds>>
        BY <1>16 DEF ApplyHumanCommit
    <2> HIDE DEF s, rows, applied, matched, t
    <2>5. txn' \in Nat /\ decisions' \subseteq Decision /\ events' \in Seq(Event)
        BY <2>1, <2>4, PersistType DEF Node
    <2> QED BY <2>3, <2>4, <2>5, ReturnType DEF TypeOK, Node, thread, bounds
<1>17. ASSUME NEW d \in Driver, ApplyHumanRejected(d) PROVE TypeOK'
    BY <1>17 DEF ApplyHumanRejected, TypeOK, PC, tables, thread, bounds
<1>18. ASSUME NEW d \in Driver, CloseRun(d) PROVE TypeOK'
    <2>1. st[d] \in Channels
        BY DEF TypeOK
    <2> QED BY <1>18, <2>1, PersistType, ReturnType
            DEF CloseRun, TypeOK, Node, Status, Terminal, thread, bounds
<1> QED
    BY <1>1, <1>2, <1>3, <1>4, <1>5, <1>6, <1>7, <1>8, <1>9, <1>10, <1>11, <1>12,
       <1>13, <1>14, <1>15, <1>16, <1>17, <1>18, <1>20
    DEF Next, Step, Continue, Resolve

\* Type correctness of the run graph (nodes.py, runner.py, 001_init.sql).
THEOREM TypeCorrect == Spec => []TypeOK
BY TypeInit, TypeStep, PTL DEF Spec
-----------------------------------------------------------------------------
\* Rows are only added, and a transaction's rows carry its number.
LEMMA DecisionsGrow ==
    ASSUME TypeOK, [Next]_vars PROVE decisions \subseteq decisions'
<1>1. \A d \in Driver : Step(d) => decisions \subseteq decisions'
    BY DEF Step, EnterGraph, Exit, Ingest, Deterministic, Candidates, Adjudicate,
           AdjudicateEscalate, AdjudicatePersist, Pause, Answered, ApplyHuman,
           ApplyHumanCommit, ApplyHumanRejected, CloseRun, Persist, tables
<1>2. \A d \in Driver : CreateRun(d) \/ Continue(d) \/ Resolve(d) \/ Save(d) \/ Fail(d)
                          => decisions \subseteq decisions'
    BY DEF CreateRun, Continue, Resolve, Resume, Save, Fail, tables
<1> QED BY <1>1, <1>2 DEF Next, vars, tables

\* A stored escalation stays stored (decisions is append-only).
LEMMA EscalatedStays ==
    ASSUME decisions \subseteq decisions', NEW line, NEW tx, Escalated(line, tx)
    PROVE  Escalated(line, tx)'
BY DEF Escalated

QueueOK(s) == \A q \in s.queue : Escalated(q.line, q.esc)

\* Channels that are queue-correct stay so while the tables grow.
LEMMA QueueOKStays ==
    ASSUME decisions \subseteq decisions', NEW s, QueueOK(s)
    PROVE  QueueOK(s)'
BY EscalatedStays DEF QueueOK

\* Where the run can be continued from: the stored checkpoint, and each of those
\* still to be stored.
Places == {<<ckpt.next, ckpt.st>>} \cup {<<c.next, c.st>> : c \in pending}

\* A node that returns adds the place it leads to.
LEMMA ReturnPlaces ==
    ASSUME NEW d, NEW s, NEW n, Return(d, s, n), UNCHANGED ckpt
    PROVE  Places' \subseteq Places \cup {<<n, s>>}
BY DEF Return, Places

\* Storing a checkpoint, or losing one, adds none.
LEMMA SavePlaces ==
    ASSUME NEW d, Save(d) \/ Fail(d)
    PROVE  Places' \subseteq Places
<1>1. CASE Save(d)
    <2>1. PICK c \in pending :
            /\ pending' = pending \ {c}
            /\ \/ ckpt' = [id |-> c.id, next |-> c.next, st |-> c.st]
               \/ UNCHANGED ckpt
        BY <1>1 DEF Save, thread
    <2>2. <<ckpt'.next, ckpt'.st>> \in Places
        BY <2>1 DEF Places
    <2> QED BY <2>1, <2>2 DEF Places
<1>2. CASE Fail(d)
    BY <1>2 DEF Fail, thread, Places
<1> QED BY <1>1, <1>2

QueuesInPlace == \A p \in Places : QueueOK(p[2])
QueuesInMemory == \A d \in Driver : QueueOK(st[d])

\* All channels are those of a place or of a driver.
LEMMA ChannelsByParts ==
    /\ AllChannels = {p[2] : p \in Places} \cup {st[d] : d \in Driver}
    /\ AllChannels' = {p[2] : p \in Places'} \cup {st'[d] : d \in Driver}
<1>a. ASSUME NEW k, NEW pend
      PROVE  {p[2] : p \in {<<k.next, k.st>>} \cup {<<c.next, c.st>> : c \in pend}}
               = {k.st} \cup {c.st : c \in pend}
    <2> DEFINE P == {<<k.next, k.st>>} \cup {<<c.next, c.st>> : c \in pend}
    <2>1. ASSUME NEW p \in P PROVE p[2] \in {k.st} \cup {c.st : c \in pend}
        OBVIOUS
    <2>2. k.st \in {p[2] : p \in P}
        <3>1. PICK p \in P : p = <<k.next, k.st>>
            OBVIOUS
        <3> QED BY <3>1
    <2>3. ASSUME NEW c \in pend PROVE c.st \in {p[2] : p \in P}
        <3>1. PICK p \in P : p = <<c.next, c.st>>
            OBVIOUS
        <3> QED BY <3>1
    <2> HIDE DEF P
    <2>4. \A s \in {p[2] : p \in P} : s \in {k.st} \cup {c.st : c \in pend}
        BY <2>1
    <2>5. \A s \in {k.st} \cup {c.st : c \in pend} : s \in {p[2] : p \in P}
        BY <2>2, <2>3
    <2>6. {p[2] : p \in P} = {k.st} \cup {c.st : c \in pend}
        BY <2>4, <2>5
    <2> QED BY <2>6 DEF P
<1>1. {p[2] : p \in Places} = {ckpt.st} \cup {c.st : c \in pending}
    BY <1>a DEF Places
<1>2. {p[2] : p \in Places'} = {ckpt'.st} \cup {c.st : c \in pending'}
    BY <1>a DEF Places
<1> QED BY <1>1, <1>2 DEF AllChannels

\* The parts of QueueIsEscalated.
LEMMA QueueByParts ==
    /\ QueuesInPlace /\ QueuesInMemory <=> QueueIsEscalated
    /\ QueuesInPlace' /\ QueuesInMemory' <=> QueueIsEscalated'
<1>1. QueueIsEscalated <=> \A s \in AllChannels : QueueOK(s)
    BY DEF QueueIsEscalated, QueueOK
<1>2. QueueIsEscalated' <=> \A s \in AllChannels' : QueueOK(s)'
    BY DEF QueueIsEscalated, QueueOK, Escalated
<1>3. QueuesInMemory' <=> \A s \in {st'[d] : d \in Driver} : QueueOK(s)'
    BY DEF QueuesInMemory, QueueOK, Escalated
<1>4. QueuesInPlace' <=> \A s \in {p[2] : p \in Places'} : QueueOK(s)'
    BY DEF QueuesInPlace, QueueOK, Escalated
<1>5. QueuesInMemory <=> \A s \in {st[d] : d \in Driver} : QueueOK(s)
    BY DEF QueuesInMemory
<1>6. QueuesInPlace <=> \A s \in {p[2] : p \in Places} : QueueOK(s)
    BY DEF QueuesInPlace
<1> QED BY ONLY <1>1, <1>2, <1>3, <1>4, <1>5, <1>6, ChannelsByParts

Act(d) == Step(d) \/ CreateRun(d) \/ Save(d) \/ Fail(d) \/ \E a \in SUBSET Answer : Resume(d, a)

\* Each step is one driver's.
LEMMA ActStep == [Next]_vars => UNCHANGED vars \/ \E d \in Driver : Act(d)
BY DEF Next, Continue, Resolve, Act

\* The drivers' memories are their own.
LEMMA OthersKeep ==
    ASSUME TypeOK, NEW d \in Driver, Act(d)
    PROVE  \A e \in Driver \ {d} : pc'[e] = pc[e] /\ st'[e] = st[e] /\ work'[e] = work[e]
<1>1. /\ pc \in [Driver -> PC] /\ st \in [Driver -> Channels]
      /\ work \in [Driver -> Work]
    BY DEF TypeOK
<1> DEFINE Others == \A e \in Driver \ {d} : pc'[e] = pc[e] /\ st'[e] = st[e] /\ work'[e] = work[e]
<1>2. ASSUME NEW s, NEW n, Return(d, s, n)
      PROVE  \A e \in Driver \ {d} : pc'[e] = pc[e] /\ st'[e] = st[e]
    BY <1>1, <1>2 DEF Return
<1>3. ASSUME Leave(d) PROVE Others
    BY <1>1, <1>3 DEF Leave
<1>4. ASSUME UNCHANGED work \/ work' = [work EXCEPT ![d] = NoWork]
      PROVE  \A e \in Driver \ {d} : work'[e] = work[e]
    BY <1>1, <1>4
<1>5. CASE CreateRun(d) \/ (\E a \in SUBSET Answer : Resume(d, a)) \/ ApplyHuman(d) \/ Pause(d)
           \/ ApplyHumanRejected(d)
    BY <1>1, <1>5 DEF CreateRun, Resume, ApplyHuman, Pause, ApplyHumanRejected
<1>6. CASE Fail(d) \/ Exit(d)
    BY <1>3, <1>6 DEF Fail, Exit
<1>7. CASE Save(d)
    BY <1>7 DEF Save, memory
<1>8. CASE EnterGraph(d) \/ Ingest(d) \/ Candidates(d) \/ Answered(d) \/ CloseRun(d)
    <2>1. \E s, n : Return(d, s, n)
        BY <1>8 DEF EnterGraph, Ingest, Candidates, Answered, CloseRun
    <2>2. UNCHANGED work
        BY <1>8 DEF EnterGraph, Ingest, Candidates, Answered, CloseRun
    <2> QED BY <1>2, <1>4, <2>1, <2>2
<1>9. CASE Deterministic(d) \/ AdjudicatePersist(d) \/ ApplyHumanCommit(d)
    <2>1. \E s, n : Return(d, s, n)
        BY <1>9 DEF Deterministic, AdjudicatePersist, ApplyHumanCommit
    <2>2. UNCHANGED work \/ work' = [work EXCEPT ![d] = NoWork]
        BY <1>9 DEF Deterministic, AdjudicatePersist, ApplyHumanCommit
    <2> QED BY <1>2, <1>4, <2>1, <2>2
<1>10. CASE Adjudicate(d)
    <2>1. \E h, w, p : /\ st' = [st EXCEPT ![d].halted = h] /\ work' = [work EXCEPT ![d] = w]
                       /\ pc' = [pc EXCEPT ![d] = p]
        BY <1>10 DEF Adjudicate
    <2> QED BY <1>1, <2>1
<1>11. CASE AdjudicateEscalate(d)
    <2>1. \E q, p : /\ st' = [st EXCEPT ![d].queue = q] /\ pc' = [pc EXCEPT ![d] = p]
                    /\ UNCHANGED work
        BY <1>11 DEF AdjudicateEscalate
    <2> QED BY <1>1, <2>1
<1> QED BY <1>5, <1>6, <1>7, <1>8, <1>9, <1>10, <1>11 DEF Step, Act

\* Where queues come from: a driver forgets its queue, keeps it, loads one, or is
\* in the escalating transaction. It hands on none of a node it has not left.
LEMMA QueueFlow ==
    ASSUME TypeOK, NEW d \in Driver, Act(d)
    PROVE  /\ \/ st'[d].queue = {}
              \/ st'[d].queue = st[d].queue
                 /\ (pc[d] = "tier3_persist" => pc'[d] = "tier3_persist" \/ AdjudicatePersist(d))
              \/ \E p \in Places : st'[d] = p[2]
              \/ AdjudicateEscalate(d)
           /\ \A p \in Places' : p \in Places \/ (p[2] = st'[d] /\ pc'[d] # "tier3_persist")
<1> DEFINE Flows == \/ st'[d].queue = {}
                    \/ st'[d].queue = st[d].queue
                       /\ (pc[d] = "tier3_persist" => pc'[d] = "tier3_persist" \/ AdjudicatePersist(d))
                    \/ \E p \in Places : st'[d] = p[2]
                    \/ AdjudicateEscalate(d)
           Hands == \A p \in Places' : p \in Places \/ (p[2] = st'[d] /\ pc'[d] # "tier3_persist")
<1> SUFFICES Flows /\ Hands
    OBVIOUS
<1>0. /\ \A e \in Driver : st[e] \in Channels
      /\ pc \in [Driver -> PC] /\ st \in [Driver -> Channels]
    BY DEF TypeOK
<1>k. ASSUME UNCHANGED <<ckpt, pending>> PROVE Hands
    <2>1. Places' = Places
        BY <1>k DEF Places
    <2> QED BY <2>1
<1>l. ASSUME Leave(d) PROVE Flows
    BY <1>0, <1>l DEF Leave, NoChannels
<1>r. ASSUME NEW t, NEW n \in Node \cup {"end"}, Return(d, t, n), UNCHANGED ckpt,
             t.queue = st[d].queue \/ t.queue = {}, pc[d] = "tier3_persist" => AdjudicatePersist(d)
      PROVE  Flows /\ Hands
    <2>1. st'[d] = t /\ pc'[d] # "tier3_persist"
        BY <1>0, <1>r DEF Return, Node
    <2>2. \A p \in Places' : p \in Places \/ p[2] = t
        BY <1>r, ReturnPlaces
    <2> QED BY <1>r, <2>1, <2>2
<1>1. CASE CreateRun(d) \/ ApplyHuman(d) \/ Pause(d) \/ ApplyHumanRejected(d)
    <2>1. UNCHANGED <<st, ckpt, pending>> /\ pc[d] # "tier3_persist"
        BY <1>1 DEF CreateRun, ApplyHuman, Pause, ApplyHumanRejected, thread
    <2> QED BY <1>k, <2>1
<1>2. CASE Fail(d) \/ Exit(d)
    <2>1. Leave(d)
        BY <1>2 DEF Fail, Exit
    <2>2. CASE Exit(d)
        <3>1. UNCHANGED <<ckpt, pending>>
            BY <2>2 DEF Exit, thread
        <3> QED BY <1>k, <3>1, <1>l, <2>1
    <2>3. CASE Fail(d)
        <3>1. Places' \subseteq Places
            BY <2>3, SavePlaces
        <3> QED BY <3>1, <1>l, <2>1
    <2> QED BY <1>2, <2>2, <2>3
<1>3. CASE Save(d)
    <2>1. UNCHANGED <<st, pc>>
        BY <1>3 DEF Save, memory
    <2> QED BY <1>3, <2>1, SavePlaces
<1>4. ASSUME NEW a, Resume(d, a) PROVE Flows /\ Hands
    <2>1. PICK p : p = <<ckpt.next, ckpt.st>>
        OBVIOUS
    <2>2. p \in Places
        BY <2>1 DEF Places
    <2>3. st'[d] = p[2] /\ UNCHANGED <<ckpt, pending>>
        BY <1>0, <1>4, <2>1 DEF Resume
    <2> QED BY <1>k, <2>2, <2>3
<1>5. CASE EnterGraph(d)
    BY <1>5, <1>r DEF EnterGraph, NoChannels, thread, Node
<1>6. CASE Ingest(d)
    BY <1>6, <1>r DEF Ingest, NoChannels, thread, Node
<1>7. CASE Deterministic(d)
    <2> DEFINE matched == {l \in st[d].unmatched : Det[l] # {}}
               commits == {[line |-> l, entries |-> Det[l]] : l \in matched}
               t == [st[d] EXCEPT !.decided = @ \cup commits, !.unmatched = @ \ matched]
    <2>1. Return(d, t, "tier2_candidates") /\ UNCHANGED ckpt /\ pc[d] # "tier3_persist"
        BY <1>7 DEF Deterministic, thread
    <2>2. t.queue = st[d].queue
        BY <1>0 DEF Channels
    <2> HIDE DEF t, Flows, Hands
    <2> QED BY <2>1, <2>2, <1>r DEF Node
<1>8. CASE Candidates(d)
    <2> DEFINE t == [st[d] EXCEPT !.cands = st[d].unmatched]
    <2>1. Return(d, t, "tier3_adjudicate") /\ UNCHANGED ckpt /\ pc[d] # "tier3_persist"
        BY <1>8 DEF Candidates, thread
    <2>2. t.queue = st[d].queue
        BY <1>0 DEF Channels
    <2> HIDE DEF t, Flows, Hands
    <2> QED BY <2>1, <2>2, <1>r DEF Node
<1>9. CASE Adjudicate(d)
    <2>1. PICK h : st' = [st EXCEPT ![d].halted = h]
        BY <1>9 DEF Adjudicate
    <2>2. st'[d].queue = st[d].queue
        BY <1>0, <2>1 DEF Channels
    <2>3. UNCHANGED <<ckpt, pending>> /\ pc[d] # "tier3_persist"
        BY <1>9 DEF Adjudicate, thread
    <2> QED BY <1>k, <2>2, <2>3
<1>10. CASE AdjudicateEscalate(d)
    BY <1>10, <1>k DEF AdjudicateEscalate, thread
<1>11. CASE AdjudicatePersist(d)
    <2> DEFINE matched == {c.line : c \in work[d].commits}
               t == [st[d] EXCEPT !.decided = @ \cup work[d].commits,
                                  !.unmatched = @ \ matched]
    <2>1. Return(d, t, AfterAdjudication(st[d])) /\ UNCHANGED ckpt
        BY <1>11 DEF AdjudicatePersist, thread
    <2>2. t.queue = st[d].queue
        BY <1>0 DEF Channels
    <2>3. AfterAdjudication(st[d]) \in Node
        BY DEF AfterAdjudication, Node
    <2> HIDE DEF t, Flows, Hands
    <2> QED BY <2>1, <2>2, <2>3, <1>r, <1>11
<1>12. CASE Answered(d)
    <2> DEFINE t == [st[d] EXCEPT !.resolutions = answer[d]]
    <2>1. Return(d, t, "apply_human") /\ UNCHANGED ckpt /\ pc[d] # "tier3_persist"
        BY <1>12 DEF Answered, thread
    <2>2. t.queue = st[d].queue
        BY <1>0 DEF Channels
    <2> HIDE DEF t, Flows, Hands
    <2> QED BY <2>1, <2>2, <1>r DEF Node
<1>13. CASE ApplyHumanCommit(d)
    <2> DEFINE rows == HumanRows(st[d])
               applied == {[line |-> x.line, entries |-> x.entries] : x \in rows}
               matched == {c.line : c \in {a \in applied : a.entries # {}}}
               t == [st[d] EXCEPT !.decided = @ \cup applied, !.unmatched = @ \ matched]
    <2>1. Return(d, t, "close_run") /\ UNCHANGED ckpt /\ pc[d] # "tier3_persist"
        BY <1>13 DEF ApplyHumanCommit, thread
    <2>2. t.queue = st[d].queue
        BY <1>0 DEF Channels
    <2> HIDE DEF t, Flows, Hands
    <2> QED BY <2>1, <2>2, <1>r DEF Node
<1>14. CASE CloseRun(d)
    BY <1>14, <1>r DEF CloseRun, thread
<1> QED BY <1>1, <1>2, <1>3, <1>4, <1>5, <1>6, <1>7, <1>8, <1>9, <1>10, <1>11, <1>12, <1>13,
           <1>14 DEF Act, Step

\* QueueIsEscalated is inductive: only the escalating transaction builds a
\* queue, every other action moves one between memory and the checkpoints.
LEMMA QueueStep == TypeOK /\ QueueIsEscalated /\ [Next]_vars => QueueIsEscalated'
<1> SUFFICES ASSUME TypeOK, QueueIsEscalated, [Next]_vars PROVE QueueIsEscalated'
    OBVIOUS
<1>a. (\A p \in Places : QueueOK(p[2])) /\ \A d \in Driver : QueueOK(st[d])
    BY QueueByParts DEF QueuesInPlace, QueuesInMemory
<1>b. \A s : QueueOK(s) => QueueOK(s)'
    BY DecisionsGrow, QueueOKStays
<1>1. CASE UNCHANGED vars
    BY <1>1 DEF vars, tables, thread, memory, QueueIsEscalated, AllChannels, Escalated
<1>2. ASSUME NEW d \in Driver, AdjudicateEscalate(d) PROVE QueueOK(st[d])'
    <2> DEFINE rows == {[line |-> l, entries |-> {}] : l \in work[d].escalate}
    <2>0. PICK items : items = {[line |-> l, esc |-> txn + 1] : l \in work[d].escalate}
        OBVIOUS
    <2>1. st'[d].queue = items /\ decisions' = decisions \cup Rows(rows, "escalated")
        BY <1>2, <2>0 DEF AdjudicateEscalate, TypeOK, Channels
    <2>2. ASSUME NEW q \in items PROVE Escalated(q.line, q.esc)'
        <3>1. PICK l \in work[d].escalate : q = [line |-> l, esc |-> txn + 1]
            BY <2>0
        <3>2. PICK c \in rows : c = [line |-> l, entries |-> {}]
            OBVIOUS
        <3>3. PICK x : x = [tx |-> txn + 1, line |-> c.line, entries |-> c.entries,
                            sup |-> 0, kind |-> "escalated"]
            OBVIOUS
        <3>4. x \in Rows(rows, "escalated") /\ x.kind = "escalated" /\ x.tx = txn + 1
              /\ x.line = l
            <4> HIDE DEF rows
            <4> QED BY <3>2, <3>3 DEF Rows
        <3>5. x \in decisions'
            BY <3>4, <2>1
        <3> QED BY <3>1, <3>4, <3>5 DEF Escalated
    <2> QED BY <2>1, <2>2 DEF QueueOK, Escalated
<1>3. ASSUME NEW d \in Driver, Act(d) PROVE QueueIsEscalated'
    <2>1. QueueOK(st[d])'
        <3>1. CASE st'[d].queue = {}
            BY <3>1 DEF QueueOK
        <3>2. CASE st'[d].queue = st[d].queue
            <4>1. PICK s : s = st[d]
                OBVIOUS
            <4>2. QueueOK(s)'
                BY <1>a, <1>b, <4>1
            <4> QED BY <3>2, <4>1, <4>2 DEF QueueOK, Escalated
        <3>3. ASSUME NEW p \in Places, st'[d] = p[2] PROVE QueueOK(st[d])'
            <4>1. QueueOK(p[2])'
                BY <1>a, <1>b
            <4> QED BY <3>3, <4>1 DEF QueueOK, Escalated
        <3> QED BY <1>2, <1>3, <3>1, <3>2, <3>3, QueueFlow
    <2>2. ASSUME NEW e \in Driver, e # d PROVE QueueOK(st[e])'
        <3>1. PICK s : s = st[e]
            OBVIOUS
        <3>2. QueueOK(s)'
            BY <1>a, <1>b, <3>1
        <3>3. st'[e] = s
            BY <1>3, <2>2, <3>1, OthersKeep
        <3> QED BY <3>2, <3>3 DEF QueueOK, Escalated
    <2>3. ASSUME NEW p \in Places' PROVE QueueOK(p[2])'
        <3>1. CASE p \in Places
            <4>1. PICK s : s = p[2]
                OBVIOUS
            <4>2. QueueOK(s)'
                BY <1>a, <1>b, <3>1, <4>1
            <4> QED BY <4>1, <4>2 DEF QueueOK, Escalated
        <3>2. CASE p[2] = st'[d]
            BY <2>1, <3>2 DEF QueueOK, Escalated
        <3> QED BY <1>3, <3>1, <3>2, QueueFlow
    <2>4. QueuesInPlace'
        BY <2>3 DEF QueuesInPlace, QueueOK, Escalated
    <2>5. QueuesInMemory'
        BY <2>1, <2>2 DEF QueuesInMemory
    <2> QED BY <2>4, <2>5, QueueByParts
<1> QED BY <1>1, <1>3, ActStep

\* Every queue item a reviewer can be shown names an escalation row of its line.
THEOREM QueueCorrect == Spec => []QueueIsEscalated
<1>1. Init => QueueIsEscalated
    BY DEF Init, QueueIsEscalated, AllChannels, NoChannels
<1> QED BY <1>1, QueueStep, TypeCorrect, PTL DEF Spec
-----------------------------------------------------------------------------
\* What one step can add to the decisions table.
LEMMA DecisionsStep ==
    ASSUME TypeOK, [Next]_vars
    PROVE  \/ decisions' = decisions /\ txn' \in {txn, txn + 1}
           \/ /\ txn' = txn + 1
              /\ \E commits \in SUBSET Commit, kind \in {"deterministic", "model", "escalated"} :
                    decisions' = decisions \cup Rows(commits, kind)
           \/ \E d \in Driver : ApplyHumanCommit(d)
<1> DEFINE Goal == \/ decisions' = decisions /\ txn' \in {txn, txn + 1}
                   \/ /\ txn' = txn + 1
                      /\ \E commits \in SUBSET Commit,
                            kind \in {"deterministic", "model", "escalated"} :
                            decisions' = decisions \cup Rows(commits, kind)
                   \/ \E d \in Driver : ApplyHumanCommit(d)
<1>1. CASE UNCHANGED vars
    BY <1>1 DEF vars, tables
<1>2. ASSUME NEW d \in Driver, CreateRun(d) \/ Continue(d) \/ Resolve(d) \/ Save(d) \/ Fail(d)
      PROVE  Goal
    BY <1>2 DEF CreateRun, Continue, Resolve, Resume, Save, Fail, tables
<1>3. ASSUME NEW d \in Driver, Deterministic(d) PROVE Goal
    <2> DEFINE matched == {l \in st[d].unmatched : Det[l] # {}}
               commits == {[line |-> l, entries |-> Det[l]] : l \in matched}
    <2>1. commits \in SUBSET Commit
        BY DEF TypeOK, Channels, Commit
    <2>2. Persist(Rows(commits, "deterministic"), "deterministic_tiers")
        BY <1>3 DEF Deterministic
    <2> HIDE DEF commits
    <2> QED BY <2>1, <2>2 DEF Persist
<1>4. ASSUME NEW d \in Driver, AdjudicateEscalate(d) PROVE Goal
    <2> DEFINE commits == {[line |-> l, entries |-> {}] : l \in work[d].escalate}
    <2>1. commits \in SUBSET Commit
        BY DEF TypeOK, Work, Commit
    <2>2. txn' = txn + 1 /\ decisions' = decisions \cup Rows(commits, "escalated")
        BY <1>4 DEF AdjudicateEscalate
    <2> HIDE DEF commits
    <2> QED BY <2>1, <2>2
<1>5. ASSUME NEW d \in Driver, AdjudicatePersist(d) PROVE Goal
    <2>1. work[d].commits \in SUBSET Commit
        BY DEF TypeOK, Work
    <2>2. Persist(Rows(work[d].commits, "model"), "tier3_adjudicate")
        BY <1>5 DEF AdjudicatePersist
    <2> QED BY <2>1, <2>2 DEF Persist
<1>6. ASSUME NEW d \in Driver, Step(d) PROVE Goal
    <2>1. Ingest(d) \/ Candidates(d) \/ CloseRun(d) => decisions' = decisions /\ txn' = txn + 1
        BY DEF Ingest, Candidates, CloseRun, Persist
    <2>2. EnterGraph(d) \/ Exit(d) \/ Adjudicate(d) \/ Pause(d) \/ Answered(d) \/ ApplyHuman(d)
            \/ ApplyHumanRejected(d) => decisions' = decisions /\ txn' = txn
        BY DEF EnterGraph, Exit, Adjudicate, Pause, Answered, ApplyHuman, ApplyHumanRejected, tables
    <2> QED BY <1>3, <1>4, <1>5, <1>6, <2>1, <2>2 DEF Step
<1> QED BY <1>1, <1>2, <1>6 DEF Next

\* The id sequence is ahead of every row stored so far.
IdsBelowTxn == \A x \in decisions : x.tx <= txn

\* The inductive invariant behind SupersedesSound: what a queue names exists,
\* and what exists is older than what the next transaction writes.
SupersedesInv == QueueIsEscalated /\ IdsBelowTxn /\ SupersedesSound

\* SupersedesInv is inductive: ApplyHumanCommit needs the index and the queue.
LEMMA SupersedesStep == TypeOK /\ SupersedesInv /\ [Next]_vars => SupersedesInv'
<1> SUFFICES ASSUME TypeOK, SupersedesInv, [Next]_vars PROVE SupersedesInv'
    OBVIOUS
<1>1. QueueIsEscalated' /\ decisions \subseteq decisions'
    BY QueueStep, DecisionsGrow DEF SupersedesInv
<1>2. txn \in Nat /\ \A x \in decisions : x \in Decision
    BY DEF TypeOK
<1>3. CASE decisions' = decisions /\ txn' \in {txn, txn + 1}
    <2>1. IdsBelowTxn'
        BY <1>2, <1>3 DEF SupersedesInv, IdsBelowTxn, Decision
    <2> QED BY <1>1, <1>3, <2>1 DEF SupersedesInv, SupersedesSound, Escalated
<1>4. ASSUME NEW commits \in SUBSET Commit, NEW kind \in {"deterministic", "model", "escalated"},
             txn' = txn + 1, decisions' = decisions \cup Rows(commits, kind)
      PROVE  SupersedesInv'
    <2>1. \A x \in Rows(commits, kind) : x.kind = kind /\ x.tx = txn + 1
        BY DEF Rows
    <2>2. IdsBelowTxn'
        BY <1>2, <1>4, <2>1 DEF SupersedesInv, IdsBelowTxn, Decision
    <2>3. SupersedesSound'
        <3>1. \A x \in decisions' : x.kind = "human" => x \in decisions
            BY <1>4, <2>1
        <3> QED BY <1>1, <3>1 DEF SupersedesInv, SupersedesSound, Escalated
    <2> QED BY <1>1, <2>2, <2>3 DEF SupersedesInv
<1>5. ASSUME NEW d \in Driver, ApplyHumanCommit(d) PROVE SupersedesInv'
    <2> DEFINE s == st[d]
    <2>1. /\ SupersedesUnique(s) /\ txn' = txn + 1
          /\ decisions' = decisions \cup HumanRows(s)
        BY <1>5 DEF ApplyHumanCommit, Persist
    <2>2. s \in Channels /\ QueueOK(s)
        BY QueueByParts DEF SupersedesInv, TypeOK, QueuesInMemory
    <2>3. ASSUME NEW x \in HumanRows(s)
          PROVE  /\ x.tx = txn + 1 /\ x.kind = "human"
                 /\ \E r \in s.resolutions, q \in s.queue :
                      /\ r.line = q.line /\ x.line = q.line /\ x.sup = q.esc
                      /\ x.entries = r.entries
                      /\ x = [tx |-> txn + 1, line |-> q.line, entries |-> r.entries,
                              sup |-> q.esc, kind |-> "human"]
        <3>1. PICK p \in s.resolutions \X s.queue :
                 /\ p[1].line = p[2].line
                 /\ x = [tx |-> txn + 1, line |-> p[2].line, entries |-> p[1].entries,
                         sup |-> p[2].esc, kind |-> "human"]
            BY DEF HumanRows
        <3>2. p[1] \in s.resolutions /\ p[2] \in s.queue
            OBVIOUS
        <3> QED BY <3>1, <3>2
    <2> HIDE DEF s
    <2>4. IdsBelowTxn'
        BY <1>2, <2>1, <2>3 DEF SupersedesInv, IdsBelowTxn, Decision
    <2>5. ASSUME NEW x \in decisions', x.kind = "human"
          PROVE  /\ Escalated(x.line, x.sup)' /\ x.sup < x.tx
                 /\ \A y \in decisions' :
                      y.kind = "human" /\ y.line = x.line /\ y.sup = x.sup => y = x
        <3>1. CASE x \in decisions
            <4>1. Escalated(x.line, x.sup)' /\ x.sup < x.tx
                BY <1>1, <2>5, <3>1 DEF SupersedesInv, SupersedesSound, Escalated
            <4>2. ASSUME NEW y \in HumanRows(s), y.line = x.line, y.sup = x.sup PROVE FALSE
                BY <2>1, <2>3, <3>1, <4>2 DEF SupersedesUnique
            <4> QED BY <2>1, <2>5, <3>1, <4>1, <4>2 DEF SupersedesInv, SupersedesSound
        <3>2. CASE x \in HumanRows(s)
            <4>1. PICK r \in s.resolutions, q \in s.queue :
                    /\ r.line = q.line /\ x.line = q.line /\ x.sup = q.esc
                    /\ x = [tx |-> txn + 1, line |-> q.line, entries |-> r.entries,
                            sup |-> q.esc, kind |-> "human"]
                BY <2>3, <3>2
            <4>2. Escalated(q.line, q.esc)
                BY <2>2 DEF QueueOK
            <4>3. PICK e \in decisions : e.kind = "escalated" /\ e.line = q.line /\ e.tx = q.esc
                BY <4>2 DEF Escalated
            <4>4. q.esc <= txn /\ q.esc \in Nat
                BY <4>3, <1>2 DEF SupersedesInv, IdsBelowTxn, Decision
            <4>5. Escalated(x.line, x.sup)' /\ x.sup < x.tx
                BY <1>1, <1>2, <2>3, <3>2, <4>1, <4>3, <4>4 DEF Escalated
            <4>6. ASSUME NEW y \in decisions, y.line = x.line, y.sup = x.sup PROVE FALSE
                BY <2>1, <4>1, <4>6 DEF SupersedesUnique
            <4>7. ASSUME NEW y \in HumanRows(s), y.line = x.line, y.sup = x.sup PROVE y = x
                <5>1. PICK r2 \in s.resolutions, q2 \in s.queue :
                        /\ r2.line = q2.line /\ y.line = q2.line /\ y.sup = q2.esc
                        /\ y = [tx |-> txn + 1, line |-> q2.line, entries |-> r2.entries,
                                sup |-> q2.esc, kind |-> "human"]
                    BY <2>3, <4>7
                <5>2. r2 = r
                    BY <2>1, <4>1, <4>7, <5>1 DEF SupersedesUnique
                <5> QED BY <4>1, <4>7, <5>1, <5>2
            <4> QED BY <2>1, <4>5, <4>6, <4>7
        <3> QED BY <2>1, <3>1, <3>2
    <2>6. SupersedesSound'
        BY <2>5 DEF SupersedesSound, Escalated
    <2> QED BY <1>1, <2>4, <2>6 DEF SupersedesInv
<1> QED BY <1>3, <1>4, <1>5, DecisionsStep

\* Whatever crashes, is executed again or overlaps: a human decision supersedes
\* an earlier escalation of its own line, and each escalation at most once.
THEOREM SupersedesCorrect == Spec => []SupersedesSound
<1>1. Init => SupersedesInv
    BY DEF Init, SupersedesInv, QueueIsEscalated, AllChannels, NoChannels, IdsBelowTxn,
           SupersedesSound
<1>2. SupersedesInv => SupersedesSound
    BY DEF SupersedesInv
<1> QED BY <1>1, <1>2, SupersedesStep, TypeCorrect, PTL DEF Spec
-----------------------------------------------------------------------------
\* The node whose event a driver at p comes to next.
EventOf(p) == IF p \in {"tier3_escalate", "tier3_persist"} THEN "tier3_adjudicate"
              ELSE IF p \in {"human_review", "apply_human_commit"} THEN "apply_human" ELSE p

\* Every step either leaves the trail alone or appends the event its driver has
\* come to.
LEMMA EventsStep ==
    ASSUME TypeOK, [Next]_vars
    PROVE  \/ UNCHANGED events
           \/ \E d \in Driver, n \in Node : \E rows \in SUBSET Decision :
                 n = EventOf(pc[d]) /\ Persist(rows, n)
<1> DEFINE Appends(d) == \E n \in Node : \E rows \in SUBSET Decision :
                            n = EventOf(pc[d]) /\ Persist(rows, n)
<1>1. UNCHANGED vars => UNCHANGED events
    BY DEF vars, tables
<1>2. ASSUME NEW d \in Driver,
             \/ CreateRun(d) \/ Save(d) \/ Fail(d) \/ EnterGraph(d) \/ Exit(d) \/ Adjudicate(d)
             \/ AdjudicateEscalate(d) \/ Pause(d) \/ Answered(d) \/ ApplyHuman(d)
             \/ ApplyHumanRejected(d) \/ \E a \in SUBSET Answer : Resume(d, a)
      PROVE  UNCHANGED events
    BY <1>2 DEF CreateRun, Save, Fail, EnterGraph, Exit, Adjudicate, AdjudicateEscalate, Pause,
                Answered, ApplyHuman, ApplyHumanRejected, Resume, tables
<1>3. ASSUME NEW d \in Driver, Ingest(d) \/ Candidates(d) \/ CloseRun(d) PROVE Appends(d)
    <2>1. PICK n \in Node : n = EventOf(pc[d]) /\ Persist({}, n)
        BY <1>3 DEF Ingest, Candidates, CloseRun, EventOf, Node
    <2> QED BY <2>1
<1>4. ASSUME NEW d \in Driver, Deterministic(d) PROVE Appends(d)
    <2> DEFINE matched == {l \in st[d].unmatched : Det[l] # {}}
               commits == {[line |-> l, entries |-> Det[l]] : l \in matched}
    <2>1. commits \in SUBSET Commit
        BY DEF TypeOK, Channels, Commit
    <2>2. Persist(Rows(commits, "deterministic"), "deterministic_tiers")
          /\ EventOf(pc[d]) = "deterministic_tiers"
        BY <1>4 DEF Deterministic, EventOf
    <2> HIDE DEF commits
    <2> QED BY <2>1, <2>2, RowsType DEF Node, TypeOK
<1>5. ASSUME NEW d \in Driver, AdjudicatePersist(d) PROVE Appends(d)
    <2>1. work[d].commits \in SUBSET Commit
        BY DEF TypeOK, Work
    <2>2. Persist(Rows(work[d].commits, "model"), "tier3_adjudicate")
          /\ EventOf(pc[d]) = "tier3_adjudicate"
        BY <1>5 DEF AdjudicatePersist, EventOf
    <2> QED BY <2>1, <2>2, RowsType DEF Node, TypeOK
<1>6. ASSUME NEW d \in Driver, ApplyHumanCommit(d) PROVE Appends(d)
    <2>1. Persist(HumanRows(st[d]), "apply_human") /\ EventOf(pc[d]) = "apply_human"
        BY <1>6 DEF ApplyHumanCommit, EventOf
    <2>2. HumanRows(st[d]) \subseteq Decision
        BY HumanRowsType DEF TypeOK
    <2> QED BY <2>1, <2>2 DEF Node
<1> HIDE DEF Appends
<1>7. ASSUME NEW d \in Driver, Act(d) PROVE UNCHANGED events \/ Appends(d)
    BY <1>2, <1>3, <1>4, <1>5, <1>6, <1>7 DEF Act, Step
<1>8. UNCHANGED events \/ \E d \in Driver : Appends(d)
    BY <1>1, <1>7, ActStep
<1> QED BY <1>8 DEF Appends

\* The trail after an append: what was there, and one more.
LEMMA TrailAppended ==
    ASSUME TypeOK, NEW rows, NEW n \in Node, Persist(rows, n)
    PROVE  /\ Len(events') = Len(events) + 1
           /\ \A i \in 1..Len(events) : events'[i] = events[i]
           /\ events'[Len(events) + 1] = [node |-> n, tx |-> txn + 1]
BY DEF Persist, TypeOK

-----------------------------------------------------------------------------
\* The trail reports an adjudication after each escalation the channels s put up.
Reported(s) == \A q \in s.queue : AdjudicationReported(q.esc, txn + 1)

ReportedInPlace  == \A p \in Places : Reported(p[2])
ReportedInMemory == \A d \in Driver : pc[d] # "tier3_persist" => Reported(st[d])
ReviewsReported  == \A x \in decisions : x.kind = "human" => AdjudicationReported(x.sup, x.tx)

\* The inductive invariant behind ReviewedIsReported: a queue leaves the node that
\* made it in the transaction that appends the node's event.
ReportedInv == ReportedInPlace /\ ReportedInMemory /\ ReviewsReported

\* Transactions are only added.
LEMMA TxnGrows ==
    ASSUME TypeOK, [Next]_vars PROVE txn' \in Nat /\ txn <= txn'
<1>1. txn \in Nat /\ \A d : ApplyHumanCommit(d) => txn' = txn + 1
    BY DEF TypeOK, ApplyHumanCommit, Persist
<1> QED BY <1>1, DecisionsStep

\* The trail only grows, so what it reports it goes on reporting.
LEMMA ReportedStays ==
    ASSUME TypeOK, [Next]_vars
    PROVE  /\ \A a, b : AdjudicationReported(a, b) => AdjudicationReported(a, b)'
           /\ \A s : Reported(s) => Reported(s)'
<1>0. Len(events) \in Nat /\ txn \in Nat /\ \A i \in 1..Len(events) : events[i].tx \in Nat
    <2>1. events \in Seq(Event) /\ txn \in Nat
        BY DEF TypeOK
    <2>2. \A i \in 1..Len(events) : events[i] \in Event
        BY <2>1
    <2> QED BY <2>1, <2>2 DEF Event
<1>1. Len(events') \in Nat /\ Len(events) <= Len(events')
      /\ \A i \in 1..Len(events) : events'[i] = events[i]
    <2>1. CASE UNCHANGED events
        BY <1>0, <2>1
    <2>2. ASSUME NEW n \in Node, NEW rows, Persist(rows, n)
          PROVE  Len(events') \in Nat /\ Len(events) <= Len(events')
                 /\ \A i \in 1..Len(events) : events'[i] = events[i]
        <3>1. Len(events') = Len(events) + 1 /\ \A i \in 1..Len(events) : events'[i] = events[i]
            BY <2>2, TrailAppended
        <3> QED BY <1>0, <3>1
    <2> QED BY <2>1, <2>2, EventsStep
<1>2. ASSUME NEW a, NEW b, AdjudicationReported(a, b) PROVE AdjudicationReported(a, b)'
    <2>1. PICK i \in 1..Len(events) :
            events[i].node = "tier3_adjudicate" /\ a < events[i].tx /\ events[i].tx < b
        BY <1>2 DEF AdjudicationReported
    <2>2. i \in 1..Len(events') /\ events'[i] = events[i]
        BY <1>0, <1>1
    <2> QED BY <2>1, <2>2 DEF AdjudicationReported
<1>3. ASSUME NEW a PROVE AdjudicationReported(a, txn + 1) => AdjudicationReported(a, txn + 1)'
    <2>1. SUFFICES ASSUME AdjudicationReported(a, txn + 1) PROVE AdjudicationReported(a, txn + 1)'
        OBVIOUS
    <2>2. PICK i \in 1..Len(events) :
            events[i].node = "tier3_adjudicate" /\ a < events[i].tx /\ events[i].tx < txn + 1
        BY <2>1 DEF AdjudicationReported
    <2>3. i \in 1..Len(events') /\ events'[i] = events[i]
        BY <1>0, <1>1
    <2>4. events[i].tx < txn' + 1
        BY <1>0, <2>2, TxnGrows
    <2> QED BY <2>2, <2>3, <2>4 DEF AdjudicationReported
<1> QED BY <1>2, <1>3 DEF Reported

\* The adjudication's event is appended before its queue is handed on.
LEMMA PersistReports ==
    ASSUME TypeOK, SupersedesInv, NEW d \in Driver, AdjudicatePersist(d), NEW q \in st[d].queue
    PROVE  AdjudicationReported(q.esc, txn + 1)'
<1>1. q.esc \in Nat /\ txn \in Nat /\ Len(events) \in Nat
    BY DEF TypeOK, Channels, QueueItem
<1>2. Escalated(q.line, q.esc)
    BY QueueByParts DEF SupersedesInv, QueuesInMemory, QueueOK
<1>3. q.esc <= txn
    BY <1>2 DEF SupersedesInv, IdsBelowTxn, Escalated
<1>4. PICK rows : Persist(rows, "tier3_adjudicate")
    BY DEF AdjudicatePersist
<1>5. /\ Len(events') = Len(events) + 1 /\ txn' = txn + 1
      /\ events'[Len(events) + 1] = [node |-> "tier3_adjudicate", tx |-> txn + 1]
    BY <1>4, TrailAppended DEF Persist, Node
<1>6. Len(events) + 1 \in 1..Len(events')
    BY <1>1, <1>5
<1>7. PICK i \in 1..Len(events') : events'[i] = [node |-> "tier3_adjudicate", tx |-> txn + 1]
    BY <1>5, <1>6
<1>8. q.esc < events'[i].tx /\ events'[i].tx < txn' + 1 /\ events'[i].node = "tier3_adjudicate"
    BY <1>1, <1>3, <1>5, <1>7
<1> QED BY <1>8 DEF AdjudicationReported

\* Human rows replace what their queue puts up.
LEMMA ReviewsStep ==
    ASSUME TypeOK, ReportedInv, [Next]_vars
    PROVE  ReviewsReported'
<1>1. \A a, b : AdjudicationReported(a, b) => AdjudicationReported(a, b)'
    BY ReportedStays
<1>2. ASSUME NEW x \in decisions, x.kind = "human" PROVE AdjudicationReported(x.sup, x.tx)'
    <2>1. PICK a, b : a = x.sup /\ b = x.tx
        OBVIOUS
    <2>2. AdjudicationReported(a, b)
        BY <1>2, <2>1 DEF ReportedInv, ReviewsReported
    <2>3. AdjudicationReported(a, b)'
        BY <1>1, <2>2
    <2> QED BY <2>1, <2>3 DEF AdjudicationReported
<1>3. ASSUME NEW d \in Driver, ApplyHumanCommit(d), NEW x \in HumanRows(st[d])
      PROVE  AdjudicationReported(x.sup, x.tx)'
    <2>1. PICK q \in st[d].queue : x.sup = q.esc /\ x.tx = txn + 1
        BY DEF HumanRows
    <2>2. pc[d] # "tier3_persist"
        BY <1>3 DEF ApplyHumanCommit
    <2>3. AdjudicationReported(q.esc, txn + 1)
        BY <2>2 DEF ReportedInv, ReportedInMemory, Reported
    <2>4. PICK a, b : a = x.sup /\ b = x.tx
        OBVIOUS
    <2>5. AdjudicationReported(a, b)
        BY <2>1, <2>3, <2>4
    <2>6. AdjudicationReported(a, b)'
        BY <1>1, <2>5
    <2> QED BY <2>4, <2>6 DEF AdjudicationReported
<1>4. ASSUME NEW x \in decisions', x.kind = "human" PROVE AdjudicationReported(x.sup, x.tx)'
    <2>1. CASE decisions' = decisions
        BY <1>2, <1>4, <2>1
    <2>2. ASSUME NEW commits, NEW kind \in {"deterministic", "model", "escalated"},
                 decisions' = decisions \cup Rows(commits, kind)
          PROVE  x \in decisions
        BY <1>4, <2>2 DEF Rows
    <2>3. ASSUME NEW d \in Driver, ApplyHumanCommit(d) PROVE x \in decisions \/ x \in HumanRows(st[d])
        BY <1>4, <2>3 DEF ApplyHumanCommit, Persist
    <2> QED BY <1>2, <1>3, <1>4, <2>1, <2>2, <2>3, DecisionsStep
<1> QED BY <1>4 DEF ReviewsReported

\* Every step keeps what is put up for review reported.
LEMMA ReportedStep ==
    ASSUME TypeOK, SupersedesInv, ReportedInv, [Next]_vars
    PROVE  ReportedInv'
<1>1. \A s : Reported(s) => Reported(s)'
    BY ReportedStays
<1>2. CASE UNCHANGED vars
    BY <1>2 DEF vars, tables, thread, memory, ReportedInv, ReportedInPlace, ReportedInMemory,
                ReviewsReported, Reported, AdjudicationReported, Places
<1>3. ASSUME NEW d \in Driver, Act(d) PROVE ReportedInPlace' /\ ReportedInMemory'
    <2>1. ASSUME NEW t, Reported(t), st'[d].queue = t.queue PROVE Reported(st[d])'
        <3>1. Reported(t)'
            BY <1>1, <2>1
        <3> QED BY <2>1, <3>1 DEF Reported, AdjudicationReported
    <2>2. pc'[d] # "tier3_persist" => Reported(st[d])'
        <3>1. CASE st'[d].queue = {}
            BY <3>1 DEF Reported
        <3>2. CASE st'[d].queue = st[d].queue /\ pc[d] # "tier3_persist"
            <4>1. PICK t : t = st[d]
                OBVIOUS
            <4>2. Reported(t)
                BY <3>2, <4>1 DEF ReportedInv, ReportedInMemory
            <4> QED BY <2>1, <3>2, <4>1, <4>2
        <3>3. CASE st'[d].queue = st[d].queue /\ AdjudicatePersist(d)
            <4>1. \A q \in st[d].queue : AdjudicationReported(q.esc, txn + 1)'
                BY <3>3, PersistReports
            <4> QED BY <3>3, <4>1 DEF Reported, AdjudicationReported
        <3>4. ASSUME NEW p \in Places, st'[d] = p[2] PROVE Reported(st[d])'
            <4>1. PICK t : t = p[2]
                OBVIOUS
            <4>2. Reported(t)
                BY <4>1 DEF ReportedInv, ReportedInPlace
            <4> QED BY <2>1, <3>4, <4>1, <4>2
        <3>5. CASE AdjudicateEscalate(d)
            BY <3>5 DEF AdjudicateEscalate, TypeOK
        <3> QED BY <1>3, <3>1, <3>2, <3>3, <3>4, <3>5, QueueFlow
    <2>3. ASSUME NEW e \in Driver, e # d, pc'[e] # "tier3_persist" PROVE Reported(st[e])'
        <3>1. PICK t : t = st[e]
            OBVIOUS
        <3>2. pc'[e] = pc[e] /\ st'[e] = t
            BY <1>3, <2>3, <3>1, OthersKeep
        <3>3. Reported(t)'
            BY <1>1, <2>3, <3>1, <3>2 DEF ReportedInv, ReportedInMemory
        <3> QED BY <3>2, <3>3 DEF Reported, AdjudicationReported
    <2>4. ASSUME NEW p \in Places' PROVE Reported(p[2])'
        <3>1. CASE p \in Places
            <4>1. PICK t : t = p[2]
                OBVIOUS
            <4>2. Reported(t)'
                BY <1>1, <3>1, <4>1 DEF ReportedInv, ReportedInPlace
            <4> QED BY <4>1, <4>2 DEF Reported, AdjudicationReported
        <3>2. CASE p[2] = st'[d] /\ pc'[d] # "tier3_persist"
            BY <2>2, <3>2 DEF Reported, AdjudicationReported
        <3> QED BY <1>3, <3>1, <3>2, QueueFlow
    <2>5. ReportedInPlace'
        BY <2>4 DEF ReportedInPlace, Reported, AdjudicationReported
    <2>6. ReportedInMemory'
        BY <2>2, <2>3 DEF ReportedInMemory
    <2> QED BY <2>5, <2>6
<1>4. ReviewsReported'
    BY ReviewsStep
<1> QED BY <1>2, <1>3, <1>4, ActStep DEF ReportedInv

\* Whoever drives the run and wherever it dies: what a reviewer is asked about, and
\* what a human decision replaces, is an escalation the trail has reported.
THEOREM ReviewedReported == Spec => []ReviewedIsReported
<1>1. Init => ReportedInv /\ SupersedesInv
    BY DEF Init, ReportedInv, ReportedInPlace, ReportedInMemory, ReviewsReported, Reported, Places,
           NoChannels, SupersedesInv, QueueIsEscalated, AllChannels, IdsBelowTxn, SupersedesSound
<1>2. ReportedInv => ReviewedIsReported
    <2> SUFFICES ASSUME ReportedInv PROVE ReviewedIsReported
        OBVIOUS
    <2>1. PICK p : p = <<ckpt.next, ckpt.st>>
        OBVIOUS
    <2>2. p \in Places
        BY <2>1 DEF Places
    <2>3. Reported(ckpt.st)
        BY <2>1, <2>2 DEF ReportedInv, ReportedInPlace
    <2> QED BY <2>3 DEF ReviewedIsReported, ReportedInv, ReviewsReported, Reported
<1> QED BY <1>1, <1>2, SupersedesStep, ReportedStep, TypeCorrect, PTL DEF Spec
-----------------------------------------------------------------------------
\* The graph runs the node with event n first, or after one whose event is there.
Ready(n) == n # "ingest" => \E j \in 1..Len(events) : <<events[j].node, n>> \in Edge

\* The positions that come to an event.
Underway == Node \cup {"tier3_escalate", "tier3_persist", "apply_human_commit"}
OnTrack(p) == p \in Underway => Ready(EventOf(p))

TracksPlaces  == \A p \in Places : OnTrack(p[1])
TracksDrivers == \A d \in Driver : OnTrack(pc[d])

\* Wherever the run goes on, in memory or from a checkpoint, it goes on in order.
TrailInv == EventsFollowGraph /\ TracksPlaces /\ TracksDrivers

\* The trail only grows.
LEMMA ReadyStays ==
    ASSUME TypeOK, [Next]_vars
    PROVE  \A p : OnTrack(p) => OnTrack(p)'
<1>1. CASE UNCHANGED events
    BY <1>1 DEF OnTrack, Ready
<1>2. ASSUME NEW rows, NEW n \in Node, Persist(rows, n), NEW p, OnTrack(p) PROVE OnTrack(p)'
    <2>1. Len(events) \in Nat
        BY DEF TypeOK
    <2>2. /\ Len(events') = Len(events) + 1
          /\ \A i \in 1..Len(events) : events'[i] = events[i]
        BY <1>2, TrailAppended
    <2>3. ASSUME NEW m, Ready(m), m # "ingest" PROVE Ready(m)'
        <3>1. PICK j \in 1..Len(events) : <<events[j].node, m>> \in Edge
            BY <2>3 DEF Ready
        <3>2. j \in 1..Len(events') /\ events'[j] = events[j]
            BY <2>1, <2>2
        <3>3. <<events'[j].node, m>> \in Edge
            BY <3>1, <3>2
        <3> QED BY <3>2, <3>3 DEF Ready
    <2> QED BY <1>2, <2>3 DEF OnTrack, Ready
<1> QED BY <1>1, <1>2, EventsStep

\* A node's event makes its successors ready.
LEMMA SuccessorReady ==
    ASSUME TypeOK, NEW rows, NEW n \in Node, Persist(rows, n), NEW m, <<n, m>> \in Edge
    PROVE  Ready(m)'
<1>1. Len(events) \in Nat
    BY DEF TypeOK
<1>2. Len(events') = Len(events) + 1 /\ events'[Len(events) + 1] = [node |-> n, tx |-> txn + 1]
    BY TrailAppended
<1>3. Len(events) + 1 \in 1..Len(events')
    BY <1>1, <1>2
<1> QED BY <1>2, <1>3 DEF Ready

\* One driver moves on to what it is ready for, and hands on what it is ready for.
LEMMA MoveOnTrack ==
    ASSUME TypeOK, TrailInv, [Next]_vars, NEW d \in Driver, Act(d), OnTrack(pc[d])',
           \A p \in Places' : p \in Places \/ OnTrack(p[1])'
    PROVE  TracksPlaces' /\ TracksDrivers'
<1>1. \A q : OnTrack(q) => OnTrack(q)'
    BY ReadyStays
<1>2. ASSUME NEW e \in Driver PROVE OnTrack(pc[e])'
    <2>1. CASE e = d
        BY <2>1
    <2>2. CASE e # d
        <3>1. PICK q : q = pc[e]
            OBVIOUS
        <3>2. OnTrack(q)'
            BY <1>1, <3>1 DEF TrailInv, TracksDrivers
        <3>3. pc'[e] = q
            BY <2>2, <3>1, OthersKeep
        <3> QED BY <3>2, <3>3 DEF OnTrack, Ready
    <2> QED BY <2>1, <2>2
<1>3. ASSUME NEW p \in Places' PROVE OnTrack(p[1])'
    <2>1. CASE p \in Places
        <3>1. PICK q : q = p[1]
            OBVIOUS
        <3>2. OnTrack(q)'
            BY <1>1, <2>1, <3>1 DEF TrailInv, TracksPlaces
        <3> QED BY <3>1, <3>2 DEF OnTrack, Ready
    <2> QED BY <2>1
<1>4. TracksPlaces'
    BY <1>3 DEF TracksPlaces, OnTrack, Ready
<1>5. TracksDrivers'
    BY <1>2 DEF TracksDrivers
<1> QED BY <1>4, <1>5

\* Each step leaves the checkpoints and every driver in order.
LEMMA TrackStep ==
    ASSUME TypeOK, TrailInv, [Next]_vars
    PROVE  TracksPlaces' /\ TracksDrivers'
<1> DEFINE Goal == TracksPlaces' /\ TracksDrivers'
<1> SUFFICES Goal
    OBVIOUS
<1>0. /\ \A p \in Places : OnTrack(p[1])
      /\ \A e \in Driver : OnTrack(pc[e])
      /\ \A p : OnTrack(p) => OnTrack(p)'
      /\ pc \in [Driver -> PC]
    BY ReadyStays DEF TrailInv, TracksPlaces, TracksDrivers, TypeOK
<1>a. \A p : p \notin Underway \/ p = "ingest" => OnTrack(p)'
    BY DEF OnTrack, Ready, EventOf, Underway
<1>b. ASSUME NEW d \in Driver, Act(d), NEW p, pc'[d] = p, OnTrack(p)', UNCHANGED <<ckpt, pending>>
      PROVE  Goal
    <2>1. OnTrack(pc[d])'
        BY <1>b DEF OnTrack, Ready
    <2>2. Places' = Places
        BY <1>b DEF Places
    <2> QED BY <1>b, <2>1, <2>2, MoveOnTrack
<1>c. ASSUME NEW d \in Driver, Act(d), NEW s, NEW g \in Node \cup {"end"}, Return(d, s, g),
             UNCHANGED ckpt, OnTrack(g)'
      PROVE  Goal
    <2>1. OnTrack(pc[d])'
        <3>1. pc'[d] = g \/ pc'[d] = "exit"
            BY <1>0, <1>c DEF Return
        <3>2. OnTrack("exit")'
            BY <1>a DEF Underway, Node
        <3> QED BY <1>c, <3>1, <3>2 DEF OnTrack, Ready
    <2>2. \A p \in Places' : p \in Places \/ OnTrack(p[1])'
        <3>1. \A p \in Places' : p \in Places \/ p = <<g, s>>
            BY <1>c, ReturnPlaces
        <3>2. \A p : p = <<g, s>> => p[1] = g
            OBVIOUS
        <3> QED BY <1>c, <3>1, <3>2 DEF OnTrack, Ready
    <2> QED BY <1>c, <2>1, <2>2, MoveOnTrack
<1>e. ASSUME NEW d \in Driver, Act(d), NEW s, NEW g \in Node, NEW n \in Node, NEW rows,
             Persist(rows, n), Return(d, s, g), UNCHANGED ckpt, <<n, EventOf(g)>> \in Edge
      PROVE  Goal
    <2>1. Ready(EventOf(g))'
        BY <1>e, SuccessorReady
    <2>2. OnTrack(g)'
        BY <2>1 DEF OnTrack, Ready
    <2> QED BY <1>c, <1>e, <2>2
<1> HIDE DEF Goal
<1>1. ASSUME UNCHANGED vars PROVE Goal
    <2>1. UNCHANGED <<pc, ckpt, pending, events>>
        BY <1>1 DEF vars, tables, memory, thread
    <2>2. Places' = Places
        BY <2>1 DEF Places
    <2>3. TracksPlaces'
        BY <1>0, <2>1, <2>2 DEF TracksPlaces, OnTrack, Ready
    <2>4. TracksDrivers'
        BY <1>0, <2>1 DEF TracksDrivers, OnTrack, Ready
    <2> QED BY <2>3, <2>4 DEF Goal
<1>2. ASSUME NEW d \in Driver, CreateRun(d) \/ Pause(d) \/ ApplyHumanRejected(d) PROVE Goal
    <2>1. PICK p : p \in {"enter", "exit"} /\ pc'[d] = p /\ UNCHANGED <<ckpt, pending>>
        BY <1>0, <1>2 DEF CreateRun, Pause, ApplyHumanRejected, thread
    <2>2. OnTrack(p)'
        BY <1>a, <2>1 DEF Underway, Node
    <2> QED BY <1>2, <1>b, <2>1, <2>2 DEF Act, Step
<1>3. ASSUME NEW d \in Driver, NEW a \in SUBSET Answer, Resume(d, a) PROVE Goal
    <2>1. PICK p : p = ckpt.next
        OBVIOUS
    <2>2. pc'[d] = p /\ UNCHANGED <<ckpt, pending>>
        BY <1>0, <1>3, <2>1 DEF Resume
    <2>3. <<ckpt.next, ckpt.st>> \in Places
        BY DEF Places
    <2>4. OnTrack(p)
        BY <1>0, <2>1, <2>3
    <2>5. OnTrack(p)'
        BY <1>0, <2>4
    <2> QED BY <1>3, <1>b, <2>2, <2>5 DEF Act
<1>4. ASSUME NEW d \in Driver, Fail(d) \/ Exit(d) PROVE Goal
    <2>1. pc'[d] = "idle"
        BY <1>0, <1>4 DEF Fail, Exit, Leave
    <2>2. OnTrack(pc[d])'
        <3>1. OnTrack("idle")'
            BY <1>a DEF Underway, Node
        <3> QED BY <2>1, <3>1 DEF OnTrack, Ready
    <2>3. Places' \subseteq Places
        <3>1. Exit(d) => Places' = Places
            BY DEF Exit, thread, Places
        <3> QED BY <1>4, <3>1, SavePlaces
    <2> QED BY <1>4, <2>2, <2>3, MoveOnTrack DEF Act, Step, Goal
<1>5. ASSUME NEW d \in Driver, EnterGraph(d) PROVE Goal
    BY <1>5, <1>a, <1>c DEF EnterGraph, thread, Act, Step, Node
<1>6. ASSUME NEW d \in Driver, Save(d) PROVE Goal
    <2>1. PICK p : p = pc[d]
        OBVIOUS
    <2>2. pc'[d] = p /\ OnTrack(p)
        BY <1>0, <1>6, <2>1 DEF Save, memory
    <2>3. OnTrack(p)'
        BY <1>0, <2>2
    <2>4. OnTrack(pc[d])'
        BY <2>2, <2>3 DEF OnTrack, Ready
    <2>5. Places' \subseteq Places
        BY <1>6, SavePlaces
    <2> QED BY <1>6, <2>4, <2>5, MoveOnTrack DEF Act, Goal
<1>7. ASSUME NEW d \in Driver, Ingest(d) PROVE Goal
    BY <1>7, <1>e DEF Ingest, EventOf, Edge, Node, thread, Act, Step
<1>8. ASSUME NEW d \in Driver, Deterministic(d) PROVE Goal
    <2>1. PICK rows, s : /\ Persist(rows, "deterministic_tiers") /\ Return(d, s, "tier2_candidates")
                         /\ UNCHANGED ckpt
        BY <1>8 DEF Deterministic, thread
    <2> QED BY <1>8, <2>1, <1>e DEF EventOf, Edge, Node, Act, Step
<1>9. ASSUME NEW d \in Driver, Candidates(d) PROVE Goal
    BY <1>9, <1>e DEF Candidates, EventOf, Edge, Node, thread, Act, Step
<1>10. ASSUME NEW d \in Driver, Adjudicate(d) PROVE Goal
    <2>1. OnTrack("tier3_escalate")'
        BY <1>0, <1>10 DEF Adjudicate, OnTrack, Underway, Node, EventOf
    <2>2. pc'[d] = "tier3_escalate" /\ UNCHANGED <<ckpt, pending>>
        BY <1>0, <1>10 DEF Adjudicate, thread
    <2> QED BY <1>10, <2>1, <2>2, <1>b DEF Act, Step
<1>11. ASSUME NEW d \in Driver, AdjudicateEscalate(d) PROVE Goal
    <2>1. OnTrack("tier3_persist")'
        BY <1>0, <1>11 DEF AdjudicateEscalate, OnTrack, Underway, Node, EventOf
    <2>2. pc'[d] = "tier3_persist" /\ UNCHANGED <<ckpt, pending>>
        BY <1>0, <1>11 DEF AdjudicateEscalate, thread
    <2> QED BY <1>11, <2>1, <2>2, <1>b DEF Act, Step
<1>12. ASSUME NEW d \in Driver, AdjudicatePersist(d) PROVE Goal
    <2>1. PICK rows, s : /\ Persist(rows, "tier3_adjudicate") /\ UNCHANGED ckpt
                         /\ Return(d, s, AfterAdjudication(st[d]))
        BY <1>12 DEF AdjudicatePersist, thread
    <2>2. <<"tier3_adjudicate", EventOf(AfterAdjudication(st[d]))>> \in Edge
          /\ AfterAdjudication(st[d]) \in Node
        BY DEF AfterAdjudication, EventOf, Edge, Node
    <2> QED BY <1>12, <2>1, <2>2, <1>e DEF Node, Act, Step
<1>14. ASSUME NEW d \in Driver, Answered(d) PROVE Goal
    <2>1. OnTrack("apply_human")'
        BY <1>0, <1>14 DEF Answered, OnTrack, Underway, Node, EventOf
    <2>2. PICK s : Return(d, s, "apply_human") /\ UNCHANGED ckpt
        BY <1>14 DEF Answered, thread
    <2> QED BY <1>14, <2>1, <2>2, <1>c DEF Act, Step, Node
<1>15. ASSUME NEW d \in Driver, ApplyHuman(d) PROVE Goal
    <2>1. OnTrack("apply_human_commit")'
        BY <1>0, <1>15 DEF ApplyHuman, OnTrack, Underway, Node, EventOf
    <2>2. pc'[d] = "apply_human_commit" /\ UNCHANGED <<ckpt, pending>>
        BY <1>0, <1>15 DEF ApplyHuman, thread
    <2> QED BY <1>15, <2>1, <2>2, <1>b DEF Act, Step
<1>16. ASSUME NEW d \in Driver, ApplyHumanCommit(d) PROVE Goal
    <2>1. PICK s : Return(d, s, "close_run")
        BY <1>16 DEF ApplyHumanCommit
    <2>2. Persist(HumanRows(st[d]), "apply_human") /\ UNCHANGED ckpt
        BY <1>16 DEF ApplyHumanCommit, thread
    <2> QED BY <1>16, <2>1, <2>2, <1>e DEF EventOf, Edge, Node, Act, Step
<1>18. ASSUME NEW d \in Driver, CloseRun(d) PROVE Goal
    <2>1. OnTrack("end")'
        BY <1>a DEF Underway, Node
    <2>2. Return(d, st[d], "end") /\ UNCHANGED ckpt
        BY <1>18 DEF CloseRun, thread
    <2> QED BY <1>18, <2>1, <2>2, <1>c DEF Act, Step
<1>19. ASSUME NEW d \in Driver, Act(d) PROVE Goal
    BY <1>19, <1>2, <1>3, <1>4, <1>5, <1>6, <1>7, <1>8, <1>9, <1>10, <1>11, <1>12, <1>14, <1>15,
       <1>16, <1>18 DEF Act, Step
<1> QED BY <1>1, <1>19, ActStep

\* An event is appended by a driver that had come to it.
LEMMA TrailStep == TypeOK /\ TrailInv /\ [Next]_vars => TrailInv'
<1> SUFFICES ASSUME TypeOK, TrailInv, [Next]_vars PROVE TrailInv'
    OBVIOUS
<1>1. EventsFollowGraph' => TrailInv'
    BY TrackStep DEF TrailInv
<1>2. Len(events) \in Nat /\ EventsFollowGraph
    BY DEF TypeOK, TrailInv
<1>3. CASE UNCHANGED events
    BY <1>1, <1>2, <1>3 DEF EventsFollowGraph
<1>4. ASSUME NEW d \in Driver, NEW n \in Node, NEW rows, n = EventOf(pc[d]), Persist(rows, n)
      PROVE  EventsFollowGraph'
    <2>1. /\ Len(events') = Len(events) + 1
          /\ \A i \in 1..Len(events) : events'[i] = events[i]
          /\ events'[Len(events) + 1] = [node |-> n, tx |-> txn + 1]
        BY <1>4, TrailAppended
    <2>2. Ready(n)
        <3>1. pc[d] \in Underway \/ pc[d] = "ingest"
            BY <1>4 DEF EventOf, Underway, Node
        <3> QED BY <1>4, <3>1 DEF TrailInv, TracksDrivers, OnTrack, EventOf, Ready
    <2>3. ASSUME NEW i \in 1..Len(events), events'[i].node # "ingest"
          PROVE  \E j \in 1..(i - 1) : <<events'[j].node, events'[i].node>> \in Edge
        <3>1. PICK j \in 1..(i - 1) : <<events[j].node, events[i].node>> \in Edge
            BY <1>2, <2>1, <2>3 DEF EventsFollowGraph
        <3>2. events'[j] = events[j] /\ events'[i] = events[i]
            BY <1>2, <2>1
        <3> QED BY <3>1, <3>2
    <2>4. ASSUME n # "ingest"
          PROVE  \E j \in 1..Len(events) : <<events'[j].node, n>> \in Edge
        <3>1. PICK j \in 1..Len(events) : <<events[j].node, n>> \in Edge
            BY <2>2, <2>4 DEF Ready
        <3> QED BY <2>1, <3>1
    <2>5. ASSUME NEW i \in 1..Len(events'), events'[i].node # "ingest"
          PROVE  \E j \in 1..(i - 1) : <<events'[j].node, events'[i].node>> \in Edge
        <3>1. CASE i \in 1..Len(events)
            BY <2>3, <2>5, <3>1
        <3>2. CASE i = Len(events) + 1
            <4>1. events'[i].node = n /\ i - 1 = Len(events)
                BY <1>2, <2>1, <3>2
            <4> QED BY <2>4, <2>5, <4>1
        <3>3. i \in 1..Len(events) \/ i = Len(events) + 1
            BY <1>2, <2>1
        <3> QED BY <3>1, <3>2, <3>3
    <2> QED BY <2>5 DEF EventsFollowGraph
<1> QED BY <1>1, <1>3, <1>4, EventsStep

\* The trail follows the graph, whatever crashes, is executed again or overlaps.
THEOREM TrailCorrect == Spec => []EventsFollowGraph
<1>1. Init => TrailInv
    BY DEF Init, TrailInv, TracksPlaces, TracksDrivers, Places, EventsFollowGraph, OnTrack,
           Underway, Node
<1>2. TrailInv => EventsFollowGraph
    BY DEF TrailInv
<1> QED BY <1>1, <1>2, TrailStep, TypeCorrect, PTL DEF Spec
-----------------------------------------------------------------------------
\* What no entry of Tiers 0 and 1 is in.
Apart(entries) == \A l \in Line : entries \cap Det[l] = {}

Stored(l) == \E r \in decisions : r.line = l

\* The channels know every settlement of Tiers 0 and 1.
KnowsDet(s) == \A l \in Line : Det[l] # {} => [line |-> l, entries |-> Det[l]] \in s.decided

\* What the channels s and the tables hold when p is executed next: before Tier 3 no
\* line is lost, after it every line has its decision unless the run was halted.
Left(p, s) ==
    /\ p = "deterministic_tiers" => s.unmatched = Line
    /\ p \in {"tier2_candidates", "tier3_adjudicate"} =>
          KnowsDet(s) /\ \A l \in Line : l \in s.unmatched \/ Stored(l)
    /\ p \in {"human_review", "apply_human", "apply_human_commit", "close_run"} =>
          s.halted \/ \A l \in Line : Stored(l)

\* Inside Tier 3 what has no decision yet is in the locals of the node.
InWork(p, s, w) ==
    /\ \A c \in w.commits : Apart(c.entries)
    /\ p \in {"tier3_escalate", "tier3_persist"} =>
          s.halted \/ \A l \in Line : \/ Stored(l)
                                      \/ \E c \in w.commits : c.line = l
                                      \/ p = "tier3_escalate" /\ l \in w.escalate

Holds(d) == Left(pc[d], st[d]) /\ InWork(pc[d], st[d], work[d])

PlacesHold  == \A p \in Places : Left(p[1], p[2])
DriversHold == \A d \in Driver : Holds(d)

RowsApart ==
    \A r \in decisions : /\ r.kind = "deterministic" => \E l \in Line : r.entries = Det[l]
                         /\ r.kind = "model" => Apart(r.entries)

LinesInv == PlacesHold /\ DriversHold /\ RowsApart /\ CompletedCoversEveryLine

\* The tables grow, and what holds goes on holding.
LEMMA LinesStay ==
    ASSUME TypeOK, [Next]_vars
    PROVE  /\ \A l : Stored(l) => Stored(l)'
           /\ \A p, s : Left(p, s) => Left(p, s)'
           /\ \A p, s, w : InWork(p, s, w) => InWork(p, s, w)'
<1>1. decisions \subseteq decisions'
    BY DecisionsGrow
<1>2. \A l : Stored(l) => Stored(l)'
    BY <1>1 DEF Stored
<1>3. \A p, s : Left(p, s) => Left(p, s)'
    BY <1>2 DEF Left, KnowsDet
<1>4. \A p, s, w : InWork(p, s, w) => InWork(p, s, w)'
    BY <1>2, Zenon DEF InWork, Apart
<1> QED BY <1>2, <1>3, <1>4

\* A step of d leaves the other drivers alone, and what they hold goes on holding.
LEMMA OneDriver ==
    ASSUME TypeOK, LinesInv, [Next]_vars, NEW d \in Driver, Act(d), Holds(d)',
           \A p \in Places' : p \in Places \/ Left(p[1], p[2])'
    PROVE  PlacesHold' /\ DriversHold'
<1>0. /\ \A p, s : Left(p, s) => Left(p, s)'
      /\ \A p, s, w : InWork(p, s, w) => InWork(p, s, w)'
    BY LinesStay
<1>1. ASSUME NEW e \in Driver, e # d PROVE Holds(e)'
    <2>1. Holds(e)
        BY DEF LinesInv, DriversHold
    <2>2. PICK p, s, w : p = pc[e] /\ s = st[e] /\ w = work[e]
        OBVIOUS
    <2>3. Left(p, s) /\ InWork(p, s, w)
        BY <2>1, <2>2 DEF Holds
    <2>4. Left(p, s)' /\ InWork(p, s, w)'
        BY <1>0, <2>3
    <2>5. p = pc'[e] /\ s = st'[e] /\ w = work'[e]
        BY <1>1, <2>2, OthersKeep
    <2>6. Left(pc[e], st[e])' /\ InWork(pc[e], st[e], work[e])'
        BY <2>4, <2>5 DEF Left, InWork, KnowsDet, Stored
    <2> QED BY <2>6 DEF Holds
<1>2. ASSUME NEW p \in Places' PROVE Left(p[1], p[2])'
    <2>1. CASE p \in Places
        <3>1. PICK q, s : q = p[1] /\ s = p[2]
            OBVIOUS
        <3>2. Left(q, s)
            BY <2>1, <3>1 DEF LinesInv, PlacesHold
        <3>3. Left(q, s)'
            BY <1>0, <3>2
        <3> QED BY <3>1, <3>3 DEF Left, KnowsDet, Stored
    <2> QED BY <2>1
<1>3. PlacesHold'
    BY <1>2 DEF PlacesHold, Left, KnowsDet, Stored
<1>4. DriversHold'
    BY <1>1 DEF DriversHold
<1> QED BY <1>3, <1>4

\* A node that returns finds for the next one what that needs.
ReturnsWell(d) ==
    /\ UNCHANGED work \/ work' = [work EXCEPT ![d] = NoWork]
    /\ \E t \in Channels, n \in Node \cup {"end"} :
           Return(d, t, n) /\ UNCHANGED ckpt /\ Left(n, t)'

\* A driver that returns so keeps the account, and hands it on.
LEMMA ReturnHolds ==
    ASSUME TypeOK, LinesInv, [Next]_vars, NEW d \in Driver, Act(d), ReturnsWell(d)
    PROVE  PlacesHold' /\ DriversHold'
<1>0. PICK t \in Channels, n \in Node \cup {"end"} :
        Return(d, t, n) /\ UNCHANGED ckpt /\ Left(n, t)'
    BY DEF ReturnsWell
<1>1. pc'[d] \in {n, "exit"} /\ pc'[d] \notin {"tier3_escalate", "tier3_persist"} /\ st'[d] = t
    BY <1>0 DEF Return, TypeOK, Node
<1>2. Left(pc[d], st[d])'
    BY <1>0, <1>1 DEF Left, KnowsDet, Stored
<1>4. work'[d] = work[d] \/ work'[d] = NoWork
    BY DEF TypeOK, ReturnsWell
<1>5. \A c \in work[d].commits : Apart(c.entries)
    BY DEF LinesInv, DriversHold, Holds, InWork
<1>6. InWork(pc[d], st[d], work[d])'
    BY <1>1, <1>4, <1>5 DEF InWork, NoWork, Apart
<1>7. Holds(d)'
    BY <1>2, <1>6 DEF Holds
<1>8. ASSUME NEW p \in Places', p \notin Places PROVE Left(p[1], p[2])'
    <2>1. p = <<n, t>>
        BY <1>0, <1>8, ReturnPlaces
    <2>2. p[1] = n /\ p[2] = t
        BY <2>1
    <2> QED BY <1>0, <2>2 DEF Left, KnowsDet, Stored
<1> QED BY <1>7, <1>8, OneDriver

\* A driver that leaves owes nothing.
LEMMA LeaveHolds ==
    ASSUME TypeOK, NEW d \in Driver, Leave(d)
    PROVE  Holds(d)'
<1>1. pc'[d] = "idle" /\ work'[d] = NoWork
    BY DEF Leave, TypeOK
<1> QED BY <1>1 DEF Holds, Left, InWork, NoWork

\* Each commitment of a transaction has its row.
LEMMA RowStored ==
    ASSUME NEW commits, NEW kind, NEW c \in commits
    PROVE  \E r \in Rows(commits, kind) : r.line = c.line
<1>1. PICK r : r = [tx |-> txn + 1, line |-> c.line, entries |-> c.entries, sup |-> 0,
                   kind |-> kind]
    OBVIOUS
<1>2. r \in Rows(commits, kind) /\ r.line = c.line
    BY <1>1 DEF Rows
<1> QED BY <1>2

\* Tiers 0 and 1 see every line and remember what they settled.
LEMMA DeterministicHolds ==
    ASSUME TypeOK, LinesInv, [Next]_vars, NEW d \in Driver, Deterministic(d)
    PROVE  ReturnsWell(d)
<1> DEFINE s == st[d]
           matched == {l \in s.unmatched : Det[l] # {}}
           commits == {[line |-> l, entries |-> Det[l]] : l \in matched}
<1>0. PICK t : t = [s EXCEPT !.decided = @ \cup commits, !.unmatched = @ \ matched]
    OBVIOUS
<1>1. s \in Channels /\ commits \in SUBSET Commit
    BY DEF TypeOK, Channels, Commit
<1>2. t \in Channels /\ t.decided = s.decided \cup commits /\ t.unmatched = s.unmatched \ matched
    BY <1>0, <1>1 DEF Channels
<1>3. Return(d, t, "tier2_candidates") /\ UNCHANGED <<ckpt, work>>
      /\ decisions' = decisions \cup Rows(commits, "deterministic")
    BY <1>0 DEF Deterministic, Persist, thread
<1>4. s.unmatched = Line
    <2>1. pc[d] = "deterministic_tiers" /\ Left(pc[d], st[d])
        BY DEF Deterministic, LinesInv, DriversHold, Holds
    <2> QED BY <2>1 DEF Left
<1>5. ASSUME NEW l \in Line, Det[l] # {}
      PROVE  [line |-> l, entries |-> Det[l]] \in commits /\ Stored(l)'
    <2>1. [line |-> l, entries |-> Det[l]] \in commits
        BY <1>4, <1>5
    <2>2. PICK c \in commits : c.line = l
        BY <2>1
    <2>3. \E r \in Rows(commits, "deterministic") : r.line = l
        <3> HIDE DEF commits
        <3> QED BY <2>2, RowStored
    <2>4. \E r \in decisions' : r.line = l
        BY <1>3, <2>3
    <2> QED BY <2>1, <2>4 DEF Stored
<1>6. ASSUME NEW l \in Line, Det[l] = {} PROVE l \in t.unmatched
    BY <1>2, <1>4, <1>6
<1> HIDE DEF s, matched, commits
<1>7. Left("tier2_candidates", t)'
    BY <1>2, <1>5, <1>6 DEF Left, KnowsDet
<1> QED BY <1>2, <1>3, <1>7 DEF ReturnsWell, Node

\* The result loop commits nothing the rules settled, and leaves out no line.
LEMMA AdjudicateHolds ==
    ASSUME TypeOK, LinesInv, [Next]_vars, NEW d \in Driver, Adjudicate(d)
    PROVE  Holds(d)'
<1> DEFINE s == st[d]
           halts == s.unmatched # {} /\ 0 >= Ceiling
           called == IF halts THEN {} ELSE s.unmatched
<1>1. PICK out \in [called -> SUBSET Entry] :
         /\ \A l \in called : out[l] \in Choices(l, s)
         /\ work' = [work EXCEPT ![d] =
              [commits  |-> {[line |-> l, entries |-> out[l]] : l \in {m \in called : out[m] # {}}},
               escalate |-> {l \in called : out[l] = {}}]]
    BY DEF Adjudicate
<1> DEFINE commits == {[line |-> l, entries |-> out[l]] : l \in {m \in called : out[m] # {}}}
           escalate == {l \in called : out[l] = {}}
<1>2. work'[d] = [commits |-> commits, escalate |-> escalate]
    BY <1>1 DEF TypeOK
<1>3. pc'[d] = "tier3_escalate" /\ st'[d].halted = halts
    <2>1. pc' = [pc EXCEPT ![d] = "tier3_escalate"] /\ st' = [st EXCEPT ![d].halted = halts]
        BY DEF Adjudicate
    <2>2. pc \in [Driver -> PC] /\ st \in [Driver -> Channels]
        BY DEF TypeOK
    <2> HIDE DEF halts
    <2> QED BY <2>1, <2>2 DEF Channels
<1>4. KnowsDet(s) /\ \A l \in Line : l \in s.unmatched \/ Stored(l)
    <2>1. pc[d] = "tier3_adjudicate" /\ Left(pc[d], st[d])
        BY DEF Adjudicate, LinesInv, DriversHold, Holds
    <2> QED BY <2>1 DEF Left
<1>5. ASSUME NEW c \in commits PROVE Apart(c.entries)
    <2>1. PICK l \in called : c = [line |-> l, entries |-> out[l]] /\ out[l] # {}
        OBVIOUS
    <2>2. out[l] \cap Claimed(s) = {}
        BY <1>1, <2>1 DEF Choices
    <2>3. ASSUME NEW m \in Line PROVE Det[m] \subseteq Claimed(s)
        <3>1. CASE Det[m] = {}
            BY <3>1
        <3>2. CASE Det[m] # {}
            <4>1. PICK k \in s.decided : k.entries = Det[m]
                BY <1>4, <3>2 DEF KnowsDet
            <4> QED BY <4>1 DEF Claimed
        <3> QED BY <3>1, <3>2
    <2>4. c.entries = out[l]
        BY <2>1
    <2> QED BY <2>2, <2>3, <2>4 DEF Apart
<1>6. ASSUME ~ halts, NEW l \in s.unmatched
      PROVE  (\E c \in commits : c.line = l) \/ l \in escalate
    <2>1. l \in called
        BY <1>6
    <2>2. CASE out[l] = {}
        BY <2>1, <2>2
    <2>3. CASE out[l] # {}
        <3>1. [line |-> l, entries |-> out[l]] \in commits
            BY <2>1, <2>3
        <3> QED BY <3>1
    <2> QED BY <2>2, <2>3
<1>7. \A l : Stored(l) => Stored(l)'
    BY LinesStay
<1> HIDE DEF s, halts, commits, escalate
<1>8. ASSUME ~ st'[d].halted, NEW l \in Line
      PROVE  \/ Stored(l)'
             \/ \E c \in work'[d].commits : c.line = l
             \/ l \in work'[d].escalate
    BY <1>2, <1>3, <1>4, <1>6, <1>7, <1>8
<1>9. \A c \in work'[d].commits : Apart(c.entries)'
    BY <1>2, <1>5 DEF Apart
<1>10. InWork(pc[d], st[d], work[d])'
    BY <1>3, <1>8, <1>9 DEF InWork
<1> QED BY <1>3, <1>10 DEF Holds, Left

\* Escalated lines have their rows, the others are still to be persisted.
LEMMA EscalateHolds ==
    ASSUME TypeOK, LinesInv, [Next]_vars, NEW d \in Driver, AdjudicateEscalate(d)
    PROVE  Holds(d)'
<1> DEFINE rows == {[line |-> l, entries |-> {}] : l \in work[d].escalate}
<1>1. /\ pc'[d] = "tier3_persist" /\ st'[d].halted = st[d].halted /\ work' = work
      /\ decisions' = decisions \cup Rows(rows, "escalated")
    <2>1. \E q : st' = [st EXCEPT ![d].queue = q]
        BY DEF AdjudicateEscalate
    <2> QED BY <2>1 DEF AdjudicateEscalate, TypeOK, Channels
<1>2. InWork("tier3_escalate", st[d], work[d])
    BY DEF AdjudicateEscalate, LinesInv, DriversHold, Holds
<1>3. ASSUME NEW l \in work[d].escalate PROVE Stored(l)'
    <2>1. PICK c \in rows : c = [line |-> l, entries |-> {}]
        OBVIOUS
    <2>2. \E r \in Rows(rows, "escalated") : r.line = l
        <3> HIDE DEF rows
        <3> QED BY <2>1, RowStored
    <2>3. \E r \in decisions' : r.line = l
        BY <1>1, <2>2
    <2> QED BY <2>3 DEF Stored
<1>4. \A l : Stored(l) => Stored(l)'
    BY LinesStay
<1>5. InWork(pc[d], st[d], work[d])'
    BY <1>1, <1>2, <1>3, <1>4, Zenon DEF InWork, Apart
<1> QED BY <1>1, <1>5 DEF Holds, Left

\* After Tier 3 every line has its decision.
LEMMA PersistHolds ==
    ASSUME TypeOK, LinesInv, [Next]_vars, NEW d \in Driver, AdjudicatePersist(d)
    PROVE  ReturnsWell(d)
<1> DEFINE s == st[d]
           commits == work[d].commits
           matched == {c.line : c \in commits}
<1>0. PICK t : t = [s EXCEPT !.decided = @ \cup commits, !.unmatched = @ \ matched]
    OBVIOUS
<1>1. s \in Channels /\ commits \in SUBSET Commit
    BY DEF TypeOK, Work
<1>2. t \in Channels /\ t.halted = s.halted
    BY <1>0, <1>1 DEF Channels
<1>3. /\ Return(d, t, AfterAdjudication(s)) /\ work' = [work EXCEPT ![d] = NoWork]
      /\ UNCHANGED ckpt /\ decisions' = decisions \cup Rows(commits, "model")
    BY <1>0 DEF AdjudicatePersist, Persist, thread
<1>4. InWork("tier3_persist", s, work[d])
    BY DEF AdjudicatePersist, LinesInv, DriversHold, Holds
<1>5. \A l : Stored(l) => Stored(l)'
    BY LinesStay
<1>6. ASSUME NEW l, \E c \in commits : c.line = l PROVE Stored(l)'
    <2>1. PICK c \in commits : c.line = l
        BY <1>6
    <2>2. \E r \in Rows(commits, "model") : r.line = l
        <3> HIDE DEF commits
        <3> QED BY <2>1, RowStored
    <2>3. \E r \in decisions' : r.line = l
        BY <1>3, <2>2
    <2> QED BY <2>3 DEF Stored
<1>7. s.halted \/ \A l \in Line : Stored(l)'
    BY <1>4, <1>5, <1>6 DEF InWork
<1>8. PICK n \in {"close_run", "human_review"} : n = AfterAdjudication(s)
    BY DEF AfterAdjudication
<1>9. Left(n, t)'
    BY <1>2, <1>7 DEF Left
<1>10. Return(d, t, n)
    BY <1>3, <1>8
<1> HIDE DEF s, commits, matched
<1> QED BY <1>2, <1>3, <1>8, <1>9, <1>10 DEF ReturnsWell, Node

\* What a driver and the checkpoints hold goes on holding, one case per action.
LEMMA HoldsStep ==
    ASSUME TypeOK, LinesInv, [Next]_vars
    PROVE  PlacesHold' /\ DriversHold'
<1> DEFINE Goal == PlacesHold' /\ DriversHold'
<1> SUFFICES Goal
    OBVIOUS
<1>0. /\ \A p \in Places : Left(p[1], p[2])
      /\ \A d \in Driver : Holds(d)
      /\ \A p, s : Left(p, s) => Left(p, s)'
      /\ \A d \in Driver : st[d] \in Channels /\ answer[d] \in SUBSET Answer
    BY LinesStay DEF LinesInv, PlacesHold, DriversHold, TypeOK
<1>a. ASSUME NEW d \in Driver, Act(d), Holds(d)', Places' \subseteq Places PROVE Goal
    BY <1>a, OneDriver
<1>b. ASSUME NEW d \in Driver, Act(d), NEW p, NEW t, pc'[d] = p, st'[d] = t, work'[d] = work[d],
             p \notin {"tier3_escalate", "tier3_persist"}, Left(p, t)',
             UNCHANGED <<ckpt, pending>>
      PROVE  Goal
    <2>1. Left(pc[d], st[d])'
        BY <1>b DEF Left, KnowsDet, Stored
    <2>2. \A c \in work[d].commits : Apart(c.entries)
        BY <1>0 DEF Holds, InWork
    <2>3. InWork(pc[d], st[d], work[d])'
        BY <1>b, <2>2 DEF InWork, Apart
    <2>4. Places' = Places
        BY <1>b DEF Places
    <2> QED BY <1>a, <1>b, <2>1, <2>3, <2>4 DEF Holds
<1>c. ASSUME NEW d \in Driver, Act(d), NEW t \in Channels, NEW n \in Node \cup {"end"},
             Return(d, t, n), UNCHANGED <<ckpt, work>>, Left(n, t)'
      PROVE  Goal
    <2>1. ReturnsWell(d)
        BY <1>c DEF ReturnsWell
    <2> QED BY <1>c, <2>1, ReturnHolds
<1> HIDE DEF Goal
<1>1. ASSUME UNCHANGED vars PROVE Goal
    <2>1. UNCHANGED <<pc, st, work, ckpt, pending, decisions>>
        BY <1>1 DEF vars, tables, memory, thread
    <2>2. Places' = Places
        BY <2>1 DEF Places
    <2>3. PlacesHold'
        BY <1>0, <2>1, <2>2 DEF PlacesHold, Left, KnowsDet, Stored
    <2>4. DriversHold'
        BY <1>0, <2>1 DEF DriversHold, Holds, Left, InWork, KnowsDet, Stored, Apart
    <2> QED BY <2>3, <2>4 DEF Goal
<1>2. ASSUME NEW d \in Driver, CreateRun(d) \/ Pause(d) \/ ApplyHumanRejected(d) PROVE Goal
    <2>1. PICK p, t : /\ p \in {"enter", "exit"} /\ pc'[d] = p /\ st'[d] = t
                      /\ work'[d] = work[d] /\ UNCHANGED <<ckpt, pending>>
        BY <1>2 DEF CreateRun, Pause, ApplyHumanRejected, thread, TypeOK
    <2>2. Left(p, t)'
        BY <2>1 DEF Left
    <2> QED BY <1>2, <1>b, <2>1, <2>2 DEF Act, Step
<1>3. ASSUME NEW d \in Driver, NEW a \in SUBSET Answer, Resume(d, a) PROVE Goal
    <2>1. PICK p, t : p \in Node /\ p = ckpt.next /\ t = ckpt.st
        BY <1>3 DEF Resume
    <2>2. pc'[d] = p /\ st'[d] = t /\ work'[d] = work[d] /\ UNCHANGED <<ckpt, pending>>
        BY <1>3, <2>1 DEF Resume, TypeOK
    <2>3. <<p, t>> \in Places
        BY <2>1 DEF Places
    <2>4. Left(p, t)'
        BY <1>0, <2>3
    <2>5. p \notin {"tier3_escalate", "tier3_persist"}
        BY <2>1 DEF Node
    <2> QED BY <1>3, <1>b, <2>2, <2>4, <2>5 DEF Act
<1>4. ASSUME NEW d \in Driver, Fail(d) \/ Exit(d) PROVE Goal
    <2>1. Leave(d)
        BY <1>4 DEF Fail, Exit
    <2>2. Places' \subseteq Places
        <3>1. Exit(d) => Places' = Places
            BY DEF Exit, thread, Places
        <3> QED BY <1>4, <3>1, SavePlaces
    <2> QED BY <1>4, <1>a, <2>1, <2>2, LeaveHolds DEF Act, Step
<1>5. ASSUME NEW d \in Driver, EnterGraph(d) PROVE Goal
    <2>1. NoChannels \in Channels
        BY DEF NoChannels, Channels
    <2>2. Return(d, NoChannels, "ingest") /\ UNCHANGED <<ckpt, work>>
        BY <1>5 DEF EnterGraph, thread
    <2>3. Left("ingest", NoChannels)'
        BY DEF Left
    <2> QED BY <1>5, <1>c, <2>1, <2>2, <2>3 DEF Act, Step, Node
<1>6. ASSUME NEW d \in Driver, Save(d) PROVE Goal
    <2>1. UNCHANGED <<pc, st, work, decisions>>
        BY <1>6 DEF Save, memory, tables
    <2>2. Holds(d)'
        BY <1>0, <2>1 DEF Holds, Left, InWork, KnowsDet, Stored, Apart
    <2> QED BY <1>6, <1>a, <2>2, SavePlaces DEF Act
<1>7. ASSUME NEW d \in Driver, Ingest(d) PROVE Goal
    <2>1. PICK t : t = [NoChannels EXCEPT !.unmatched = Line]
        OBVIOUS
    <2>2. t \in Channels /\ t.unmatched = Line
        BY <2>1 DEF NoChannels, Channels
    <2>3. Return(d, t, "deterministic_tiers") /\ UNCHANGED <<ckpt, work>>
        BY <1>7, <2>1 DEF Ingest, thread
    <2>4. Left("deterministic_tiers", t)'
        BY <2>2 DEF Left
    <2> QED BY <1>7, <1>c, <2>2, <2>3, <2>4 DEF Act, Step, Node
<1>8. ASSUME NEW d \in Driver, Deterministic(d) \/ AdjudicatePersist(d) PROVE Goal
    BY <1>8, DeterministicHolds, PersistHolds, ReturnHolds DEF Act, Step, Goal
<1>9. ASSUME NEW d \in Driver, Candidates(d) PROVE Goal
    <2>1. PICK s, t : s = st[d] /\ t = [s EXCEPT !.cands = s.unmatched]
        OBVIOUS
    <2>2. s \in Channels
        BY <1>0, <2>1
    <2>3. t \in Channels /\ t.unmatched = s.unmatched /\ t.decided = s.decided
        BY <2>1, <2>2 DEF Channels
    <2>4. Return(d, t, "tier3_adjudicate") /\ UNCHANGED <<ckpt, work>>
        BY <1>9, <2>1 DEF Candidates, thread
    <2>5. Left("tier2_candidates", s)'
        BY <1>0, <1>9, <2>1 DEF Candidates, Holds
    <2>6. Left("tier3_adjudicate", t)'
        BY <2>3, <2>5 DEF Left, KnowsDet
    <2> QED BY <1>9, <1>c, <2>3, <2>4, <2>6 DEF Act, Step, Node
<1>10. ASSUME NEW d \in Driver, Adjudicate(d) \/ AdjudicateEscalate(d) PROVE Goal
    <2>1. UNCHANGED <<ckpt, pending>>
        BY <1>10 DEF Adjudicate, AdjudicateEscalate, thread
    <2>2. Places' = Places
        BY <2>1 DEF Places
    <2> QED BY <1>10, <1>a, <2>2, AdjudicateHolds, EscalateHolds DEF Act, Step
<1>13. ASSUME NEW d \in Driver, Answered(d) PROVE Goal
    <2>1. PICK s, t : s = st[d] /\ t = [s EXCEPT !.resolutions = answer[d]]
        OBVIOUS
    <2>2. s \in Channels /\ answer[d] \in SUBSET Answer
        BY <1>0, <2>1
    <2>3. t \in Channels /\ t.halted = s.halted
        BY <2>1, <2>2 DEF Channels
    <2>4. Return(d, t, "apply_human") /\ UNCHANGED <<ckpt, work>>
        BY <1>13, <2>1 DEF Answered, thread
    <2>5. Left("human_review", s)'
        BY <1>0, <1>13, <2>1 DEF Answered, Holds
    <2>6. Left("apply_human", t)'
        BY <2>3, <2>5 DEF Left
    <2> QED BY <1>13, <1>c, <2>3, <2>4, <2>6 DEF Act, Step, Node
<1>14. ASSUME NEW d \in Driver, ApplyHuman(d) PROVE Goal
    <2>1. PICK t : t = st[d]
        OBVIOUS
    <2>2. pc'[d] = "apply_human_commit" /\ st'[d] = t /\ work'[d] = work[d]
          /\ UNCHANGED <<ckpt, pending>>
        BY <1>14, <2>1 DEF ApplyHuman, TypeOK, thread
    <2>3. Left("apply_human", t)'
        BY <1>0, <1>14, <2>1 DEF ApplyHuman, Holds
    <2>4. Left("apply_human_commit", t)'
        BY <2>3 DEF Left
    <2> QED BY <1>14, <1>b, <2>2, <2>4 DEF Act, Step
<1>15. ASSUME NEW d \in Driver, ApplyHumanCommit(d) PROVE Goal
    <2> DEFINE rows == HumanRows(st[d])
               applied == {[line |-> x.line, entries |-> x.entries] : x \in rows}
               matched == {c.line : c \in {a \in applied : a.entries # {}}}
    <2>1. PICK s, t : s = st[d] /\ t = [s EXCEPT !.decided = @ \cup applied,
                                               !.unmatched = @ \ matched]
        OBVIOUS
    <2>2. s \in Channels
        BY <1>0, <2>1
    <2>3. rows \subseteq Decision
        BY HumanRowsType DEF TypeOK
    <2>4. applied \in SUBSET Commit
        <3> HIDE DEF rows
        <3> QED BY <2>3 DEF Decision, Commit
    <2>5. t \in Channels /\ t.halted = s.halted
        <3> HIDE DEF applied, matched
        <3> QED BY <2>1, <2>2, <2>4 DEF Channels
    <2>6. Return(d, t, "close_run") /\ UNCHANGED <<ckpt, work>>
        BY <1>15, <2>1 DEF ApplyHumanCommit, thread
    <2>7. Left("apply_human_commit", s)'
        BY <1>0, <1>15, <2>1 DEF ApplyHumanCommit, Holds
    <2>8. Left("close_run", t)'
        BY <2>5, <2>7 DEF Left
    <2> QED BY <1>15, <1>c, <2>5, <2>6, <2>8 DEF Act, Step, Node
<1>16. ASSUME NEW d \in Driver, CloseRun(d) PROVE Goal
    <2>1. PICK t \in Channels : t = st[d]
        BY <1>0
    <2>2. Return(d, t, "end") /\ UNCHANGED <<ckpt, work>>
        BY <1>16, <2>1 DEF CloseRun, thread
    <2>3. Left("end", t)'
        BY DEF Left
    <2> QED BY <1>16, <1>c, <2>2, <2>3 DEF Act, Step
<1>17. ASSUME NEW d \in Driver, Act(d) PROVE Goal
    BY <1>2, <1>3, <1>4, <1>5, <1>6, <1>7, <1>8, <1>9, <1>10, <1>13, <1>14, <1>15, <1>16,
       <1>17 DEF Act, Step
<1> QED BY <1>1, <1>17, ActStep

\* Rows of Tiers 0 and 1 hold what the rules settle, rows of Tier 3 nothing of it.
LEMMA RowsApartStep == TypeOK /\ LinesInv /\ [Next]_vars => RowsApart'
<1> SUFFICES ASSUME TypeOK, LinesInv, [Next]_vars PROVE RowsApart'
    OBVIOUS
<1> DEFINE Fits(r) == /\ r.kind = "deterministic" => \E l \in Line : r.entries = Det[l]
                      /\ r.kind = "model" => Apart(r.entries)
<1>1. ASSUME \A r \in decisions' : r \in decisions \/ Fits(r) PROVE RowsApart'
    BY <1>1 DEF LinesInv, RowsApart, Apart
<1>2. CASE UNCHANGED decisions
    BY <1>1, <1>2
<1>3. ASSUME NEW commits, NEW kind, decisions' = decisions \cup Rows(commits, kind),
             \A r \in Rows(commits, kind) : Fits(r)
      PROVE  RowsApart'
    BY <1>1, <1>3
<1> HIDE DEF Fits
<1>4. ASSUME NEW d \in Driver, Deterministic(d) PROVE RowsApart'
    <2> DEFINE matched == {l \in st[d].unmatched : Det[l] # {}}
               commits == {[line |-> l, entries |-> Det[l]] : l \in matched}
    <2>1. decisions' = decisions \cup Rows(commits, "deterministic")
        BY <1>4 DEF Deterministic, Persist
    <2>2. \A c \in commits : \E l \in Line : c.entries = Det[l]
        BY DEF TypeOK, Channels
    <2> HIDE DEF commits
    <2>3. \A r \in Rows(commits, "deterministic") : Fits(r)
        BY <2>2 DEF Rows, Fits
    <2> QED BY <1>3, <2>1, <2>3
<1>5. ASSUME NEW d \in Driver, AdjudicateEscalate(d) PROVE RowsApart'
    <2>1. PICK commits : decisions' = decisions \cup Rows(commits, "escalated")
        BY <1>5 DEF AdjudicateEscalate
    <2>2. \A r \in Rows(commits, "escalated") : Fits(r)
        BY DEF Rows, Fits
    <2> QED BY <1>3, <2>1, <2>2
<1>6. ASSUME NEW d \in Driver, AdjudicatePersist(d) PROVE RowsApart'
    <2>1. PICK commits : /\ commits = work[d].commits
                         /\ decisions' = decisions \cup Rows(commits, "model")
        BY <1>6 DEF AdjudicatePersist, Persist
    <2>2. \A c \in commits : Apart(c.entries)
        BY <2>1 DEF LinesInv, DriversHold, Holds, InWork
    <2>3. \A r \in Rows(commits, "model") : Fits(r)
        BY <2>2 DEF Rows, Fits
    <2> QED BY <1>3, <2>1, <2>3
<1>7. ASSUME NEW d \in Driver, ApplyHumanCommit(d) PROVE RowsApart'
    <2>1. decisions' = decisions \cup HumanRows(st[d])
        BY <1>7 DEF ApplyHumanCommit, Persist
    <2>2. \A r \in HumanRows(st[d]) : r.kind = "human"
        BY DEF HumanRows
    <2> QED BY <1>1, <2>1, <2>2 DEF Fits
<1>8. ASSUME NEW d \in Driver, Ingest(d) \/ Candidates(d) \/ CloseRun(d) PROVE RowsApart'
    BY <1>2, <1>8 DEF Ingest, Candidates, CloseRun, Persist
<1>9. ASSUME NEW d \in Driver,
             \/ CreateRun(d) \/ Fail(d) \/ EnterGraph(d) \/ Save(d) \/ Exit(d) \/ Adjudicate(d)
             \/ Pause(d) \/ Answered(d) \/ ApplyHuman(d) \/ ApplyHumanRejected(d)
             \/ \E a \in SUBSET Answer : Resume(d, a)
      PROVE  RowsApart'
    BY <1>2, <1>9 DEF CreateRun, Fail, EnterGraph, Save, Exit, Adjudicate, Pause, Answered, ApplyHuman,
                      ApplyHumanRejected, Resume, tables
<1>10. UNCHANGED vars => UNCHANGED decisions
    BY DEF vars, tables
<1> QED BY <1>2, <1>4, <1>5, <1>6, <1>7, <1>8, <1>9, <1>10 DEF Next, Step, Continue, Resolve

\* Only close_run completes a run, and only one that was not halted.
LEMMA CoversStep == TypeOK /\ LinesInv /\ [Next]_vars => CompletedCoversEveryLine'
<1> SUFFICES ASSUME TypeOK, LinesInv, [Next]_vars, row' = "completed"
             PROVE  \A l \in Line : Stored(l)'
    BY DEF CompletedCoversEveryLine, Stored
<1>1. \A l : Stored(l) => Stored(l)'
    BY LinesStay
<1>2. CASE row = "completed"
    BY <1>1, <1>2 DEF LinesInv, CompletedCoversEveryLine, Stored
<1>3. ASSUME NEW d \in Driver, CloseRun(d) PROVE \A l \in Line : Stored(l)'
    <2>1. pc[d] = "close_run" /\ ~ st[d].halted
        BY <1>3 DEF CloseRun
    <2>2. \A l \in Line : Stored(l)
        BY <2>1 DEF LinesInv, DriversHold, Holds, Left
    <2> QED BY <1>1, <2>2
<1>4. ASSUME NEW d \in Driver,
             \/ CreateRun(d) \/ Fail(d) \/ EnterGraph(d) \/ Save(d) \/ Exit(d) \/ Adjudicate(d)
             \/ Pause(d) \/ Answered(d) \/ ApplyHuman(d) \/ ApplyHumanRejected(d)
             \/ Ingest(d) \/ Deterministic(d) \/ Candidates(d) \/ AdjudicateEscalate(d)
             \/ AdjudicatePersist(d) \/ ApplyHumanCommit(d) \/ \E a \in SUBSET Answer : Resume(d, a)
      PROVE  row = "completed"
    BY <1>4 DEF CreateRun, Fail, EnterGraph, Save, Exit, Adjudicate, Pause, Answered, ApplyHuman,
                ApplyHumanRejected, Ingest, Deterministic, Candidates, AdjudicateEscalate,
                AdjudicatePersist, ApplyHumanCommit, Resume, tables
<1>5. UNCHANGED vars => row = "completed"
    BY DEF vars, tables
<1> QED BY <1>2, <1>3, <1>4, <1>5 DEF Next, Step, Continue, Resolve

\* Every step keeps the account of the lines.
LEMMA LinesStep == TypeOK /\ LinesInv /\ [Next]_vars => LinesInv'
BY HoldsStep, RowsApartStep, CoversStep DEF LinesInv

\* From the empty tables on, the account of the lines holds.
LEMMA LinesCorrect == Spec => []LinesInv
<1>1. Init => LinesInv
    BY DEF Init, LinesInv, PlacesHold, DriversHold, Places, Left, Holds, InWork, NoWork,
           RowsApart, CompletedCoversEveryLine
<1> QED BY <1>1, LinesStep, TypeCorrect, PTL DEF Spec

\* No commitment of the model uses an entry of Tiers 0 and 1, whichever process made
\* either and whatever was executed twice.
THEOREM TiersApart == Spec => []TierSeparation
<1>1. LinesInv => TierSeparation
    BY DEF LinesInv, RowsApart, TierSeparation, Apart
<1> QED BY <1>1, LinesCorrect, PTL

\* A run that reads "completed" has a decision for every bank line, whatever crashed
\* or overlapped on the way.
THEOREM LinesCovered == Spec => []CompletedCoversEveryLine
<1>1. LinesInv => CompletedCoversEveryLine
    BY DEF LinesInv
<1> QED BY <1>1, LinesCorrect, PTL
-----------------------------------------------------------------------------
\* The node whose execution a driver is in.
InNode(p) == IF p \in {"tier3_escalate", "tier3_persist"} THEN "tier3_adjudicate"
             ELSE IF p = "apply_human_commit" THEN "apply_human" ELSE p

\* The latest checkpoint, stored or not, leads to n.
LatestIs(n) == IF pending = {} THEN ckpt.next = n
               ELSE \E c \in pending : c.id = made /\ c.next = n

\* Where a call that comes back has left the run.
Stopped ==
    \/ LatestIs("human_review") /\ row = "awaiting_human"
    \/ LatestIs("apply_human") /\ row # "awaiting_human"
    \/ LatestIs("end") /\ row \in Terminal

\* A driver executes what the latest checkpoint leads to.
InPlace(d) ==
    /\ pc[d] \in Underway => LatestIs(InNode(pc[d]))
    /\ pc[d] = "apply_human_commit" => row # "awaiting_human"
    /\ pc[d] = "exit" => Stopped

Alone    == \A d, e \in Driver : pc[d] # "idle" /\ pc[e] # "idle" => d = e
NoRow    == row = "none" => ckpt.next = "none" /\ \A d \in Driver : pc[d] = "idle"
InOrder  == /\ ckpt.id <= made
            /\ \A b, c \in pending : b.id = c.id => b = c
            /\ \A c \in pending : ckpt.id < c.id /\ c.id <= made
            /\ pending # {} => \E c \in pending : c.id = made
Owned    == \A c \in pending : pc[c.by] # "idle"
LastOne  == \A c \in pending : c.next = "end" => c.id = made /\ pc[c.by] = "exit" /\ row \in Terminal
Finished == ckpt.next = "end" =>
                /\ pending = {} /\ row \in Terminal
                /\ \A d \in Driver : pc[d] \in {"idle", "exit"}

\* One driver at a time, and it, the checkpoints and the row tell one story.
SoloInv == /\ Alone /\ NoRow /\ InOrder /\ Owned /\ LastOne /\ Finished
           /\ \A d \in Driver : InPlace(d)

\* The one driver at work returns from a node.
LEMMA SoloReturn ==
    ASSUME TypeOK, SoloInv, NEW d \in Driver, Act(d), pc[d] \notin {"idle", "exit"},
           NEW t, NEW n \in Node \cup {"end"}, Return(d, t, n), UNCHANGED ckpt,
           row' # "none", n = "end" => row' \in Terminal
    PROVE  SoloInv'
<1>0. /\ pc \in [Driver -> PC] /\ made \in Nat /\ ckpt.id \in Nat
      /\ \A c \in pending : c.id \in Nat /\ c.by \in Driver
    BY DEF TypeOK, Checkpoint, Unsaved
<1>1. PICK k : k = [by |-> d, id |-> made + 1, next |-> n, st |-> t]
    OBVIOUS
<1>2. /\ pending' = pending \cup {k} /\ made' = made + 1
      /\ k.by = d /\ k.id = made + 1 /\ k.next = n
    BY <1>1 DEF Return
<1>3. pc'[d] = (IF n = "end" THEN "exit" ELSE n) /\ pc'[d] # "idle"
    BY <1>0 DEF Return, Node
<1>4. \A e \in Driver \ {d} : pc[e] = "idle" /\ pc'[e] = "idle"
    BY OthersKeep DEF SoloInv, Alone
<1>5. \A c \in pending : c.by = d /\ c.next # "end"
    BY <1>0, <1>4 DEF SoloInv, Owned, LastOne
<1>6. ckpt.next # "end"
    BY DEF SoloInv, Finished
<1>7. Alone' /\ NoRow' /\ Owned'
    BY <1>0, <1>2, <1>3, <1>4, <1>5 DEF Alone, NoRow, Owned
<1>8. InOrder'
    BY <1>0, <1>2 DEF SoloInv, InOrder
<1>9. LastOne' /\ Finished'
    BY <1>2, <1>3, <1>5, <1>6 DEF LastOne, Finished
<1>10. LatestIs(n)'
    BY <1>2 DEF LatestIs
<1>11. InPlace(d)'
    <2>1. CASE n = "end"
        BY <1>3, <1>10, <2>1 DEF InPlace, Stopped, Underway, Node
    <2>2. CASE n # "end"
        <3>1. pc'[d] = n /\ n \in Node
            BY <1>3, <2>2
        <3>2. InNode(n) = n
            BY <3>1 DEF InNode, Node
        <3> QED BY <1>10, <3>1, <3>2 DEF InPlace, LatestIs, InNode, Node
    <2> QED BY <2>1, <2>2
<1>12. \A e \in Driver \ {d} : InPlace(e)'
    BY <1>4 DEF InPlace, Underway, Node
<1> QED BY <1>7, <1>8, <1>9, <1>11, <1>12 DEF SoloInv

\* The one driver at work moves inside a node, or stops in one.
LEMMA SoloMove ==
    ASSUME TypeOK, SoloInv, NEW d \in Driver, Act(d), pc[d] \notin {"idle", "exit"},
           NEW p, pc'[d] = p, p # "idle", UNCHANGED <<ckpt, pending, made>>, row' # "none",
           InPlace(d)'
    PROVE  SoloInv'
<1>1. \A e \in Driver \ {d} : pc[e] = "idle" /\ pc'[e] = "idle"
    BY OthersKeep DEF SoloInv, Alone
<1>2. \A c \in pending : c.by = d /\ c.next # "end"
    BY <1>1 DEF SoloInv, Owned, LastOne, TypeOK, Unsaved
<1>3. ckpt.next # "end"
    BY DEF SoloInv, Finished
<1>4. Alone' /\ NoRow' /\ Owned' /\ LastOne' /\ Finished'
    BY <1>1, <1>2, <1>3 DEF Alone, NoRow, Owned, LastOne, Finished
<1>5. InOrder'
    BY DEF SoloInv, InOrder
<1>6. \A e \in Driver \ {d} : InPlace(e)'
    BY <1>1 DEF InPlace, Underway, Node
<1> QED BY <1>4, <1>5, <1>6 DEF SoloInv

\* A driver that leaves with nothing of its own left to store.
LEMMA SoloLeave ==
    ASSUME TypeOK, SoloInv, NEW d \in Driver, Act(d), Leave(d), pc[d] # "idle",
           pending' = {c \in pending : c.by # d}, UNCHANGED <<row, ckpt, made>>
    PROVE  SoloInv'
<1>1. \A e \in Driver : pc'[e] = "idle"
    BY OthersKeep DEF SoloInv, Alone, Leave, TypeOK
<1>2. pending' = {}
    BY DEF SoloInv, Owned, Alone, TypeOK, Unsaved
<1>3. Alone' /\ NoRow' /\ Owned' /\ LastOne' /\ InOrder'
    BY <1>1, <1>2 DEF SoloInv, Alone, NoRow, Owned, LastOne, InOrder
<1>4. Finished'
    BY <1>1, <1>2 DEF SoloInv, Finished
<1>5. \A e \in Driver : InPlace(e)'
    BY <1>1 DEF InPlace, Underway, Node
<1> QED BY <1>3, <1>4, <1>5 DEF SoloInv

\* A checkpoint is stored: the latest stays the latest.
LEMMA SoloSave ==
    ASSUME TypeOK, SoloInv, NEW d \in Driver, Save(d)
    PROVE  SoloInv'
<1>0. /\ made \in Nat /\ ckpt.id \in Nat /\ UNCHANGED <<pc, row, made>>
      /\ \A c \in pending : c.id \in Nat /\ c.by \in Driver
    BY DEF TypeOK, Checkpoint, Unsaved, Save, memory, tables
<1>1. PICK c \in pending : /\ c.by = d /\ \A b \in pending : b.by = d => c.id <= b.id
                           /\ pending' = pending \ {c}
                           /\ ckpt' = [id |-> c.id, next |-> c.next, st |-> c.st]
    BY DEF Save, SoloInv, InOrder
<1>2. \A b \in pending : b.by = d
    BY <1>0, <1>1 DEF SoloInv, Owned, Alone
<1>3. \A b \in pending' : b \in pending /\ c.id < b.id /\ b.id <= made
    BY <1>0, <1>1, <1>2 DEF SoloInv, InOrder
<1>4. c.id <= made /\ ckpt'.id = c.id /\ ckpt'.next = c.next
    BY <1>1 DEF SoloInv, InOrder
<1>5. PICK l \in pending : l.id = made
    BY <1>1 DEF SoloInv, InOrder
<1>6. pending' # {} => l \in pending' /\ l.id = made'
    <2> SUFFICES ASSUME pending' # {} PROVE l # c
        BY <1>0, <1>1, <1>5
    <2>1. PICK b \in pending' : TRUE
        OBVIOUS
    <2> QED BY <1>0, <1>3, <1>5, <2>1
<1>7. InOrder'
    BY <1>0, <1>3, <1>4, <1>6 DEF SoloInv, InOrder
<1>8. Alone' /\ NoRow' /\ Owned' /\ LastOne'
    <2>1. row # "none"
        BY <1>0, <1>1 DEF SoloInv, Owned, NoRow
    <2> QED BY <1>0, <1>3, <2>1 DEF SoloInv, Alone, NoRow, Owned, LastOne
<1>9. Finished'
    <2> SUFFICES ASSUME c.next = "end"
                 PROVE  /\ pending' = {} /\ row \in Terminal
                        /\ \A e \in Driver : pc[e] \in {"idle", "exit"}
        BY <1>0, <1>4 DEF Finished
    <2>1. c.id = made /\ pc[d] = "exit" /\ row \in Terminal
        BY <1>1 DEF SoloInv, LastOne
    <2>2. pending' = {}
        BY <1>0, <1>3, <2>1
    <2>3. \A e \in Driver : e # d => pc[e] = "idle"
        BY <2>1 DEF SoloInv, Alone
    <2> QED BY <2>1, <2>2, <2>3
<1>10. ASSUME NEW n, LatestIs(n) PROVE LatestIs(n)'
    <2>1. PICK b \in pending : b.id = made /\ b.next = n
        BY <1>1, <1>10 DEF LatestIs
    <2>2. b = l
        BY <1>5, <2>1 DEF SoloInv, InOrder
    <2>3. CASE pending' = {}
        <3>1. l = c
            BY <1>1, <2>3
        <3> QED BY <1>4, <2>1, <2>2, <2>3, <3>1 DEF LatestIs
    <2>4. CASE pending' # {}
        BY <1>0, <1>6, <2>1, <2>2, <2>4 DEF LatestIs
    <2> QED BY <2>3, <2>4
<1>11. ASSUME NEW e \in Driver PROVE InPlace(e)'
    <2>1. PICK p : p = pc[e]
        OBVIOUS
    <2>2. p \in Underway => LatestIs(InNode(p))'
        <3>1. p \in Underway => LatestIs(InNode(p))
            BY <2>1 DEF SoloInv, InPlace
        <3>2. PICK n : n = InNode(p)
            OBVIOUS
        <3> QED BY <1>10, <3>1, <3>2
    <2>3. Stopped => Stopped'
        BY <1>0, <1>10 DEF Stopped
    <2>4. p = pc'[e] /\ row' = row
        BY <1>0, <2>1
    <2>5. pc'[e] \in Underway => LatestIs(InNode(pc[e]))'
        BY <2>2, <2>4 DEF LatestIs
    <2> QED BY <1>0, <2>1, <2>3, <2>4, <2>5 DEF SoloInv, InPlace
<1> QED BY <1>7, <1>8, <1>9, <1>11 DEF SoloInv

\* With no overlap allowed, every step keeps driver, checkpoints and row in step.
LEMMA SoloStep ==
    ASSUME MaxOverlaps = 0, TypeOK, SoloInv, [Next]_vars
    PROVE  SoloInv'
<1>t. /\ pc \in [Driver -> PC] /\ row \in Status /\ \A d \in Driver : InPlace(d)
    BY DEF TypeOK, SoloInv
<1>1. CASE UNCHANGED vars
    BY <1>1 DEF vars, tables, memory, thread, SoloInv, Alone, NoRow, InOrder, Owned, LastOne,
                Finished, InPlace, LatestIs, Stopped
<1>r. ASSUME NEW d \in Driver, pc[d] # "idle" PROVE row # "none"
    BY <1>r DEF SoloInv, NoRow
<1>2. ASSUME NEW d \in Driver, CreateRun(d) PROVE SoloInv'
    <2>1. /\ \A e \in Driver : pc[e] = "idle"
          /\ pc'[d] = "enter" /\ row' = "running" /\ UNCHANGED <<ckpt, pending, made>>
          /\ ckpt.next = "none"
        BY <1>2, <1>t DEF CreateRun, SoloInv, NoRow, thread
    <2>2. \A e \in Driver : e # d => pc'[e] = "idle"
        BY <1>2, <2>1, OthersKeep DEF Act
    <2>3. pending = {}
        BY <2>1 DEF SoloInv, Owned, TypeOK, Unsaved
    <2>4. Alone' /\ NoRow' /\ Owned' /\ LastOne' /\ Finished'
        BY <2>1, <2>2, <2>3 DEF Alone, NoRow, Owned, LastOne, Finished
    <2>5. InOrder'
        BY <2>1 DEF SoloInv, InOrder
    <2>6. \A e \in Driver : InPlace(e)'
        BY <2>1, <2>2 DEF InPlace, Underway, Node
    <2> QED BY <2>4, <2>5, <2>6 DEF SoloInv
<1>3. ASSUME NEW d \in Driver, NEW a \in SUBSET Answer, Resume(d, a) PROVE SoloInv'
    <2>1. \A e \in Driver : pc[e] = "idle"
        BY <1>3 DEF Resume, TypeOK
    <2>2. /\ pc'[d] = ckpt.next /\ ckpt.next \in Node /\ ckpt.next # "end" /\ ckpt.next # "none"
          /\ UNCHANGED <<row, ckpt, pending, made>>
        BY <1>3, <1>t DEF Resume, tables, Node
    <2>3. \A e \in Driver : e # d => pc'[e] = "idle"
        BY <1>3, <2>1, OthersKeep DEF Act
    <2>4. pending = {} /\ row # "none"
        BY <2>1, <2>2 DEF SoloInv, Owned, NoRow, TypeOK, Unsaved
    <2>5. Alone' /\ NoRow' /\ Owned' /\ LastOne' /\ Finished'
        BY <2>1, <2>2, <2>3, <2>4 DEF Alone, NoRow, Owned, LastOne, Finished
    <2>6. InOrder'
        BY <2>2 DEF SoloInv, InOrder
    <2>7. InPlace(d)'
        <3>1. InNode(ckpt.next) = ckpt.next /\ ckpt.next # "apply_human_commit" /\ ckpt.next # "exit"
            BY <2>2 DEF InNode, Node
        <3> QED BY <2>2, <2>4, <3>1 DEF InPlace, LatestIs, InNode
    <2>8. \A e \in Driver : e # d => InPlace(e)'
        BY <2>3 DEF InPlace, Underway, Node
    <2> QED BY <2>5, <2>6, <2>7, <2>8 DEF SoloInv
<1>4. ASSUME NEW d \in Driver, Fail(d) \/ Exit(d) PROVE SoloInv'
    <2>1. /\ pc[d] # "idle" /\ Leave(d) /\ pending' = {c \in pending : c.by # d}
          /\ UNCHANGED <<row, ckpt, made>>
        BY <1>4 DEF Fail, Exit, AllSaved, thread, tables
    <2> QED BY <1>4, <2>1, SoloLeave DEF Act, Step
<1>5. ASSUME NEW d \in Driver, EnterGraph(d) PROVE SoloInv'
    <2>1. /\ Return(d, NoChannels, "ingest") /\ pc[d] = "enter" /\ UNCHANGED <<row, ckpt>>
        BY <1>5 DEF EnterGraph, tables, thread
    <2>2. row' # "none"
        BY <1>r, <2>1
    <2> QED BY <1>5, <2>1, <2>2, SoloReturn DEF Act, Step, Node
<1>6. ASSUME NEW d \in Driver, Ingest(d) \/ Deterministic(d) \/ Candidates(d) \/ AdjudicatePersist(d)
                                 \/ ApplyHumanCommit(d)
      PROVE  SoloInv'
    <2>1. PICK t, n : Return(d, t, n) /\ n \in Node /\ UNCHANGED <<row, ckpt>>
        <3>1. AfterAdjudication(st[d]) \in Node
            BY DEF AfterAdjudication, Node
        <3> QED BY <1>6, <3>1
                DEF Ingest, Deterministic, Candidates, AdjudicatePersist, ApplyHumanCommit, thread, Node
    <2>2. pc[d] \notin {"idle", "exit"}
        BY <1>6 DEF Ingest, Deterministic, Candidates, AdjudicatePersist, ApplyHumanCommit
    <2>3. n # "end" /\ row' # "none"
        BY <1>r, <2>1, <2>2 DEF Node
    <2> QED BY <1>6, <2>1, <2>2, <2>3, SoloReturn DEF Act, Step
<1>7. ASSUME NEW d \in Driver, Answered(d) PROVE SoloInv'
    <2>1. PICK t : Return(d, t, "apply_human") /\ UNCHANGED ckpt
        BY <1>7 DEF Answered, thread
    <2>2. pc[d] = "human_review" /\ row' = "awaiting_human"
        BY <1>7 DEF Answered
    <2> QED BY <1>7, <2>1, <2>2, SoloReturn DEF Act, Step, Node
<1>8. ASSUME NEW d \in Driver, CloseRun(d) PROVE SoloInv'
    <2>1. Return(d, st[d], "end") /\ UNCHANGED ckpt
        BY <1>8 DEF CloseRun, thread
    <2>2. pc[d] = "close_run" /\ row' \in Terminal /\ row' # "none"
        BY <1>8 DEF CloseRun, Terminal
    <2> QED BY <1>8, <2>1, <2>2, SoloReturn DEF Act, Step
<1>9. ASSUME NEW d \in Driver, Adjudicate(d) \/ AdjudicateEscalate(d) PROVE SoloInv'
    <2>1. /\ pc[d] \in {"tier3_adjudicate", "tier3_escalate"}
          /\ pc'[d] \in {"tier3_escalate", "tier3_persist"}
          /\ UNCHANGED <<row, ckpt, pending, made>>
        BY <1>9, <1>t DEF Adjudicate, AdjudicateEscalate, tables, thread
    <2>2. LatestIs("tier3_adjudicate")
        BY <1>t, <2>1 DEF InPlace, Underway, Node, InNode
    <2>3. InPlace(d)'
        BY <2>1, <2>2 DEF InPlace, InNode, LatestIs
    <2>4. row' # "none"
        BY <1>r, <2>1
    <2> QED BY <1>9, <2>1, <2>3, <2>4, SoloMove DEF Act, Step
<1>10. ASSUME NEW d \in Driver, Pause(d) PROVE SoloInv'
    <2>1. /\ pc[d] = "human_review" /\ pc'[d] = "exit" /\ row' = "awaiting_human"
          /\ UNCHANGED <<ckpt, pending, made>>
        BY <1>10, <1>t DEF Pause, thread
    <2>2. LatestIs("human_review")
        BY <1>t, <2>1 DEF InPlace, Underway, Node, InNode
    <2>3. InPlace(d)'
        BY <2>1, <2>2 DEF InPlace, Stopped, LatestIs, Underway, Node
    <2> QED BY <1>10, <2>1, <2>3, SoloMove DEF Act, Step
<1>11. ASSUME NEW d \in Driver, ApplyHuman(d) PROVE SoloInv'
    <2>1. /\ pc[d] = "apply_human" /\ pc'[d] = "apply_human_commit" /\ row' # "awaiting_human"
          /\ (row' = row \/ row' = "running") /\ UNCHANGED <<ckpt, pending, made>>
        BY <1>11, <1>t DEF ApplyHuman, thread
    <2>2. LatestIs("apply_human")
        BY <1>t, <2>1 DEF InPlace, Underway, Node, InNode
    <2>3. InPlace(d)'
        BY <2>1, <2>2 DEF InPlace, LatestIs, InNode
    <2>4. row' # "none"
        BY <1>r, <2>1
    <2> QED BY <1>11, <2>1, <2>3, <2>4, SoloMove DEF Act, Step
<1>12. ASSUME NEW d \in Driver, ApplyHumanRejected(d) PROVE SoloInv'
    <2>1. /\ pc[d] = "apply_human_commit" /\ pc'[d] = "exit" /\ UNCHANGED <<row, ckpt, pending, made>>
        BY <1>12, <1>t DEF ApplyHumanRejected, tables, thread
    <2>2. LatestIs("apply_human") /\ row # "awaiting_human"
        BY <1>t, <2>1 DEF InPlace, Underway, InNode
    <2>3. InPlace(d)'
        BY <2>1, <2>2 DEF InPlace, Stopped, LatestIs, Underway, Node
    <2>4. row' # "none"
        BY <1>r, <2>1
    <2> QED BY <1>12, <2>1, <2>3, <2>4, SoloMove DEF Act, Step
<1>13. ASSUME NEW d \in Driver, Act(d) PROVE SoloInv'
    BY <1>2, <1>3, <1>4, <1>5, <1>6, <1>7, <1>8, <1>9, <1>10, <1>11, <1>12, <1>13, SoloSave
    DEF Act, Step
<1> QED BY <1>1, <1>13, ActStep

\* A run that has not begun has one story to tell.
LEMMA SoloInit == Init => SoloInv
BY DEF Init, SoloInv, Alone, NoRow, InOrder, Owned, LastOne, Finished, InPlace, Underway, Node

\* With one driver at a time, however often it dies, the run's status tells a reader
\* of a call that came back where the run stands.
THEOREM StatusCorrect == ASSUME MaxOverlaps = 0 PROVE Spec => []StatusTellsTruth
<1>1. TypeOK /\ SoloInv /\ [Next]_vars => SoloInv'
    BY SoloStep
<1>2. TypeOK /\ SoloInv => StatusTellsTruth
    <2> SUFFICES ASSUME TypeOK, SoloInv PROVE StatusTellsTruth
        OBVIOUS
    <2>1. ASSUME NEW d \in Driver, pc[d] = "exit", AllSaved(d)
          PROVE  ckpt.next = "human_review" <=> row = "awaiting_human"
        <3>1. \A c \in pending : c.by = d
            BY <2>1 DEF SoloInv, Owned, Alone, TypeOK, Unsaved
        <3>2. pending = {}
            BY <2>1, <3>1 DEF AllSaved
        <3>3. Stopped
            BY <2>1 DEF SoloInv, InPlace
        <3> QED BY <3>2, <3>3 DEF Stopped, LatestIs, Terminal
    <2> QED BY <2>1 DEF StatusTellsTruth, SoloInv, Finished
<1> QED BY SoloInit, <1>1, <1>2, TypeCorrect, PTL DEF Spec
-----------------------------------------------------------------------------
\* What RunPromise sees of the tables and the last checkpoint.
Facts == [l \in Line |-> {FactOf(r.kind) : r \in {x \in decisions : x.line = l}}]
Phase == IF ckpt.next = "end" THEN row ELSE "open"

LinesOf(rows) == {l \in Line : \E r \in rows : r.line = l}

\* A transaction of one kind adds one fact about the lines of its rows.
LEMMA FactsGrow ==
    ASSUME NEW rows, NEW fact, decisions' = decisions \cup rows,
           \A r \in rows : FactOf(r.kind) = fact
    PROVE  Facts' = [l \in Line |-> IF l \in LinesOf(rows) THEN Facts[l] \cup {fact} ELSE Facts[l]]
<1>1. ASSUME NEW l \in Line
      PROVE  Facts'[l] = IF l \in LinesOf(rows) THEN Facts[l] \cup {fact} ELSE Facts[l]
    <2>1. /\ Facts'[l] = {FactOf(r.kind) : r \in {x \in decisions' : x.line = l}}
          /\ Facts[l] = {FactOf(r.kind) : r \in {x \in decisions : x.line = l}}
        BY DEF Facts, FactOf
    <2>2. CASE l \notin LinesOf(rows)
        BY <2>1, <2>2 DEF LinesOf
    <2>3. CASE l \in LinesOf(rows)
        <3>1. PICK r \in rows : r.line = l
            BY <2>3 DEF LinesOf
        <3>2. fact \in Facts'[l]
            BY <2>1, <3>1
        <3>3. \A f \in Facts[l] : f \in Facts'[l]
            BY <2>1
        <3>4. \A f \in Facts'[l] : f \in Facts[l] \/ f = fact
            BY <2>1
        <3> QED BY <2>3, <3>2, <3>3, <3>4
    <2> QED BY <2>2, <2>3
<1>2. Facts' = [l \in Line |-> Facts'[l]]
    BY DEF Facts
<1> QED BY <1>1, <1>2

\* While a driver is at work the run is open, and its steps leave it open.
LEMMA OpenInside ==
    ASSUME SoloInv, NEW d \in Driver, pc[d] \notin {"idle", "exit"} \/ row = "none"
    PROVE  Phase = "open" /\ (UNCHANGED ckpt => Phase' = "open")
BY DEF SoloInv, Finished, Terminal, Phase

\* Every step is one of the promise, or one it does not see.
LEMMA PromiseStep ==
    ASSUME MaxOverlaps = 0, TypeOK, SoloInv, LinesInv, QueueIsEscalated, [Next]_vars
    PROVE  [Promise!Next]_<<Facts, Phase>>
<1> DEFINE Goal == Promise!Next \/ UNCHANGED <<Facts, Phase>>
<1>m. /\ Facts = [l \in Line |-> {FactOf(r.kind) : r \in {x \in decisions : x.line = l}}]
      /\ Phase = IF ckpt.next = "end" THEN row ELSE "open"
    BY DEF Facts, Phase
<1>a. ASSUME UNCHANGED decisions, Phase' = Phase PROVE Goal
    BY <1>a DEF Facts, FactOf
<1>b. ASSUME NEW rows, NEW fact \in {"committed", "escalated"}, decisions' = decisions \cup rows,
             \A r \in rows : FactOf(r.kind) = fact, Phase = "open", Phase' = "open"
      PROVE  Goal
    <2>1. PICK lines \in SUBSET Line :
            Facts' = [l \in Line |-> IF l \in lines THEN Facts[l] \cup {fact} ELSE Facts[l]]
        <3>1. LinesOf(rows) \in SUBSET Line
            BY DEF LinesOf
        <3>2. Facts' = [l \in Line |-> IF l \in LinesOf(rows) THEN Facts[l] \cup {fact} ELSE Facts[l]]
            BY <1>b, FactsGrow
        <3> QED BY <3>1, <3>2
    <2>2. Phase' = Phase /\ fact \in Promise!Fact
        BY <1>b DEF Phase, Promise!Fact
    <2>3. Promise!Decide(lines, fact)
        BY <1>b, <2>1, <2>2 DEF Promise!Decide, Facts, Phase
    <2> QED BY <2>2, <2>3 DEF Promise!Next
<1>1. ASSUME UNCHANGED vars PROVE Goal
    BY <1>1, <1>a DEF vars, tables, thread, Phase
<1>2. ASSUME NEW d \in Driver, Fail(d) \/ Exit(d) \/ \E a \in SUBSET Answer : Resume(d, a)
      PROVE  Goal
    <2>1. UNCHANGED <<row, decisions, ckpt>>
        BY <1>2 DEF Fail, Exit, Resume, tables, thread
    <2> QED BY <1>a, <2>1 DEF Phase
<1>3. ASSUME NEW d \in Driver,
             \/ CreateRun(d) \/ EnterGraph(d) \/ Ingest(d) \/ Candidates(d) \/ Adjudicate(d)
             \/ Pause(d) \/ Answered(d) \/ ApplyHuman(d) \/ ApplyHumanRejected(d) \/ CloseRun(d)
      PROVE  Goal
    <2>1. UNCHANGED <<decisions, ckpt>> /\ (pc[d] \notin {"idle", "exit"} \/ row = "none")
        BY <1>3 DEF CreateRun, EnterGraph, Ingest, Candidates, Adjudicate, Pause, Answered,
                    ApplyHuman, ApplyHumanRejected, CloseRun, Persist, tables, thread
    <2>2. Phase' = Phase
        BY <2>1, OpenInside
    <2> QED BY <1>a, <2>1, <2>2
<1>4. ASSUME NEW d \in Driver, Deterministic(d) \/ AdjudicateEscalate(d) \/ AdjudicatePersist(d)
      PROVE  Goal
    <2>1. Phase = "open" /\ Phase' = "open"
        <3>1. UNCHANGED ckpt /\ pc[d] \notin {"idle", "exit"}
            BY <1>4 DEF Deterministic, AdjudicateEscalate, AdjudicatePersist, thread
        <3> QED BY <3>1, OpenInside
    <2>2. PICK commits, kind : /\ kind \in {"deterministic", "model", "escalated"}
                               /\ decisions' = decisions \cup Rows(commits, kind)
        <3>1. CASE Deterministic(d)
            BY <3>1 DEF Deterministic, Persist
        <3>2. CASE AdjudicateEscalate(d)
            BY <3>2 DEF AdjudicateEscalate
        <3>3. CASE AdjudicatePersist(d)
            BY <3>3 DEF AdjudicatePersist, Persist
        <3> QED BY <1>4, <3>1, <3>2, <3>3
    <2>3. \A r \in Rows(commits, kind) : FactOf(r.kind) = FactOf(kind)
        BY DEF Rows
    <2>4. FactOf(kind) \in {"committed", "escalated"}
        BY <2>2 DEF FactOf
    <2> QED BY <1>b, <2>1, <2>2, <2>3, <2>4
<1>5. ASSUME NEW d \in Driver, ApplyHumanCommit(d) PROVE Goal
    <2>1. Phase = "open" /\ Phase' = "open"
        <3>1. UNCHANGED ckpt /\ pc[d] \notin {"idle", "exit"}
            BY <1>5 DEF ApplyHumanCommit, thread
        <3> QED BY <3>1, OpenInside
    <2>2. PICK rows : rows = HumanRows(st[d]) /\ decisions' = decisions \cup rows
        BY <1>5 DEF ApplyHumanCommit, Persist
    <2>3. PICK fact : fact = "reviewed" /\ \A r \in rows : FactOf(r.kind) = fact
        BY <2>2 DEF HumanRows, FactOf
    <2>4. PICK lines \in SUBSET Line :
            /\ lines = LinesOf(rows)
            /\ Facts' = [l \in Line |-> IF l \in lines THEN Facts[l] \cup {"reviewed"} ELSE Facts[l]]
        <3>1. LinesOf(rows) \in SUBSET Line
            BY DEF LinesOf
        <3>2. Facts' = [l \in Line |-> IF l \in LinesOf(rows) THEN Facts[l] \cup {fact} ELSE Facts[l]]
            <4>1. decisions' = decisions \cup rows
                BY <2>2
            <4>2. \A r \in rows : FactOf(r.kind) = fact
                BY <2>3
            <4> QED BY ONLY <4>1, <4>2, FactsGrow
        <3> QED BY <2>3, <3>1, <3>2
    <2>5. ASSUME NEW l \in lines PROVE "escalated" \in Facts[l]
        <3>1. PICK q \in st[d].queue : q.line = l
            BY <2>2, <2>4 DEF LinesOf, HumanRows
        <3>2. Escalated(q.line, q.esc)
            BY DEF QueueIsEscalated, AllChannels
        <3>3. PICK x \in decisions : x.line = l /\ x.kind = "escalated"
            BY <3>1, <3>2 DEF Escalated
        <3> QED BY <3>3 DEF Facts, FactOf
    <2>6. Promise!Review(lines)
        BY <2>1, <2>4, <2>5 DEF Promise!Review, Facts, Phase
    <2> QED BY <2>6 DEF Promise!Next
<1>6. ASSUME NEW d \in Driver, Save(d) PROVE Goal
    <2>1. UNCHANGED <<row, decisions>>
        BY <1>6 DEF Save, tables
    <2>2. PICK c \in pending : UNCHANGED ckpt \/ ckpt'.next = c.next
        BY <1>6 DEF Save, thread
    <2>3. Phase = "open"
        BY <2>2 DEF SoloInv, Finished, Phase
    <2>4. CASE ckpt'.next # "end"
        BY <1>a, <2>1, <2>3, <2>4 DEF Phase
    <2>5. CASE ckpt'.next = "end"
        <3>1. row \in Terminal
            BY <2>2, <2>5 DEF SoloInv, LastOne, Finished
        <3>2. Phase' = row /\ Facts' = Facts
            BY <2>1, <2>5 DEF Phase, Facts, FactOf
        <3>3. ASSUME row = "completed", NEW l \in Line PROVE Facts[l] # {}
            <4>1. PICK r \in decisions : r.line = l
                BY <3>3 DEF LinesInv, CompletedCoversEveryLine
            <4> QED BY <4>1 DEF Facts
        <3>4. Promise!Close
            BY <2>3, <3>1, <3>2, <3>3 DEF Promise!Close, Facts, Phase, Terminal
        <3> QED BY <3>4 DEF Promise!Next
    <2> QED BY <2>4, <2>5
<1> HIDE DEF Goal
<1>7. ASSUME NEW d \in Driver, Act(d) PROVE Goal
    BY <1>2, <1>3, <1>4, <1>5, <1>6, <1>7 DEF Act, Step
<1>8. Goal
    BY <1>1, <1>7, ActStep
<1> QED BY <1>8 DEF Goal

\* With one driver at a time, however often it dies and is continued, a run keeps the
\* abstract promise: the graph, its checkpoints and its tables implement RunPromise.
THEOREM PromiseKept == ASSUME MaxOverlaps = 0 PROVE Spec => KeepsPromise
<1>1. TypeOK /\ SoloInv /\ [Next]_vars => SoloInv'
    BY SoloStep
<1>2. Init => Promise!Init
    BY DEF Init, Promise!Init
<1>3. TypeOK /\ SoloInv /\ LinesInv /\ QueueIsEscalated /\ [Next]_vars
        => [Promise!Next]_<<Facts, Phase>>
    BY PromiseStep
<1> QED BY SoloInit, <1>1, <1>2, <1>3, TypeCorrect, LinesCorrect, QueueCorrect, PTL
        DEF Spec, KeepsPromise, Promise!Spec, Promise!vars, Facts, Phase
=============================================================================
