------------------------- MODULE AdjudicationProofs -------------------------
(***************************************************************************)
(* Proofs about Adjudication and Replay for any lines, hits, answers,       *)
(* workers, crashes and index changes: what is committed was recorded, is   *)
(* decided on the candidates of the checkpoint, stored or not yet, and what *)
(* the index returned is recorded before it is used. The run's cost is      *)
(* within the bill and, when no process died, misses only what the rejected *)
(* answers cost; then the replay of a clean run is identical or refused.    *)
(***************************************************************************)
EXTENDS Replay, FiniteSetTheorems, TLAPS

Covers(rows) == \A l \in Line : \E r \in rows : r.line = l

OnGiven(rows) ==
    \A d \in rows : \E r \in given : r.line = d.line /\ d.request = Request(d.line, r.hits)

\* The lines with hits have a recorded query.
HitsRecorded(rows) ==
    \A r \in rows : r.hits # NoHits => \E q \in retrieval : q.line = r.line

\* What Tier 3 is given is complete, and the checkpoint holds it when it holds any.
Handover ==
    /\ at \in {"tier2", "return2"} => given = {}
    /\ at \notin {"tier2", "return2"} => Covers(given)
    /\ at = "return2" => Covers(found)
    /\ ckpt # {} => ckpt = given

\* NullIndex finds nothing; what the vector index finds is recorded by the flush.
Flushed ==
    /\ ~ online => \A r \in found : r.hits = NoHits
    /\ HitsRecorded(given)
    /\ at = "return2" => HitsRecorded(found)
    /\ crashes = 0 => /\ at = "tier2" => retrieval = {}
                      /\ at = "return2" => retrieval \in {{}, found}
                      /\ at \notin {"tier2", "return2"} => retrieval \in {{}, given}

\* Decisions, and the ones still in memory, have their call; those in memory were
\* made on the candidates given.
Traced == decisions \cup chosen \subseteq calls /\ OnGiven(chosen)

IInv == Handover /\ Flushed /\ Traced /\ crashes \in Nat

-----------------------------------------------------------------------------
\* Nothing is recorded, saved or decided at the start.
LEMMA InitInv == Init => IInv
BY DEF Init, IInv, Handover, Flushed, HitsRecorded, Traced, OnGiven

\* In Tier 2 nothing has been chosen.
LEMMA NothingChosen ==
    ASSUME IInv, at \in {"tier2", "return2"}
    PROVE  chosen = {}
BY DEF IInv, Handover, Traced, OnGiven

\* Tier 2 keeps the invariant: it decides nothing, records before it returns.
LEMMA Tier2Inv ==
    ASSUME IInv, (\E l \in Line : Retrieve(l)) \/ Flush \/ ReturnCandidates
    PROVE  IInv'
<1> USE DEF IInv, Handover, Traced, OnGiven, Covers, Request
<1>1. CASE \E l \in Line : Retrieve(l)
    <2>1. Flushed'
        BY <1>1 DEF Retrieve, Flushed, HitsRecorded, tables, thread
    <2> QED BY <1>1, <2>1 DEF Retrieve, tables, thread, loop
<1>2. CASE Flush
    <2>1. HitsRecorded(found)' /\ HitsRecorded(given)'
        BY <1>2 DEF Flush, Flushed, HitsRecorded, thread
    <2>2. crashes = 0 => retrieval' \in {{}, found'}
        BY <1>2 DEF Flush, Flushed
    <2>3. Flushed'
        BY <1>2, <2>1, <2>2 DEF Flush, Flushed, thread
    <2> QED BY <1>2, <2>3 DEF Flush, thread, loop
<1>3. CASE ReturnCandidates
    <2>1. Flushed'
        BY <1>3 DEF ReturnCandidates, Flushed, HitsRecorded, tables
    <2>2. chosen = {}
        BY <1>3, NothingChosen DEF ReturnCandidates
    <2> QED BY <1>3, <2>1, <2>2 DEF ReturnCandidates, tables, loop
<1> QED BY <1>1, <1>2, <1>3

\* Recording one result keeps the invariant: the row that is chosen is stored.
LEMMA RecordInv ==
    ASSUME IInv, NEW l \in Line, Record(l)
    PROVE  IInv'
<1> USE DEF IInv
<1>1. at = "loop" /\ UNCHANGED <<at, ckpt, given, online, retrieval, found, decisions, crashes>>
    BY DEF Record, thread
<1>2. Handover' /\ Flushed'
    BY <1>1 DEF Handover, Covers, Flushed, HitsRecorded
<1>3. \/ chosen' = chosen /\ calls \subseteq calls'
      \/ chosen' = chosen \cup {Row(l)} /\ calls' = calls \cup {Row(l)}
    BY DEF Record
<1>4. Row(l).line = l /\ Row(l).request = Request(l, Shown(l))
    BY DEF Row
<1>5. \E r \in given : r.line = l /\ r.hits = Shown(l)
    <2>1. \E r \in given : r.line = l
        BY <1>1 DEF Handover, Covers
    <2> QED BY <2>1 DEF Shown
<1>6. Traced'
    <2>1. (decisions \cup chosen \subseteq calls)'
        BY <1>1, <1>3 DEF Traced
    <2>2. OnGiven(chosen)'
        BY <1>1, <1>3, <1>4, <1>5 DEF Traced, OnGiven, Request
    <2> QED BY <2>1, <2>2 DEF Traced
<1> QED BY <1>1, <1>2, <1>6

\* The other steps move no row but the ones _persist stores, and drop memory.
LEMMA OtherInv ==
    ASSUME IInv,
           \/ IndexChanges \/ Submit \/ Gather \/ \E l \in Line : Call(l) \/ Return(l)
           \/ StoreCandidates \/ StoreCost \/ Persist \/ SaveDecisions \/ Crash
           \/ UNCHANGED vars
    PROVE  IInv'
<1> USE DEF IInv, Handover, Flushed, HitsRecorded, Traced, OnGiven, Covers, Request,
            tables, thread, fanout, loop
<1>1. CASE IndexChanges \/ UNCHANGED vars
    BY <1>1 DEF IndexChanges, vars
<1>2. CASE Submit \/ Gather
    BY <1>2 DEF Submit, Gather
<1>3. CASE \E l \in Line : Call(l) \/ Return(l)
    BY <1>3 DEF Call, Return
<1>4. CASE StoreCost \/ Persist \/ SaveDecisions
    BY <1>4 DEF StoreCost, Persist, SaveDecisions
<1>5. CASE StoreCandidates
    BY <1>5 DEF StoreCandidates
<1>6. CASE Crash
    BY <1>6 DEF Crash
<1> QED BY <1>1, <1>2, <1>3, <1>4, <1>5, <1>6

\* The invariant is inductive.
LEMMA NextInv == IInv /\ [Next]_vars => IInv'
BY Tier2Inv, RecordInv, OtherInv DEF Next

-----------------------------------------------------------------------------
\* Every committed model decision is traced to a stored call, however often the
\* process died and the model was asked again (nodes.py 253-276).
THEOREM CommitsRecorded == Spec => []CommitsAreRecorded
<1>1. IInv => CommitsAreRecorded
    BY DEF IInv, Traced, CommitsAreRecorded
<1> QED BY <1>1, InitInv, NextInv, PTL DEF Spec

\* What _persist stores was chosen on the candidates of the checkpoint, stored or on
\* its way there, never on a later search.
THEOREM DecidedOnSaved == Spec => DecidedOnSavedCandidates
<1> DEFINE Saved == \A d \in decisions' \ decisions :
                      \E r \in (IF ckpt = {} THEN given ELSE ckpt) :
                        r.line = d.line /\ d.request = Request(d.line, r.hits)
<1>1. IInv /\ [Next]_vars => [Saved]_vars
    <2> SUFFICES ASSUME IInv, Next PROVE Saved
        OBVIOUS
    <2>1. (IF ckpt = {} THEN given ELSE ckpt) = given
        BY DEF IInv, Handover
    <2>2. decisions' = decisions \/ decisions' = decisions \cup chosen
        BY DEF Next, IndexChanges, Retrieve, Flush, ReturnCandidates, StoreCandidates, Submit,
           Call, Return, Gather, Record, StoreCost, Persist, SaveDecisions, Crash, tables
    <2> QED BY <2>1, <2>2 DEF IInv, Traced, OnGiven
<1> QED BY <1>1, InitInv, NextInv, PTL DEF Spec, DecidedOnSavedCandidates

\* No hit reaches Tier 3 before its query is recorded, and the recording of a run that
\* never died is whole or missing.
THEOREM RetrievalRecorded == Spec => []RetrievalIsRecorded
<1>1. IInv => RetrievalIsRecorded
    BY DEF IInv, Handover, Flushed, HitsRecorded, RetrievalIsRecorded
<1> QED BY <1>1, InitInv, NextInv, PTL DEF Spec

-----------------------------------------------------------------------------
\* The candidates a line was shown are hits of this instance.
LEMMA ShownType ==
    ASSUME TypeOK, Covers(given), NEW l \in Line
    PROVE  [line |-> l, hits |-> Shown(l)] \in given /\ Shown(l) \in Hits
<1>1. PICK r \in given : r.line = l
    BY DEF Covers
<1> DEFINE s == CHOOSE c \in given : c.line = l
<1>2. s \in given /\ s.line = l
    BY <1>1
<1>3. s \in [line: Line, hits: Hits]
    BY <1>2 DEF TypeOK
<1> QED BY <1>2, <1>3 DEF Shown

\* A result's row has the type of the table of calls.
LEMMA RowType ==
    ASSUME TypeOK, Covers(given), NEW l \in Line, answers[l] \in Answer
    PROVE  Row(l) \in [line: Line, request: {Payment[m] : m \in Line} \X Hits, answer: Answer]
BY ShownType DEF Row, Request

\* What the loop records has come back.
HasResult == at = "loop" => \A l \in toRecord : answers[l] # "none"

\* Every step keeps the types, and the loop only records results.
LEMMA TypeNext ==
    ASSUME TypeOK, HasResult, IInv, [Next]_vars
    PROVE  TypeOK' /\ HasResult'
<1> USE ConfigAssumption, HitsAssumption DEF TypeOK, HasResult, tables, thread, fanout, loop
<1>1. CASE IndexChanges
    BY <1>1 DEF IndexChanges
<1>2. CASE \E l \in Line : Retrieve(l)
    BY <1>2 DEF Retrieve
<1>3. CASE Flush \/ ReturnCandidates \/ StoreCandidates
    BY <1>3 DEF Flush, ReturnCandidates, StoreCandidates
<1>4. CASE Submit \/ Gather
    BY <1>4 DEF Submit, Gather, NoAnswers
<1>5. CASE \E l \in Line : Call(l)
    BY <1>5 DEF Call
<1>6. CASE \E l \in Line : Return(l)
    BY <1>6 DEF Return, Answer
<1>7. CASE \E l \in Line : Record(l)
    <2>1. PICK l \in Line : Record(l)
        BY <1>7
    <2>2. l \in toRecord /\ answers[l] \in Answer /\ Covers(given)
        BY <2>1 DEF Record, Least, IInv, Handover
    <2>3. PICK row : row = Row(l)
        OBVIOUS
    <2>4. row \in [line: Line, request: {Payment[m] : m \in Line} \X Hits, answer: Answer]
        BY <2>2, <2>3, RowType
    <2>5. row.answer = answers[l]
        BY <2>3 DEF Row
    <2>6. answers[l] \in Committed =>
            row \in [line: Line, request: {Payment[m] : m \in Line} \X Hits, answer: Committed]
        BY <2>4, <2>5
    <2> QED BY <2>1, <2>3, <2>4, <2>6 DEF Record
<1>8. CASE StoreCost \/ Persist \/ SaveDecisions
    BY <1>8 DEF StoreCost, Persist, SaveDecisions
<1>9. CASE Crash
    BY <1>9 DEF Crash, NoAnswers
<1>10. CASE UNCHANGED vars
    BY <1>10 DEF vars
<1> QED BY <1>1, <1>2, <1>3, <1>4, <1>5, <1>6, <1>7, <1>8, <1>9, <1>10 DEF Next

\* The tables and the memory of the two nodes hold rows of the run's lines.
THEOREM TypeCorrect == Spec => []TypeOK
<1>1. Init => TypeOK /\ HasResult
    BY DEF Init, TypeOK, HasResult, NoAnswers
<1> QED BY <1>1, InitInv, NextInv, TypeNext, PTL DEF Spec

-----------------------------------------------------------------------------
\* The lines whose answer is metered, and those whose answer is paid for and lost.
Answered == {l \in Line : answers[l] \notin {"none"} \cup Raised}
Rejected == {l \in Line : answers[l] = "rejected"}

Cost(lines) == CallCost * Cardinality(lines)

\* What the process has been charged for: the meter, what the loop has still to
\* record, and what it never will.
Paid ==
    CASE at = "calls" -> Cost(Answered) + Cost(Rejected)
      [] at = "loop"  -> spent + Cost(toRecord \cap Answered) + Cost(Rejected)
      [] at \in {"commit", "return3", "done"} -> spent + Cost(Rejected)
      [] OTHER -> 0

\* A process that died was charged for more.
Accounted == Paid <= billed /\ (crashes = 0 => Paid = billed)

\* A line that waits or is asked has no answer yet; the run's cost is the meter's.
Metered ==
    /\ waiting \cap running = {}
    /\ at # "calls" => waiting = {} /\ running = {}
    /\ at = "calls" => \A l \in waiting \cup running : answers[l] = "none"
    /\ at \in {"tier2", "return2", "tier3", "calls"} => spent = 0
    /\ at \in {"commit", "return3", "done"} => cost = spent
    /\ cost <= billed
    /\ Accounted

\* Cost is proportional to the number of lines.
LEMMA CostType ==
    ASSUME NEW S, IsFiniteSet(S)
    PROVE  Cost(S) \in Nat
<1>1. Cardinality(S) \in Nat
    BY FS_CardinalityType
<1> QED BY <1>1, ConfigAssumption DEF Cost

LEMMA CostEmpty == Cost({}) = 0
<1>1. CallCost * 0 = 0
    BY ConfigAssumption
<1> QED BY <1>1, FS_EmptySet DEF Cost

LEMMA CostAdd ==
    ASSUME NEW S, IsFiniteSet(S), NEW x, x \notin S
    PROVE  Cost(S \cup {x}) = Cost(S) + CallCost
<1>1. PICK k \in Nat : k = Cardinality(S)
    BY FS_CardinalityType
<1>2. Cardinality(S \cup {x}) = k + 1
    BY <1>1, FS_AddElement
<1>3. CallCost * (k + 1) = CallCost * k + CallCost
    BY ConfigAssumption
<1> QED BY <1>1, <1>2, <1>3 DEF Cost

LEMMA CostRemove ==
    ASSUME NEW S, IsFiniteSet(S), NEW x \in S
    PROVE  Cost(S) = Cost(S \ {x}) + CallCost
<1>1. IsFiniteSet(S \ {x}) /\ x \notin S \ {x} /\ (S \ {x}) \cup {x} = S
    BY FS_Subset
<1> QED BY <1>1, CostAdd

\* The lines are finitely many.
LEMMA LinesFinite == \A S : S \subseteq Line => IsFiniteSet(S) /\ Cost(S) \in Nat
BY LineAssumption, FS_Subset, CostType

\* What is charged for an answer that comes in is what it adds to the accounts.
LEMMA ReturnPaid ==
    ASSUME TypeOK, Metered, NEW l \in Line, NEW a \in Answer, at = "calls", l \in running,
           answers' = [answers EXCEPT ![l] = a], at' = at
    PROVE  Paid' = Paid + (IF a = "failed" THEN 0 ELSE CallCost)
<1>1. answers[l] = "none" /\ a # "none"
    BY AnswerAssumption DEF Metered, Answer
<1>2. \A m \in Line : answers'[m] = IF m = l THEN a ELSE answers[m]
    BY DEF TypeOK
<1>3. l \notin Answered /\ l \notin Rejected
    BY <1>1 DEF Answered, Rejected
<1>4. IsFiniteSet(Answered) /\ IsFiniteSet(Rejected) /\ Cost(Answered) \in Nat
      /\ Cost(Rejected) \in Nat
    BY LinesFinite DEF Answered, Rejected
<1>5. Paid = Cost(Answered) + Cost(Rejected) /\ Paid' = Cost(Answered)' + Cost(Rejected)'
    BY DEF Paid
<1>6. Cost(Answered)' = Cost(Answered') /\ Cost(Rejected)' = Cost(Rejected')
    BY DEF Cost
<1>7. CASE a = "failed"
    <2>1. Answered' = Answered /\ Rejected' = Rejected
        BY <1>2, <1>3, <1>7 DEF Answered, Rejected, Raised
    <2> QED BY <1>4, <1>5, <1>6, <1>7, <2>1
<1>8. CASE a = "rejected"
    <2>1. Answered' = Answered /\ Rejected' = Rejected \cup {l}
        BY <1>2, <1>3, <1>8 DEF Answered, Rejected, Raised
    <2>2. Cost(Rejected') = Cost(Rejected) + CallCost
        BY <1>3, <1>4, <2>1, CostAdd
    <2> QED BY <1>4, <1>5, <1>6, <1>8, <2>1, <2>2, ConfigAssumption
<1>9. CASE a \notin Raised
    <2>1. Answered' = Answered \cup {l} /\ Rejected' = Rejected /\ a # "failed"
        BY <1>1, <1>2, <1>3, <1>9 DEF Answered, Rejected, Raised
    <2>2. Cost(Answered') = Cost(Answered) + CallCost
        BY <1>3, <1>4, <2>1, CostAdd
    <2> QED BY <1>4, <1>5, <1>6, <2>1, <2>2, ConfigAssumption
<1> QED BY <1>7, <1>8, <1>9 DEF Raised

\* An answer is charged as it comes in, whether it is rejected or not.
LEMMA ReturnMetered ==
    ASSUME TypeOK, Metered, NEW l \in Line, Return(l)
    PROVE  Metered'
<1>1. PICK a \in Answer : /\ answers' = [answers EXCEPT ![l] = a]
                          /\ billed' = billed + (IF a = "failed" THEN 0 ELSE CallCost)
    BY DEF Return
<1>2. at = "calls" /\ l \in running /\ running' = running \ {l}
      /\ UNCHANGED <<at, waiting, crashes, spent, cost>>
    BY DEF Return, loop, tables
<1>3. Paid' = Paid + (IF a = "failed" THEN 0 ELSE CallCost)
    BY <1>1, <1>2, ReturnPaid
<1>4. Paid \in Nat
    <2>1. Cost(Answered) \in Nat /\ Cost(Rejected) \in Nat
        BY LinesFinite DEF Answered, Rejected
    <2> QED BY <1>2, <2>1 DEF Paid
<1>5. Accounted' /\ billed <= billed'
    BY <1>1, <1>2, <1>3, <1>4, ConfigAssumption DEF Metered, Accounted, TypeOK
<1>6. \A m \in waiting' \cup running' : answers'[m] = "none"
    BY <1>1, <1>2 DEF Metered, TypeOK
<1> QED BY <1>1, <1>2, <1>5, <1>6, ConfigAssumption DEF Metered, TypeOK

\* Recording a result moves its cost to the meter, unless the call raised.
LEMMA RecordMetered ==
    ASSUME TypeOK, HasResult, Metered, NEW l \in Line, Record(l)
    PROVE  Metered'
<1> DEFINE due == toRecord \cap Answered
<1>1. at = "loop" /\ l \in toRecord /\ toRecord' = toRecord \ {l}
      /\ UNCHANGED <<at, waiting, running, answers, crashes, billed, cost>>
    BY DEF Record, Least, fanout
<1>2. IF answers[l] \in Raised THEN spent' = spent ELSE spent' = spent + CallCost
    BY DEF Record
<1>3. IsFiniteSet(due) /\ Cost(due) \in Nat /\ Cost(Rejected) \in Nat /\ Cost(due \ {l}) \in Nat
    BY LinesFinite DEF Answered, Rejected
<1>4. answers[l] # "none" /\ Answered' = Answered /\ Rejected' = Rejected
    BY <1>1 DEF HasResult, Answered, Rejected
<1>5. Paid = spent + Cost(due) + Cost(Rejected)
      /\ Paid' = spent' + Cost(due') + Cost(Rejected)
    BY <1>1, <1>4 DEF Paid, Cost
<1>6. Paid' = Paid
    <2>1. CASE answers[l] \in Raised
        <3>1. due' = due
            BY <1>1, <1>4, <2>1 DEF Answered
        <3> QED BY <1>2, <1>5, <2>1, <3>1
    <2>2. CASE answers[l] \notin Raised
        <3>1. due' = due \ {l} /\ l \in due
            BY <1>1, <1>4, <2>2 DEF Answered
        <3>2. Cost(due) = Cost(due') + CallCost
            BY <1>3, <3>1, CostRemove
        <3> HIDE DEF due
        <3> QED BY <1>2, <1>3, <1>5, <2>2, <3>1, <3>2, ConfigAssumption DEF TypeOK
    <2> QED BY <2>1, <2>2
<1> QED BY <1>1, <1>6 DEF Metered, Accounted

\* The accounts of two states are the same when what they are made of is.
LEMMA PaidKept ==
    ASSUME Metered, UNCHANGED <<waiting, running, answers, crashes, billed, spent, cost, toRecord>>,
           at' = at \/ (at \in {"tier2", "return2"} /\ at' \in {"tier2", "return2", "tier3"})
                    \/ (at \in {"commit", "return3"} /\ at' \in {"return3", "done"})
    PROVE  Metered'
<1>1. Answered' = Answered /\ Rejected' = Rejected
    BY DEF Answered, Rejected
<1>2. Cost(Answered)' = Cost(Answered) /\ Cost(Rejected)' = Cost(Rejected)
      /\ Cost(toRecord \cap Answered)' = Cost(toRecord \cap Answered)
    BY <1>1 DEF Cost
<1>3. Paid' = Paid
    BY <1>2 DEF Paid
<1> QED BY <1>3 DEF Metered, Accounted

\* The steps of the fan-out: nothing is paid when it starts, and when it ends, what was
\* paid is due to be recorded.
LEMMA FanOutMetered ==
    ASSUME TypeOK, Metered, Submit \/ Gather \/ \E l \in Line : Call(l)
    PROVE  Metered'
<1> USE DEF tables, fanout, loop
<1>1. CASE Submit
    <2>1. answers' = NoAnswers /\ at = "tier3" /\ at' = "calls"
          /\ UNCHANGED <<spent, cost, billed, crashes, running>>
        BY <1>1 DEF Submit
    <2>2. Answered' = {} /\ Rejected' = {}
        BY <2>1 DEF Answered, Rejected, NoAnswers
    <2>3. Paid' = 0
        <3>1. Cost(Answered)' = 0 /\ Cost(Rejected)' = 0
            BY <2>2, CostEmpty DEF Cost
        <3> QED BY <2>1, <3>1 DEF Paid
    <2>4. waiting' \subseteq Line /\ running' = {}
        BY <1>1 DEF Submit, Metered
    <2>5. \A l \in waiting' \cup running' : answers'[l] = "none"
        BY <2>1, <2>4 DEF NoAnswers
    <2>6. Paid = 0
        BY <2>1 DEF Paid
    <2> QED BY <2>1, <2>3, <2>4, <2>5, <2>6 DEF Metered, Accounted
<1>2. CASE Gather
    <2>1. at = "calls" /\ at' = "loop" /\ waiting = {} /\ running = {}
          /\ UNCHANGED <<answers, spent, cost, billed, crashes, waiting, running>>
        BY <1>2 DEF Gather
    <2>2. (toRecord \cap Answered)' = Answered /\ Rejected' = Rejected
        BY <1>2 DEF Gather, Answered, Rejected
    <2>3. Cost(toRecord \cap Answered)' = Cost(Answered) /\ Cost(Rejected)' = Cost(Rejected)
        BY <2>2 DEF Cost
    <2>4. Cost(Answered) \in Nat /\ Cost(Rejected) \in Nat /\ spent = 0
        BY <2>1, LinesFinite DEF Answered, Rejected, Metered
    <2>5. Paid' = Paid
        BY <2>1, <2>3, <2>4 DEF Paid
    <2> QED BY <2>1, <2>5 DEF Metered, Accounted
<1>3. CASE \E l \in Line : Call(l)
    <2>1. PICK l \in Line : Call(l)
        BY <1>3
    <2>2. waiting' \cup running' = waiting \cup running /\ waiting' \cap running' = {}
          /\ at = "calls" /\ UNCHANGED <<at, answers, spent, cost, billed, crashes, toRecord>>
        BY <2>1 DEF Call, Least, Metered
    <2>3. Answered' = Answered /\ Rejected' = Rejected
        BY <2>2 DEF Answered, Rejected
    <2>4. Paid' = Paid
        BY <2>2, <2>3 DEF Paid, Cost
    <2> QED BY <2>2, <2>4 DEF Metered, Accounted
<1> QED BY <1>1, <1>2, <1>3

\* Every other step leaves the accounts alone, stores them or starts them anew.
LEMMA MeteredNext ==
    ASSUME TypeOK, HasResult, Metered, [Next]_vars
    PROVE  Metered'
<1> USE DEF tables, thread, fanout, loop
<1>1. CASE \E l \in Line : Return(l)
    BY <1>1, ReturnMetered
<1>2. CASE \E l \in Line : Record(l)
    BY <1>2, RecordMetered
<1>3. CASE Submit \/ Gather \/ \E l \in Line : Call(l)
    BY <1>3, FanOutMetered
<1>4. CASE StoreCost
    <2>1. at = "loop" /\ toRecord \cap Answered = {} /\ cost' = spent /\ at' = "commit"
          /\ UNCHANGED <<answers, spent, billed, crashes, waiting, running, toRecord>>
        BY <1>4 DEF StoreCost
    <2>2. Cost(Rejected) \in Nat /\ Cost(toRecord \cap Answered) = 0
        BY <2>1, LinesFinite, CostEmpty DEF Rejected
    <2>3. Cost(Rejected)' = Cost(Rejected)
        BY <2>1 DEF Cost, Rejected
    <2>4. Paid = spent + Cost(Rejected) /\ Paid' = spent + Cost(Rejected) /\ spent \in Nat
        BY <2>1, <2>2, <2>3 DEF Paid, TypeOK
    <2> QED BY <2>1, <2>2, <2>4 DEF Metered, Accounted, TypeOK
<1>5. CASE Crash
    <2>1. crashes' # 0 /\ spent' = 0 /\ at' \in {"tier2", "tier3"} /\ waiting' = {} /\ running' = {}
          /\ UNCHANGED <<cost, billed>> /\ billed \in Nat
        BY <1>5 DEF Crash, TypeOK
    <2>2. Paid' = 0
        BY <2>1 DEF Paid
    <2> QED BY <2>1, <2>2 DEF Metered, Accounted
<1>6. CASE IndexChanges \/ UNCHANGED vars \/ \E l \in Line : Retrieve(l)
    BY <1>6, PaidKept DEF IndexChanges, vars, Retrieve
<1>7. CASE Flush \/ ReturnCandidates \/ StoreCandidates \/ Persist \/ SaveDecisions
    BY <1>7, PaidKept DEF Flush, ReturnCandidates, StoreCandidates, Persist, SaveDecisions
<1> QED BY <1>1, <1>2, <1>3, <1>4, <1>5, <1>6, <1>7 DEF Next

\* A run never reports more than was paid; the run whose process never died reports it
\* all but what the rejected answers cost, in whatever order the answers come in.
THEOREM CostIsBilled == Spec => []CostIsWhatWasPaid
<1>1. Init => TypeOK /\ HasResult /\ Metered
    BY DEF Init, TypeOK, HasResult, NoAnswers, Metered, Accounted, Paid
<1>2. TypeOK /\ Metered => CostIsWhatWasPaid
    <2>1. TypeOK /\ Metered => Cost(Rejected) = CallCost * Cardinality({l \in Line : answers[l] = "rejected"})
        BY DEF Cost, Rejected
    <2> QED BY <2>1 DEF Metered, Accounted, Paid, CostIsWhatWasPaid
<1> QED BY <1>1, <1>2, InitInv, NextInv, TypeNext, MeteredNext, PTL DEF Spec

-----------------------------------------------------------------------------
\* One row per line.
OnePerLine(rows) == \A r, s \in rows : r.line = s.line => r = s

\* Lines whose result the loop has recorded, and the rows of some lines.
Recorded == Answered \ toRecord
RowsFor(lines) == {Row(l) : l \in lines}

\* All lines were asked, or none.
AllOrNone == answers = NoAnswers \/ \A l \in Line : answers[l] # "none"

\* What the result loop has stored and chosen so far.
StoredByLoop ==
    /\ AllOrNone
    /\ calls = RowsFor(Recorded)
    /\ chosen = RowsFor({l \in Recorded : answers[l] \in Committed})

\* What a process that never died has stored: the calls are those of the results
\* recorded so far. A finished run's checkpoint holds what Tier 3 was given.
Stored ==
    /\ OnePerLine(found) /\ OnePerLine(ckpt) /\ OnePerLine(given)
    /\ at = "done" => ckpt = given
    /\ crashes = 0 =>
         /\ at \in {"tier2", "return2", "tier3", "calls"} => calls = {} /\ chosen = {}
         /\ at \notin {"return3", "done"} => decisions = {}
         /\ at = "calls" =>
              \/ waiting = {} /\ running = {} /\ answers = NoAnswers
              \/ \A l \in Line : answers[l] = "none" => l \in waiting \cup running
         /\ at \in {"loop", "commit", "return3", "done"} => StoredByLoop
         /\ at \in {"commit", "return3", "done"} => toRecord = {}
         /\ at \in {"return3", "done"} => decisions = chosen

\* The result loop's rows stay what they are while answers and candidates do.
LEMMA LoopRowsKept ==
    ASSUME UNCHANGED <<answers, given, toRecord, calls, chosen>>, StoredByLoop
    PROVE  StoredByLoop'
<1>1. \A l : Row(l)' = Row(l)
    BY DEF Row, Shown, Request
<1>2. Recorded' = Recorded
    BY DEF Recorded, Answered
<1> QED BY <1>1, <1>2 DEF StoredByLoop, RowsFor, AllOrNone, NoAnswers

\* Tier 2 searches for a line once, records what it found and saves the same.
LEMMA Tier2Stored ==
    ASSUME TypeOK, Stored, (\E l \in Line : Retrieve(l)) \/ Flush \/ ReturnCandidates
    PROVE  Stored'
<1> USE DEF Stored, OnePerLine
<1>1. CASE \E l \in Line : Retrieve(l)
    <2>1. PICK l \in Line : Retrieve(l)
        BY <1>1
    <2>2. (\A r \in found : r.line # l)
          /\ \E h : found' = found \cup {[line |-> l, hits |-> h]}
        BY <2>1 DEF Retrieve, Least
    <2>3. OnePerLine(found)'
        BY <2>2
    <2> QED BY <2>1, <2>3 DEF Retrieve, tables, thread, loop
<1>2. CASE Flush
    BY <1>2 DEF Flush, thread, loop
<1>3. CASE ReturnCandidates
    BY <1>3 DEF ReturnCandidates, tables, loop
<1> QED BY <1>1, <1>2, <1>3

\* The fan-out asks every line or none, and stores nothing.
LEMMA FanOutStored ==
    ASSUME TypeOK, Metered, Stored, Submit \/ Gather \/ \E l \in Line : Call(l) \/ Return(l)
    PROVE  Stored'
<1> USE DEF Stored, OnePerLine, tables, thread, loop, fanout
<1>1. CASE Submit
    <2>1. running' = {} /\ answers' = NoAnswers /\ waiting' \in {{}, Line}
        BY <1>1 DEF Submit, Metered
    <2> QED BY <1>1, <2>1 DEF Submit, NoAnswers
<1>2. CASE \E l \in Line : Call(l)
    BY <1>2 DEF Call, Least
<1>3. CASE \E l \in Line : Return(l)
    <2>1. PICK l \in Line : Return(l)
        BY <1>3
    <2>2. PICK a \in Answer : answers' = [answers EXCEPT ![l] = a]
        BY <2>1 DEF Return
    <2>3. a # "none" /\ at = "calls" /\ l \in running /\ running' = running \ {l}
          /\ UNCHANGED <<at, tables, thread, found, loop, waiting, crashes>>
        BY <2>1, AnswerAssumption DEF Return, Answer
    <2>4. \A m \in Line : answers'[m] = IF m = l THEN a ELSE answers[m]
        BY <2>2 DEF TypeOK
    <2>5. crashes = 0 =>
            \A m \in Line : answers'[m] = "none" => m \in waiting' \cup running'
        BY <2>3, <2>4
    <2> QED BY <2>3, <2>5
<1>4. CASE Gather
    <2>1. Recorded' = {}
        BY <1>4 DEF Gather, Recorded, Answered
    <2>2. RowsFor(Recorded)' = {} /\ RowsFor({l \in Recorded : answers[l] \in Committed})' = {}
        BY <2>1 DEF RowsFor
    <2>3. crashes = 0 => AllOrNone'
        BY <1>4 DEF Gather, AllOrNone, NoAnswers
    <2> QED BY <1>4, <2>2, <2>3 DEF Gather, StoredByLoop
<1> QED BY <1>1, <1>2, <1>3, <1>4

\* The result loop records a line's own row.
LEMMA RecordStored ==
    ASSUME TypeOK, HasResult, Stored, NEW l \in Line, Record(l)
    PROVE  Stored'
<1>1. at = "loop" /\ l \in toRecord /\ toRecord' = toRecord \ {l}
      /\ UNCHANGED <<at, thread, answers, found, decisions, waiting, running, crashes>>
    BY DEF Record, Least, fanout
<1>2. \A m : Row(m)' = Row(m)
    BY <1>1 DEF Row, Shown, Request, thread
<1>3. answers[l] # "none"
    BY <1>1 DEF HasResult
<1>4. Recorded' = IF answers[l] \in Raised THEN Recorded ELSE Recorded \cup {l}
    BY <1>1, <1>3 DEF Recorded, Answered
<1>5. StoredByLoop => StoredByLoop'
    <2> HAVE StoredByLoop
    <2>1. AllOrNone'
        BY <1>1 DEF StoredByLoop, AllOrNone, NoAnswers
    <2>2. RowsFor(Recorded)' = IF answers[l] \in Raised THEN RowsFor(Recorded)
                               ELSE RowsFor(Recorded) \cup {Row(l)}
        BY <1>2, <1>4 DEF RowsFor
    <2>3. RowsFor({m \in Recorded : answers[m] \in Committed})' =
            IF answers[l] \notin Raised /\ answers[l] \in Committed
            THEN RowsFor({m \in Recorded : answers[m] \in Committed}) \cup {Row(l)}
            ELSE RowsFor({m \in Recorded : answers[m] \in Committed})
        BY <1>1, <1>2, <1>4 DEF RowsFor
    <2>4. PICK row : row = Row(l)
        OBVIOUS
    <2>5. IF answers[l] \in Raised THEN UNCHANGED <<calls, chosen>>
          ELSE /\ calls' = calls \cup {row}
               /\ chosen' = IF answers[l] \in Committed THEN chosen \cup {row} ELSE chosen
        BY <2>4 DEF Record
    <2> QED BY <2>1, <2>2, <2>3, <2>4, <2>5 DEF StoredByLoop
<1> QED BY <1>1, <1>5 DEF Stored, OnePerLine, thread

\* The other steps leave what is stored alone, or store what was chosen; a process
\* that dies ends the claim.
LEMMA StoredNext ==
    ASSUME TypeOK, HasResult, Metered, Stored, [Next]_vars
    PROVE  Stored'
<1> USE DEF tables, thread, fanout, loop
<1>1. CASE (\E l \in Line : Retrieve(l)) \/ Flush \/ ReturnCandidates
    BY <1>1, Tier2Stored
<1>2. CASE Submit \/ Gather \/ \E l \in Line : Call(l) \/ Return(l)
    BY <1>2, FanOutStored
<1>3. CASE \E l \in Line : Record(l)
    BY <1>3, RecordStored
<1>4. CASE StoreCost \/ Persist \/ SaveDecisions
    <2>1. UNCHANGED <<answers, thread, toRecord, calls, chosen, crashes, found>>
          /\ at \in {"loop", "commit", "return3"}
        BY <1>4 DEF StoreCost, Persist, SaveDecisions
    <2>2. StoredByLoop => StoredByLoop'
        BY <2>1, LoopRowsKept
    <2> QED BY <1>4, <2>1, <2>2 DEF StoreCost, Persist, SaveDecisions, Stored, OnePerLine
<1>5. CASE IndexChanges \/ UNCHANGED vars
    <2>1. UNCHANGED <<tables, thread, at, found, fanout, loop, crashes>>
        BY <1>5 DEF IndexChanges, vars
    <2>2. StoredByLoop => StoredByLoop'
        BY <2>1, LoopRowsKept
    <2> QED BY <2>1, <2>2 DEF Stored, OnePerLine, NoAnswers
<1>6. CASE Crash
    <2>1. crashes' # 0 /\ found' = {} /\ ckpt' = ckpt /\ given' = ckpt
        BY <1>6 DEF Crash, TypeOK
    <2> QED BY <2>1 DEF Stored, OnePerLine
<1>7. CASE StoreCandidates
    <2>1. UNCHANGED <<tables, given, at, found, fanout, loop, crashes>> /\ ckpt' = given /\ ckpt # given
        BY <1>7 DEF StoreCandidates
    <2>2. StoredByLoop => StoredByLoop'
        BY <2>1, LoopRowsKept
    <2> QED BY <2>1, <2>2 DEF Stored, OnePerLine, NoAnswers
<1> QED BY <1>1, <1>2, <1>3, <1>4, <1>5, <1>6, <1>7 DEF Next

RunInv == TypeOK /\ HasResult /\ IInv /\ Metered /\ Stored

\* The invariants of a run hold when it starts and after each of its steps.
LEMMA InitRun == Init => RunInv
BY DEF Init, RunInv, TypeOK, HasResult, IInv, Handover, Flushed, HitsRecorded, Traced, OnGiven,
       Metered, Accounted, Paid, Stored, OnePerLine, NoAnswers

LEMMA NextRun == RunInv /\ [Next]_vars => RunInv'
BY TypeNext, NextInv, MeteredNext, StoredNext DEF RunInv

-----------------------------------------------------------------------------
\* A replay is no step of the run it repeats.
THEOREM ReplayLeavesRunAlone == RSpec => Spec
<1>1. RInit => Init
    BY DEF RInit
<1>2. [RNext]_rvars => [Next]_vars
    BY DEF RNext, ReplayRun, rvars
<1> QED BY <1>1, <1>2, PTL DEF RSpec, Spec

\* A finished run that lost no call and that no crash interrupted.
Finished == RunInv /\ at = "done" /\ Clean

\* Its checkpoint is its recording of retrieval, one row per line, if there is one.
LEMMA FinishedRows ==
    ASSUME Finished, retrieval # {}
    PROVE  /\ retrieval = ckpt /\ Covers(ckpt)
           /\ \A r \in ckpt : r.line \in Line /\ r.hits = Shown(r.line)
           /\ \A l \in Line : \E r \in ckpt : r.line = l /\ r.hits = Shown(l)
<1>1. retrieval = ckpt /\ Covers(ckpt) /\ OnePerLine(ckpt) /\ ckpt \subseteq [line: Line, hits: Hits]
    BY DEF Finished, RunInv, Clean, Stored, IInv, Handover, Flushed, TypeOK
<1>1a. ckpt = given
    BY DEF Finished, RunInv, Stored
<1>2. \A l \in Line : \E r \in ckpt : r.line = l /\ r.hits = Shown(l)
    <2> TAKE l \in Line
    <2> DEFINE s == CHOOSE r \in given : r.line = l
    <2>1. s \in given /\ s.line = l
        BY <1>1, <1>1a DEF Covers
    <2> QED BY <1>1a, <2>1 DEF Shown
<1>3. \A r \in ckpt : r.line \in Line /\ r.hits = Shown(r.line)
    <2> TAKE r \in ckpt
    <2>1. r.line \in Line
        BY <1>1
    <2>2. PICK s \in ckpt : s.line = r.line /\ s.hits = Shown(r.line)
        BY <1>2, <2>1
    <2>3. s = r
        BY <1>1, <2>2 DEF OnePerLine
    <2> QED BY <2>1, <2>2, <2>3
<1> QED BY <1>1, <1>2, <1>3

\* When it made a call, it made one for every line, and every one was answered.
LEMMA FinishedCalls ==
    ASSUME Finished, calls # {}
    PROVE  /\ calls = RowsFor(Line)
           /\ decisions = RowsFor({l \in Line : answers[l] \in Committed})
           /\ \A l \in Line : answers[l] \in Answer \ Raised
<1>1. crashes = 0 /\ toRecord = {} /\ StoredByLoop /\ decisions = chosen
    BY DEF Finished, RunInv, Stored, Clean
<1>2. \A l \in Line : answers[l] \in Answer \cup {"none"} /\ answers[l] \notin Raised
    BY DEF Finished, RunInv, TypeOK, Clean
<1>3. answers # NoAnswers
    <2> SUFFICES ASSUME answers = NoAnswers PROVE FALSE
        OBVIOUS
    <2>1. Recorded = {}
        BY DEF Recorded, Answered, NoAnswers
    <2> QED BY <1>1, <2>1 DEF StoredByLoop, RowsFor
<1>4. \A l \in Line : answers[l] # "none"
    BY <1>1, <1>3 DEF StoredByLoop, AllOrNone
<1>5. Recorded = Line
    BY <1>1, <1>2, <1>4 DEF Recorded, Answered
<1> QED BY <1>1, <1>2, <1>4, <1>5 DEF StoredByLoop

\* The recordings serve a line what the run served it: its query returns the hits
\* of the checkpoint, its request the answer it had.
LEMMA ServedAgain ==
    ASSUME Finished, retrieval # {}, calls # {},
           NEW hits \in RecordedHits, NEW recorded \in RecordedAnswers, NEW l \in Line
    PROVE  Served(l, hits, recorded) = Row(l)
<1>1. PICK r \in ckpt : r.line = l /\ r.hits = Shown(l)
    BY FinishedRows
<1>2. hits[Narrative[l]] = Shown(l)
    <2>1. Narrative[l] \in DOMAIN index
        BY DEF Finished, RunInv, TypeOK
    <2>2. PICK s \in retrieval : Narrative[s.line] = Narrative[l] /\ s.hits = hits[Narrative[l]]
        BY <1>1, <2>1, FinishedRows DEF RecordedHits
    <2> QED BY <1>1, <2>2, FinishedRows DEF Finished, Clean
<1> DEFINE q == Request(l, Shown(l))
<1>3. q \in {c.request : c \in calls}
    <2>1. Row(l) \in calls /\ Row(l).request = q
        BY FinishedCalls DEF RowsFor, Row
    <2> QED BY <2>1
<1>4. q \in DOMAIN recorded /\ recorded[q] = answers[l]
    <2>1. q \in DOMAIN recorded
        BY <1>3 DEF RecordedAnswers
    <2>2. PICK c \in calls : c.request = q /\ c.answer = recorded[q]
        BY <1>3 DEF RecordedAnswers
    <2>3. PICK m \in Line : c = Row(m)
        BY FinishedCalls DEF RowsFor
    <2>4. PICK s \in ckpt : s.line = m /\ s.hits = Shown(m)
        BY FinishedRows
    <2>5. Request(s.line, s.hits) = Request(r.line, r.hits)
        BY <1>1, <2>2, <2>3, <2>4 DEF Row
    <2>6. m = l
        BY <1>1, <2>4, <2>5 DEF Finished, Clean
    <2> QED BY <2>1, <2>2, <2>3, <2>6 DEF Row
<1> QED BY <1>2, <1>4 DEF Served, Row

\* The decisions of one line are one decision: there is nothing to choose from.
LEMMA KeptAll ==
    ASSUME NEW lines, NEW k \in Kept(RowsFor(lines))
    PROVE  k = RowsFor(lines)
<1>1. \A l \in lines : \E a \in k : a.line = l
    <2> TAKE l \in lines
    <2>1. Row(l) \in RowsFor(lines) /\ Row(l).line = l
        BY DEF RowsFor, Row
    <2> QED BY <2>1 DEF Kept
<1>2. \A a \in k : a = Row(a.line) /\ a.line \in lines
    BY DEF Kept, RowsFor, Row
<1> QED BY <1>1, <1>2 DEF Kept, RowsFor

\* So a replay of a finished clean run decides what the run decided.
LEMMA ReplaySame ==
    ASSUME Finished, ReplayRun
    PROVE  verdict' \in {"identical", "refused"}
<1>1. CASE retrieval = {} \/ calls = {}
    BY <1>1 DEF ReplayRun
<1>2. CASE ~ (retrieval = {} \/ calls = {})
    <2>1. PICK hits \in RecordedHits, recorded \in RecordedAnswers, original \in Kept(decisions) :
            verdict' = Verdict(original, {Served(l, hits, recorded) : l \in Line})
        BY <1>2 DEF ReplayRun
    <2>2. {Served(l, hits, recorded) : l \in Line} = RowsFor(Line)
        BY <1>2, ServedAgain DEF RowsFor
    <2>3. original = RowsFor({l \in Line : answers[l] \in Committed})
        BY <1>2, <2>1, FinishedCalls, KeptAll
    <2>4. Committing(RowsFor(Line)) = RowsFor({l \in Line : answers[l] \in Committed})
        BY DEF Committing, RowsFor, Row
    <2>5. \A s \in RowsFor(Line) : s.answer # "failed"
        BY <1>2, FinishedCalls DEF RowsFor, Row, Raised
    <2> QED BY <2>1, <2>2, <2>3, <2>4, <2>5 DEF Verdict
<1> QED BY <1>1, <1>2

\* A verdict is only given on a finished run, which stays as it is.
ReplayInv == RunInv /\ (verdict # "none" => at = "done") /\ CleanRunReplays

LEMMA ReplayNext == ReplayInv /\ [RNext]_rvars => ReplayInv'
<1> SUFFICES ASSUME ReplayInv, [RNext]_rvars PROVE ReplayInv'
    OBVIOUS
<1>1. RunInv'
    <2>1. [Next]_vars
        BY DEF RNext, ReplayRun, rvars
    <2> QED BY <2>1, NextRun DEF ReplayInv
<1>2. CASE ReplayRun
    <2>1. UNCHANGED vars /\ at = "done"
        BY <1>2 DEF ReplayRun
    <2>2. Clean' => verdict' \in {"none", "identical", "refused"}
        <3> SUFFICES ASSUME Clean' PROVE verdict' \in {"identical", "refused"}
            OBVIOUS
        <3>1. Clean
            BY <2>1 DEF Clean, vars, fanout, thread, Request
        <3> QED BY <1>2, <2>1, <3>1, ReplaySame DEF Finished, ReplayInv
    <2> QED BY <1>1, <2>1, <2>2 DEF ReplayInv, CleanRunReplays, vars
<1>3. CASE [Next]_vars /\ UNCHANGED verdict
    <2>1. CASE verdict = "none"
        BY <1>1, <1>3, <2>1 DEF ReplayInv, CleanRunReplays
    <2>2. CASE verdict # "none"
        <3>1. at = "done"
            BY <2>2 DEF ReplayInv
        <3>1a. ckpt = given
            BY <3>1 DEF ReplayInv, RunInv, Stored
        <3>2. UNCHANGED <<at, crashes, answers, ckpt>>
            BY <1>3, <3>1, <3>1a DEF Next, vars, fanout, tables, thread, loop, IndexChanges,
               Retrieve, Flush, ReturnCandidates, StoreCandidates, Submit, Call, Return, Gather, Record, StoreCost, Persist,
               SaveDecisions, Crash
        <3>3. Clean' => Clean
            BY <3>2 DEF Clean, Request
        <3> QED BY <1>1, <1>3, <3>1, <3>2, <3>3 DEF ReplayInv, CleanRunReplays
    <2> QED BY <2>1, <2>2
<1> QED BY <1>2, <1>3 DEF RNext, rvars

\* The replay of a run whose process never died, whose calls were all answered and
\* whose requests were all different is identical to it or refused, however the
\* index changed since (replay.py 1-14).
THEOREM CleanReplaysIdentical == RSpec => []CleanRunReplays
<1>1. RInit => ReplayInv
    BY InitRun DEF RInit, ReplayInv, CleanRunReplays
<1>2. ReplayInv => CleanRunReplays
    BY DEF ReplayInv
<1> QED BY <1>1, <1>2, ReplayNext, PTL DEF RSpec
=============================================================================
