-------------------------- MODULE EventStreamProofs --------------------------
(***************************************************************************)
(* Proofs for AuditTrail and EventStream, for any number of writers and     *)
(* clients: the chain verifies, the trail grows at its end, and what a      *)
(* stream sends is the beginning of the trail.                              *)
(***************************************************************************)
EXTENDS EventStream, TLAPS

\* The variables are functions on the writers, and numbers are numbers.
Shape ==
    /\ tail = [w \in Writer |-> tail[w]] /\ row = [w \in Writer |-> row[w]]
    /\ \A r \in events : r.seq \in Nat
    /\ \A w \in Writer : tail[w].seq \in Nat \cup {-1} /\ \A r \in row[w] : r.seq \in Nat

\* No number below a stored one is missing.
Complete == \A r \in events : \A k \in 0..r.seq : \E q \in events : q.seq = k

\* A tail that was read belongs to a stored row.
TailKnown ==
    \A w \in Writer : \/ tail[w] = NoTail
                      \/ \E q \in events : tail[w].seq = q.seq /\ tail[w].hash = q.hash

\* An uncommitted row continues the trail, and nobody else holds its number.
Pending ==
    \A w \in Writer : \A r \in row[w] :
        /\ Linked(r, events)
        /\ \A q \in events : q.seq # r.seq
        /\ \A v \in Writer : \A s \in row[v] : s.seq = r.seq => v = w /\ s = r

TInv == Shape /\ ChainVerifies /\ Complete /\ TailKnown /\ Pending

-----------------------------------------------------------------------------
\* The trail starts empty.
LEMMA TrailInit == TInit => TInv
BY DEF TInit, TInv, Shape, ChainVerifies, Verified, Distinct, Complete, TailKnown, Pending, NoTail

\* The tail is the stored row with the largest number, or there is none.
LEMMA ReadTailKeeps ==
    ASSUME TInv, NEW w \in Writer, ReadTail(w)
    PROVE  TInv'
<1>1. PICK t : t.seq \in Nat \cup {-1} /\ tail' = [tail EXCEPT ![w] = t]
               /\ (t = NoTail \/ \E q \in events : t.seq = q.seq /\ t.hash = q.hash)
  <2>1. CASE tail' = [tail EXCEPT ![w] = NoTail]
    BY <2>1 DEF NoTail
  <2>2. CASE \E q \in events : tail' = [tail EXCEPT ![w] = [seq |-> q.seq, hash |-> q.hash]]
    <3>1. PICK q \in events : tail' = [tail EXCEPT ![w] = [seq |-> q.seq, hash |-> q.hash]]
      BY <2>2
    <3>2. q.seq \in Nat
      BY DEF TInv, Shape
    <3>3. WITNESS [seq |-> q.seq, hash |-> q.hash]
    <3>4. QED
      BY <3>1, <3>2
  <2>3. QED
    BY <2>1, <2>2 DEF ReadTail
<1>2. UNCHANGED <<events, row>>
  BY DEF ReadTail
<1>3. tail' = [v \in Writer |-> IF v = w THEN t ELSE tail[v]]
  BY <1>1 DEF TInv, Shape
<1>4. Shape'
  BY <1>1, <1>2, <1>3 DEF TInv, Shape
<1>5. TailKnown'
  BY <1>1, <1>2, <1>3 DEF TInv, TailKnown
<1>6. QED
  BY <1>2, <1>4, <1>5 DEF TInv, ChainVerifies, Complete, Pending

\* The new row follows the tail; its number is free and above the tail's.
LEMMA InsertKeeps ==
    ASSUME TInv, NEW w \in Writer, Insert(w)
    PROVE  TInv'
<1>1. PICK p : row' = [row EXCEPT ![w] = {[seq |-> NextSeq(w), prev |-> tail[w].hash,
                          payload |-> p, hash |-> ChainHash(tail[w].hash, p)]}]
  BY DEF Insert
<1> DEFINE new == [seq |-> NextSeq(w), prev |-> tail[w].hash,
                   payload |-> p, hash |-> ChainHash(tail[w].hash, p)]
<1>2. UNCHANGED <<events, tail>> /\ ~ KeyTaken(w) /\ ~ KeyPending(w)
  BY DEF Insert
<1>3. row' = [v \in Writer |-> IF v = w THEN {new} ELSE row[v]]
  BY <1>1 DEF TInv, Shape
<1>4. new.seq = tail[w].seq + 1 /\ new.seq \in Nat /\ new.prev = tail[w].hash
      /\ new.hash = ChainHash(new.prev, new.payload)
  BY DEF TInv, Shape, NextSeq
<1>5. Linked(new, events)
  <2>1. CASE tail[w] = NoTail
    BY <1>4, <2>1 DEF Linked, NoTail
  <2>2. CASE \E q \in events : tail[w].seq = q.seq /\ tail[w].hash = q.hash
    <3>1. PICK q \in events : tail[w].seq = q.seq /\ tail[w].hash = q.hash
      BY <2>2
    <3>2. q.seq \in Nat
      BY DEF TInv, Shape
    <3>3. new.seq # 0 /\ q.seq = new.seq - 1 /\ q.hash = new.prev
      BY <1>4, <3>1, <3>2
    <3>4. QED
      BY <1>4, <3>3 DEF Linked
  <2>3. QED
    BY <2>1, <2>2 DEF TInv, TailKnown
<1>6. /\ \A q \in events : q.seq # new.seq
      /\ \A v \in Writer : \A s \in row[v] : s.seq # new.seq
  BY <1>2 DEF KeyTaken, KeyPending
<1> HIDE DEF new
<1>7. Shape'
  BY <1>2, <1>3, <1>4 DEF TInv, Shape
<1>8. Pending'
  <2> SUFFICES ASSUME NEW u \in Writer, NEW r \in row'[u]
               PROVE  /\ Linked(r, events)
                      /\ \A q \in events : q.seq # r.seq
                      /\ \A v \in Writer : \A s \in row'[v] : s.seq = r.seq => v = u /\ s = r
    BY <1>2 DEF Pending, Linked
  <2>1. CASE u = w
    BY <1>3, <1>5, <1>6, <2>1
  <2>2. CASE u # w
    BY <1>3, <1>6, <2>2 DEF TInv, Pending
  <2>3. QED
    BY <2>1, <2>2
<1>9. QED
  BY <1>2, <1>7, <1>8 DEF TInv, ChainVerifies, Complete, TailKnown

\* A row that is rolled back leaves nothing behind.
LEMMA RollBackKeeps ==
    ASSUME TInv, NEW w \in Writer, RollBack(w)
    PROVE  TInv'
<1>1. UNCHANGED <<events, tail>> /\ row' = [v \in Writer |-> IF v = w THEN {} ELSE row[v]]
  BY DEF RollBack, TInv, Shape
<1>2. Shape'
  BY <1>1 DEF TInv, Shape
<1>3. Pending'
  BY <1>1 DEF TInv, Pending
<1>4. QED
  BY <1>1, <1>2, <1>3 DEF TInv, ChainVerifies, Complete, TailKnown

-----------------------------------------------------------------------------
\* A row that is committed comes after every stored row.
LEMMA CommitAtEnd ==
    ASSUME TInv, NEW w \in Writer, NEW r \in row[w]
    PROVE  \A q \in events : q.seq < r.seq
<1> SUFFICES ASSUME NEW q \in events, ~ (q.seq < r.seq)
             PROVE  FALSE
  OBVIOUS
<1>1. q.seq \in Nat /\ r.seq \in Nat
  BY DEF TInv, Shape
<1>2. r.seq \in 0..q.seq
  BY <1>1
<1>3. \E s \in events : s.seq = r.seq
  BY <1>2 DEF TInv, Complete
<1>4. QED
  BY <1>3 DEF TInv, Pending

LEMMA CommitKeeps ==
    ASSUME TInv, NEW w \in Writer, Commit(w)
    PROVE  TInv'
<1>1. PICK r \in row[w] : events' = events \cup {r}
  BY DEF Commit
<1>2. tail' = tail /\ row' = [v \in Writer |-> IF v = w THEN {} ELSE row[v]]
  BY DEF Commit, TInv, Shape
<1>3. r.seq \in Nat /\ Linked(r, events) /\ \A q \in events : q.seq # r.seq
  BY DEF TInv, Shape, Pending
<1>4. \A x : Linked(x, events) => Linked(x, events \cup {r})
  BY DEF Linked
<1>5. Shape'
  BY <1>1, <1>2, <1>3 DEF TInv, Shape
<1>6. ChainVerifies'
  BY <1>1, <1>3, <1>4 DEF TInv, ChainVerifies, Verified, Distinct
<1>7. Complete'
  <2> SUFFICES ASSUME NEW s \in events \cup {r}, NEW k \in 0..s.seq
               PROVE  \E q \in events \cup {r} : q.seq = k
    BY <1>1 DEF Complete
  <2>1. CASE s \in events
    BY <2>1 DEF TInv, Complete
  <2>2. CASE s = r /\ k = r.seq
    BY <2>2
  <2>3. CASE s = r /\ k # r.seq
    <3>1. r.seq # 0 /\ k \in 0..(r.seq - 1)
      BY <1>3, <2>3
    <3>2. PICK q \in events : q.seq = r.seq - 1
      BY <1>3, <3>1 DEF Linked
    <3>3. QED
      BY <3>1, <3>2 DEF TInv, Complete
  <2>4. QED
    BY <2>1, <2>2, <2>3
<1>8. TailKnown'
  BY <1>1, <1>2 DEF TInv, TailKnown
<1>9. Pending'
  <2> SUFFICES ASSUME NEW u \in Writer, NEW s \in row'[u]
               PROVE  /\ Linked(s, events \cup {r})
                      /\ \A q \in events \cup {r} : q.seq # s.seq
                      /\ \A v \in Writer : \A t \in row'[v] : t.seq = s.seq => v = u /\ t = s
    BY <1>1 DEF Pending, Linked
  <2>1. u # w /\ s \in row[u]
    BY <1>2
  <2>2. s.seq # r.seq
    BY <2>1 DEF TInv, Pending
  <2>3. QED
    BY <1>2, <1>4, <2>1, <2>2 DEF TInv, Pending
<1>10. QED
  BY <1>5, <1>6, <1>7, <1>8, <1>9 DEF TInv

\* Every step of the trail keeps the invariant.
LEMMA TrailStep == TInv /\ [TNext]_trail => TInv'
<1> SUFFICES ASSUME TInv, [TNext]_trail
             PROVE  TInv'
  OBVIOUS
<1>1. CASE \E w \in Writer : ReadTail(w) \/ Insert(w) \/ RollBack(w) \/ Commit(w)
  BY <1>1, ReadTailKeeps, InsertKeeps, RollBackKeeps, CommitKeeps
<1>2. CASE ThreadEnds \/ UNCHANGED trail
  BY <1>2 DEF ThreadEnds, trail, TInv, Shape, ChainVerifies, Complete, TailKnown, Pending
<1>3. QED
  BY <1>1, <1>2 DEF TNext

\* A step of the stream leaves the trail alone.
LEMMA TrailSteps == [Next]_vars => [TNext]_trail
BY DEF Next, vars, StreamStep, Poll, ReadRun, Send, Check, Reconnect

LEMMA TrailInvariant == Spec => []TInv
<1>1. Init => TInv
  BY TrailInit DEF Init
<1>2. TInv /\ [Next]_vars => TInv'
  BY TrailStep, TrailSteps
<1>3. QED
  BY <1>1, <1>2, PTL DEF Spec

\* However many writers' transactions interleave, the stored chain verifies
\* (audit.py EventLog, hashing.py verify_chain).
THEOREM ChainCorrect == Spec => []ChainVerifies
BY TrailInvariant, PTL DEF TInv

\* The trail only grows at its end (audit.py EventLog.append).
THEOREM GrowthCorrect == Spec => GrowsAtItsEnd
<1>1. TInv /\ [TNext]_trail =>
        [events' # events => \E r \in events' : /\ events' = events \cup {r}
                                                /\ \A q \in events : q.seq < r.seq]_events
  <2> SUFFICES ASSUME TInv, [TNext]_trail, events' # events
               PROVE  \E r \in events' : /\ events' = events \cup {r}
                                         /\ \A q \in events : q.seq < r.seq
    OBVIOUS
  <2>1. PICK w \in Writer : Commit(w)
    BY DEF TNext, trail, ReadTail, Insert, RollBack, ThreadEnds
  <2>2. PICK r \in row[w] : events' = events \cup {r}
    BY <2>1 DEF Commit
  <2>3. QED
    BY <2>2, CommitAtEnd
<1>2. QED
  BY <1>1, TrailInvariant, TrailSteps, PTL DEF Spec, GrowsAtItsEnd
-----------------------------------------------------------------------------
\* What a connection sent, and that the events it still has to send follow
\* on that without a gap.
SInv ==
    /\ last = [c \in Client |-> last[c]]
    /\ batch = [c \in Client |-> batch[c]]
    /\ sent = [c \in Client |-> sent[c]]
    /\ \A c \in Client :
         /\ sent[c] \in Seq(events)
         /\ last[c] = Len(sent[c]) - 1
         /\ \A i \in 1..Len(sent[c]) : sent[c][i].seq = i - 1
         /\ batch[c] \subseteq events
         /\ \A r \in batch[c] :
              /\ r.seq > last[c]
              /\ \A k \in (last[c] + 1)..r.seq : \E q \in batch[c] : q.seq = k

LEMMA StreamInit == Init => SInv
BY DEF Init, TInit, SInv

LEMMA SeqGrows ==
    ASSUME NEW S, NEW T, S \subseteq T, NEW s \in Seq(S)
    PROVE  s \in Seq(T)
<1>1. Len(s) \in Nat /\ s \in [1..Len(s) -> S]
  OBVIOUS
<1>2. s \in [1..Len(s) -> T]
  BY <1>1
<1>3. QED
  BY <1>1, <1>2

\* The trail grows under a stream that stands still.
LEMMA TrailMoves ==
    ASSUME TInv, SInv, TNext, UNCHANGED stream
    PROVE  SInv'
<1>1. events \subseteq events'
  BY DEF TNext, ReadTail, Insert, RollBack, Commit, ThreadEnds
<1>2. \A c \in Client : sent[c] \in Seq(events')
  BY <1>1, SeqGrows DEF SInv
<1>3. QED
  BY <1>1, <1>2 DEF SInv, stream

LEMMA PollKeeps ==
    ASSUME TInv, SInv, NEW c \in Client, Poll(c)
    PROVE  SInv'
<1> DEFINE new == {r \in events : r.seq > last[c]}
<1>1. UNCHANGED <<events, last, sent>>
  BY DEF Poll, trail
<1>2. batch' = [d \in Client |-> IF d = c THEN new ELSE batch[d]]
  BY DEF Poll, SInv
<1>3. last[c] \in Nat \cup {-1}
  BY DEF SInv
<1>4. ASSUME NEW r \in new, NEW k \in (last[c] + 1)..r.seq
      PROVE  \E q \in new : q.seq = k
  <2>1. r.seq \in Nat /\ k \in 0..r.seq /\ k > last[c]
    BY <1>3, <1>4 DEF TInv, Shape
  <2>2. QED
    BY <2>1 DEF TInv, Complete
<1>5. new \subseteq events /\ \A r \in new : r.seq > last[c]
  OBVIOUS
<1> HIDE DEF new
<1>6. last' = [d \in Client |-> last'[d]] /\ sent' = [d \in Client |-> sent'[d]]
      /\ batch' = [d \in Client |-> batch'[d]]
  BY <1>1, <1>2 DEF SInv
<1>7. ASSUME NEW d \in Client
      PROVE  /\ sent'[d] \in Seq(events)
             /\ last'[d] = Len(sent'[d]) - 1
             /\ \A i \in 1..Len(sent'[d]) : sent'[d][i].seq = i - 1
             /\ batch'[d] \subseteq events
             /\ \A r \in batch'[d] :
                  /\ r.seq > last'[d]
                  /\ \A k \in (last'[d] + 1)..r.seq : \E q \in batch'[d] : q.seq = k
  <2>1. CASE d = c
    BY <1>1, <1>2, <1>4, <1>5, <2>1 DEF SInv
  <2>2. CASE d # c
    <3>1. batch'[d] = batch[d] /\ last'[d] = last[d] /\ sent'[d] = sent[d]
      BY <1>1, <1>2, <2>2
    <3>2. QED
      BY <3>1 DEF SInv
  <2>3. QED
    BY <2>1, <2>2
<1>8. QED
  BY <1>1, <1>6, <1>7 DEF SInv

LEMMA SendKeeps ==
    ASSUME TInv, SInv, NEW c \in Client, Send(c)
    PROVE  SInv'
<1>1. PICK r \in batch[c] :
         /\ \A q \in batch[c] : r.seq <= q.seq
         /\ sent' = [sent EXCEPT ![c] = Append(sent[c], r)]
         /\ last' = [last EXCEPT ![c] = r.seq]
         /\ batch' = [batch EXCEPT ![c] = batch[c] \ {r}]
  BY DEF Send
<1>2. events' = events
  BY DEF Send, trail
<1>3. /\ r \in events /\ r.seq \in Nat /\ sent[c] \in Seq(events)
      /\ last[c] = Len(sent[c]) - 1 /\ r.seq > last[c]
  BY DEF SInv, TInv, Shape
<1>4. r.seq = last[c] + 1
  <2>1. last[c] + 1 \in (last[c] + 1)..r.seq
    BY <1>3
  <2>2. PICK q \in batch[c] : q.seq = last[c] + 1
    BY <2>1 DEF SInv
  <2>3. QED
    BY <1>1, <1>3, <2>2
<1>5. /\ sent' = [d \in Client |-> IF d = c THEN Append(sent[c], r) ELSE sent[d]]
      /\ last' = [d \in Client |-> IF d = c THEN r.seq ELSE last[d]]
      /\ batch' = [d \in Client |-> IF d = c THEN batch[c] \ {r} ELSE batch[d]]
  BY <1>1 DEF SInv
<1> DEFINE more == Append(sent[c], r)
<1>6. /\ more \in Seq(events) /\ Len(more) = Len(sent[c]) + 1
      /\ \A i \in 1..Len(more) : more[i].seq = i - 1
  <2>1. more \in Seq(events) /\ Len(more) = Len(sent[c]) + 1
    BY <1>3
  <2>2. \A i \in 1..Len(more) : more[i] = IF i = Len(more) THEN r ELSE sent[c][i]
    BY <1>3, <2>1
  <2>3. QED
    BY <1>3, <1>4, <2>1, <2>2 DEF SInv
<1>7. \A q \in batch[c] : \A k \in (last[c] + 1)..q.seq : \E p \in batch[c] : p.seq = k
  BY DEF SInv
<1>8. ASSUME NEW q \in batch[c] \ {r}
      PROVE  /\ q.seq > r.seq
             /\ \A k \in (r.seq + 1)..q.seq : \E p \in batch[c] \ {r} : p.seq = k
  <2>1. q.seq \in Nat /\ q.seq # r.seq
    BY <1>3, <1>8 DEF SInv, TInv, Shape, ChainVerifies, Verified, Distinct
  <2>2. q.seq > r.seq
    BY <1>1, <1>3, <1>8, <2>1
  <2>3. ASSUME NEW k \in (r.seq + 1)..q.seq
        PROVE  \E p \in batch[c] \ {r} : p.seq = k
    <3>1. k \in (last[c] + 1)..q.seq /\ k # r.seq
      BY <1>3, <1>4, <2>1, <2>3
    <3>2. PICK p \in batch[c] : p.seq = k
      BY <1>7, <3>1
    <3>3. QED
      BY <3>1, <3>2
  <2>4. QED
    BY <2>2, <2>3
<1>9. last'[c] = Len(more) - 1
  BY <1>3, <1>4, <1>5, <1>6
<1> HIDE DEF more
<1>10. QED
  BY <1>2, <1>5, <1>6, <1>8, <1>9 DEF SInv, more

LEMMA ReconnectKeeps ==
    ASSUME SInv, NEW c \in Client, Reconnect(c)
    PROVE  SInv'
<1>1. /\ events' = events
      /\ sent' = [d \in Client |-> IF d = c THEN <<>> ELSE sent[d]]
      /\ last' = [d \in Client |-> IF d = c THEN -1 ELSE last[d]]
      /\ batch' = [d \in Client |-> IF d = c THEN {} ELSE batch[d]]
  BY DEF Reconnect, SInv, trail
<1>2. <<>> \in Seq(events) /\ Len(<<>>) = 0
  OBVIOUS
<1>3. last' = [d \in Client |-> last'[d]] /\ sent' = [d \in Client |-> sent'[d]]
      /\ batch' = [d \in Client |-> batch'[d]]
  BY <1>1
<1>4. ASSUME NEW d \in Client
      PROVE  /\ sent'[d] \in Seq(events)
             /\ last'[d] = Len(sent'[d]) - 1
             /\ \A i \in 1..Len(sent'[d]) : sent'[d][i].seq = i - 1
             /\ batch'[d] \subseteq events
             /\ \A r \in batch'[d] :
                  /\ r.seq > last'[d]
                  /\ \A k \in (last'[d] + 1)..r.seq : \E q \in batch'[d] : q.seq = k
  <2>1. CASE d = c
    <3>1. sent'[d] = <<>> /\ last'[d] = -1 /\ batch'[d] = {}
      BY <1>1, <2>1
    <3>2. QED
      BY <1>2, <3>1
  <2>2. CASE d # c
    <3>1. batch'[d] = batch[d] /\ last'[d] = last[d] /\ sent'[d] = sent[d]
      BY <1>1, <2>2
    <3>2. QED
      BY <3>1 DEF SInv
  <2>3. QED
    BY <2>1, <2>2
<1>5. QED
  BY <1>1, <1>3, <1>4 DEF SInv

LEMMA StreamKeeps == TInv /\ SInv /\ [Next]_vars => SInv'
<1> SUFFICES ASSUME TInv, SInv, [Next]_vars
             PROVE  SInv'
  OBVIOUS
<1>1. CASE TNext /\ UNCHANGED stream
  BY <1>1, TrailMoves
<1>2. ASSUME NEW c \in Client, StreamStep(c) \/ Reconnect(c)
      PROVE  SInv'
  <2>1. CASE ReadRun(c) \/ Check(c)
    BY <2>1 DEF ReadRun, Check, SInv, trail
  <2>2. QED
    BY <1>2, <2>1, PollKeeps, SendKeeps, ReconnectKeeps DEF StreamStep
<1>3. CASE UNCHANGED vars
  BY <1>3 DEF vars, trail, stream, SInv
<1>4. QED
  BY <1>1, <1>2, <1>3 DEF Next

\* What a connection has sent is the beginning of the stored trail, whatever is
\* committed between its queries (app.py stream).
THEOREM StreamCorrect == Spec => []StreamIsHistory
<1>1. Init => SInv
  BY StreamInit
<1>2. TInv /\ SInv /\ [Next]_vars => SInv'
  BY StreamKeeps
<1>3. SInv => StreamIsHistory
  <2> SUFFICES ASSUME SInv, NEW c \in Client, NEW i \in 1..Len(sent[c])
               PROVE  sent[c][i] \in events
    BY DEF StreamIsHistory, SInv
  <2>1. sent[c] \in Seq(events)
    BY DEF SInv
  <2>2. QED
    BY <2>1
<1>4. QED
  BY <1>1, <1>2, <1>3, TrailInvariant, PTL DEF Spec
=============================================================================
