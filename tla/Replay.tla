------------------------------- MODULE Replay -------------------------------
(***************************************************************************)
(* `make replay`: a finished run is executed again with retrieval and model *)
(* served from its recordings, and the automatic decisions are compared.    *)
(* A replay reads the recordings once and leaves the process nowhere, so it *)
(* is one step; what the database returns in no order is chosen.            *)
(***************************************************************************)
EXTENDS Adjudication

VARIABLE verdict   \* "none" until the replay ended

rvars == <<vars, verdict>>

RInit == Init /\ verdict = "none"

\* load_retrieval_recordings: of the rows with one query hash the last one wins.
RecordedHits ==
    LET rows(n) == {r \in retrieval : Narrative[r.line] = n}
        known   == {n \in DOMAIN index : rows(n) # {}}
    IN  {h \in [known -> Hits] : \A n \in known : \E r \in rows(n) : r.hits = h[n]}

\* load_recordings: likewise for the calls with one request hash.
RecordedAnswers ==
    LET requests == {c.request : c \in calls}
    IN  {a \in [requests -> Answer] :
           \A q \in requests : \E c \in calls : c.request = q /\ c.answer = a[q]}

\* What the recordings decide for a line.
Served(l, hits, recorded) ==
    LET q == Request(l, hits[Narrative[l]])
    IN  [line |-> l, request |-> q,
         answer |-> IF q \in DOMAIN recorded THEN recorded[q] ELSE "failed"]

\* _decisions: one automatic decision per line, the last of several.
Kept(rows) ==
    {k \in SUBSET rows : /\ \A a, b \in k : a.line = b.line => a = b
                         /\ \A r \in rows : \E a \in k : a.line = r.line}

Committing(rows) == {r \in rows : r.answer \in Committed}

Verdict(original, served) ==
    CASE \E r \in served : r.answer = "failed" -> "miss"
      [] original = Committing(served)         -> "identical"
      [] OTHER                                 -> "diverged"

\* replay: refused when nothing was recorded, else re-executed and compared.
ReplayRun ==
    /\ at = "done" /\ verdict = "none"
    /\ IF retrieval = {} \/ calls = {}
       THEN verdict' = "refused"
       ELSE \E hits \in RecordedHits, recorded \in RecordedAnswers, original \in Kept(decisions) :
              verdict' = Verdict(original, {Served(l, hits, recorded) : l \in Line})
    /\ UNCHANGED vars

RNext == (Next /\ UNCHANGED verdict) \/ ReplayRun

RSpec == RInit /\ [][RNext]_rvars
-----------------------------------------------------------------------------
\* Requests and queries identify what they ask: no process died, every call was
\* answered, equal searches returned equal hits and no two lines asked the same.
Clean ==
    /\ crashes = 0
    /\ \A l \in Line : answers[l] \notin Raised
    /\ \A r, s \in ckpt : Narrative[r.line] = Narrative[s.line] => r.hits = s.hits
    /\ \A r, s \in ckpt : Request(r.line, r.hits) = Request(s.line, s.hits) => r = s

\* The replay of a clean run is identical or refused, however the index changed
\* since and in whatever order its calls were answered (replay.py 1-14).
CleanRunReplays == Clean => verdict \in {"none", "identical", "refused"}
=============================================================================
