----------------------------- MODULE RunPromise -----------------------------
(***************************************************************************)
(* What a reconciliation run promises, without nodes, checkpoints or         *)
(* processes: facts about bank lines only accumulate, a review needs an      *)
(* escalation, and a run that reports "completed" said something about every *)
(* line and says nothing more.                                              *)
(***************************************************************************)
CONSTANT Line

VARIABLES facts, phase
vars == <<facts, phase>>

Fact == {"committed", "escalated", "reviewed"}

Init == facts = [l \in Line |-> {}] /\ phase = "open"

\* The run commits or escalates a batch of lines.
Decide(lines, fact) ==
    /\ phase = "open" /\ fact \in {"committed", "escalated"}
    /\ facts' = [l \in Line |-> IF l \in lines THEN facts[l] \cup {fact} ELSE facts[l]]
    /\ UNCHANGED phase

\* Reviewers settle a batch of escalated lines.
Review(lines) ==
    /\ phase = "open"
    /\ \A l \in lines : "escalated" \in facts[l]
    /\ facts' = [l \in Line |-> IF l \in lines THEN facts[l] \cup {"reviewed"} ELSE facts[l]]
    /\ UNCHANGED phase

Close ==
    /\ phase = "open" /\ UNCHANGED facts
    /\ \/ phase' = "completed" /\ \A l \in Line : facts[l] # {}
       \/ phase' = "halted_cost"

Next == \/ \E lines \in SUBSET Line, fact \in Fact : Decide(lines, fact)
        \/ \E lines \in SUBSET Line : Review(lines)
        \/ Close

Spec == Init /\ [][Next]_vars
=============================================================================
