----------------------------- MODULE MCEvaluation ---------------------------
(***************************************************************************)
(* The two periods of the program with their real mixes, and quotas from    *)
(* the floors of all classes up to more than there is. Evaluations find the *)
(* deterministic rules right, better, worse, wrong for a rare class, wrong  *)
(* for one line of many, and committing what nobody can tell.               *)
(***************************************************************************)
EXTENDS Evaluation

June ==
    ("h_batch" :> 28) @@ ("h_dup_amount" :> 28) @@ ("h_fee_netted" :> 28) @@
    ("h_feedback" :> 32) @@ ("h_fx" :> 20) @@ ("h_narrative_only" :> 20) @@
    ("h_no_match" :> 20) @@ ("h_partial" :> 36) @@ ("h_transposed_ref" :> 28) @@
    ("t0_rent_exact" :> 480) @@ ("t0_supplier_exact" :> 180) @@
    ("t1_recurring_fee" :> 6) @@ ("t1_standing_order" :> 70) @@
    ("t1_unique_counterparty" :> 224)

July ==
    ("h_feedback" :> 16) @@ ("t0_rent_exact" :> 90) @@ ("t0_supplier_exact" :> 30) @@
    ("t1_recurring_fee" :> 12) @@ ("t1_standing_order" :> 12) @@
    ("t1_unique_counterparty" :> 40)

MCPeriod == <<[mix |-> June, distractors |-> 250],
              [mix |-> July, distractors |-> 60]>>

Halves(clean, hard) == [h \in Half |-> IF h = "clean" THEN clean ELSE hard]
MCQuota == {Halves(180, 120), Halves(15, 27), Halves(61, 200)}

Rules == {"t0_rent_exact", "t0_supplier_exact", "t1_recurring_fee", "t1_standing_order",
          "t1_unique_counterparty"}
Settled(classes) == [c \in Range(Class) |-> IF c \in classes THEN "right" ELSE "declined"]
MCCommits ==
    {Settled(Rules), Settled(Rules \cup {"h_transposed_ref"}),
     [Settled(Rules) EXCEPT !["t1_recurring_fee"] = "wrong"],
     [Settled(Rules) EXCEPT !["t0_rent_exact"] = "slip"],
     Settled(Rules \cup {"h_dup_amount"})}

\* What the theorems of EvaluationProofs ask of mixes, quotas, floor and evaluations.
ASSUME MixesAsked == ExchangesLeadPast /\ RoomForFloors /\ MinPerClass >= 1 /\ OneAtATime
=============================================================================
