----------------------------- MODULE Evaluation -----------------------------
(***************************************************************************)
(* `recon eval`: what the cascade commits is scored against the labels, on  *)
(* the golden set and on the whole month, the write-back is measured in a   *)
(* scratch tenant of the index, the report is written, and the committed    *)
(* baseline is compared and perhaps replaced. Evaluations die anywhere.     *)
(*                                                                         *)
(* What is committed is chosen per evaluation, out of Commits: code, data   *)
(* and settings change in between. All evaluations are at one git sha, so   *)
(* they write one report file.                                              *)
(***************************************************************************)
EXTENDS Dataset

CONSTANTS
    Eval,       \* processes that evaluate
    Commits,    \* functions Class -> Commit: what is committed for the lines of a class
    None

\* All lines of a class are settled as labelled, with other documents, or not at
\* all; "slip": as labelled but for one.
Commit == {"right", "wrong", "slip", "declined"}
ASSUME CommitsAssumption == Commits \subseteq [Range(Class) -> Commit]

VARIABLES
    eval,       \* per process: its position and what it has measured
    scratch,    \* the scratch tenant holds resolved pairs
    report,     \* the report file
    baseline    \* evals/baseline.json

evars == <<eval, scratch, report, baseline>>
vars == <<dvars, evars>>

Idle == [at |-> "idle"]

Init == DInit /\ eval = [p \in Eval |-> Idle] /\ scratch = FALSE /\ report = None /\ baseline = None

-----------------------------------------------------------------------------
\* is_matchable: classes whose label is a match.
Matchable == Range(Class) \ {"h_dup_amount", "h_no_match"}

\* score: committed lines of a class that are wrong; hit tells whether the slip is
\* among those counted.
WrongOf(c, commit, count, hit) ==
    IF commit = "declined" THEN 0
    ELSE IF commit = "wrong" \/ c \notin Matchable THEN count
    ELSE IF commit = "slip" /\ hit THEN 1 ELSE 0

Score(commits, counts, hit) ==
    LET wrong == [c \in DOMAIN counts |-> WrongOf(c, commits[c], counts[c], hit)]
        right == [c \in DOMAIN counts |->
                    IF commits[c] = "declined" THEN 0 ELSE counts[c] - wrong[c]]
    IN  [falsePositives |-> SumFunction(wrong), truePositives |-> SumFunction(right)]

\* load_golden, load_all_cases.
GoldenCounts == Merged(golden["clean"], golden["hard"])
MonthCounts == Merged(pool["clean"], pool["hard"])

\* Which slips the sample can contain: one that is drawn whole contains it.
Hits(commits) ==
    {hit \in BOOLEAN :
        \A c \in DOMAIN GoldenCounts : commits[c] = "slip" =>
            /\ hit => GoldenCounts[c] > 0
            /\ ~ hit => GoldenCounts[c] < MonthCounts[c]}

Scores(commits) ==
    {[golden |-> Score(commits, GoldenCounts, hit), month |-> Score(commits, MonthCounts, TRUE)] :
        hit \in Hits(commits)}

-----------------------------------------------------------------------------
\* run_eval: the arms are scored.
Begin(p) ==
    /\ phase = "drawn" /\ eval[p].at = "idle"
    /\ \E commits \in Commits : \E arms \in Scores(commits) :
         eval' = [eval EXCEPT ![p] = [at |-> "clear", arms |-> arms]]
    /\ UNCHANGED <<dvars, scratch, report, baseline>>

\* Mutant: the tenant is only emptied at the end.
ClearSkipped(p) ==
    /\ eval[p].at = "clear"
    /\ eval' = [eval EXCEPT ![p].at = "before"]
    /\ UNCHANGED <<dvars, scratch, report, baseline>>

\* _run_feedback_arm: the scratch tenant is emptied, recall measured, the pairs
\* indexed, recall measured again, the tenant emptied.
Clear(p) ==
    /\ eval[p].at = "clear"
    /\ scratch' = FALSE
    /\ eval' = [eval EXCEPT ![p].at = "before"]
    /\ UNCHANGED <<dvars, report, baseline>>

MeasureBefore(p) ==
    /\ eval[p].at = "before"
    /\ eval' = [eval EXCEPT ![p] = Merged([at |-> "teach", before |-> scratch], @)]
    /\ UNCHANGED <<dvars, scratch, report, baseline>>

IndexPairs(p) ==
    /\ eval[p].at = "teach"
    /\ scratch' = TRUE
    /\ eval' = [eval EXCEPT ![p].at = "after"]
    /\ UNCHANGED <<dvars, report, baseline>>

MeasureAfter(p) ==
    /\ eval[p].at = "after"
    /\ eval' = [eval EXCEPT ![p] = Merged([at |-> "clean", after |-> scratch], @)]
    /\ UNCHANGED <<dvars, scratch, report, baseline>>

ClearAgain(p) ==
    /\ eval[p].at = "clean"
    /\ scratch' = FALSE
    /\ eval' = [eval EXCEPT ![p].at = "cascade"]
    /\ UNCHANGED <<dvars, report, baseline>>

\* The index fails: no feedback numbers, the scratch tenant stays as it is.
FeedbackFails(p) ==
    /\ eval[p].at \in {"clear", "before", "teach", "after", "clean"}
    /\ scratch' \in IF eval[p].at = "teach" THEN {scratch, TRUE} ELSE {scratch}
    /\ eval' = [eval EXCEPT ![p] = [at |-> "cascade", arms |-> @.arms]]
    /\ UNCHANGED <<dvars, report, baseline>>

\* With --run the decisions of a finished run are scored as well: on the month, and
\* on the sample, which cannot be worse than the month it is part of.
ScoreRun(p) ==
    /\ eval[p].at = "cascade"
    /\ \/ eval' = [eval EXCEPT ![p].at = "write"]
       \/ \E commits \in Commits :
            LET cascade == Score(commits, MonthCounts, TRUE)
            IN  eval' = [eval EXCEPT ![p] = Merged([at |-> "write", cascade |-> cascade], @)]
    /\ UNCHANGED <<dvars, scratch, report, baseline>>

\* write_report: what was measured goes to the file of the git sha.
WriteReport(p) ==
    /\ eval[p].at = "write"
    /\ report' = [k \in DOMAIN eval[p] \ {"at"} |-> eval[p][k]]
    /\ eval' = [eval EXCEPT ![p].at = "check"]
    /\ UNCHANGED <<dvars, scratch, baseline>>

\* The scores of a payload that are checked.
Blocks(e) ==
    {e.arms.golden, e.arms.month} \cup
    IF "cascade" \in DOMAIN e THEN {e.cascade} ELSE {}

\* Mutant: the whole month is not looked at.
FailsOnSample(e) ==
    \/ e.arms.golden.falsePositives > 0
    \/ baseline # None /\ e.arms.golden.truePositives < baseline.arms.golden.truePositives

\* check_regression: a wrong commit anywhere, or fewer right ones on the golden set
\* than the baseline has. Precision is 1 when nothing is wrong: the tests of it say
\* no more.
Fails(e) ==
    \/ \E b \in Blocks(e) : b.falsePositives > 0
    \/ baseline # None /\ e.arms.golden.truePositives < baseline.arms.golden.truePositives

\* _cmd_eval: the comparison; a baseline is only asked for with --set-baseline.
Check(p) ==
    /\ eval[p].at = "check"
    /\ \/ ~ Fails(eval[p]) /\ eval' = [eval EXCEPT ![p].at = "set"]
       \/ eval' = [eval EXCEPT ![p] = Idle]
    /\ UNCHANGED <<dvars, scratch, report, baseline>>

\* The baseline becomes what the report file then holds.
SetBaseline(p) ==
    /\ eval[p].at = "set"
    /\ baseline' = report
    /\ eval' = [eval EXCEPT ![p] = Idle]
    /\ UNCHANGED <<dvars, scratch, report>>

Die(p) ==
    /\ eval[p].at # "idle"
    /\ eval' = [eval EXCEPT ![p] = Idle]
    /\ UNCHANGED <<dvars, scratch, report, baseline>>

Next ==
    \/ DNext /\ UNCHANGED evars
    \/ \E p \in Eval :
         \/ Begin(p) \/ Clear(p) \/ MeasureBefore(p) \/ IndexPairs(p) \/ MeasureAfter(p)
         \/ ClearAgain(p) \/ FeedbackFails(p) \/ ScoreRun(p) \/ WriteReport(p) \/ Check(p)
         \/ SetBaseline(p) \/ Die(p)

Spec == Init /\ [][Next]_vars
-----------------------------------------------------------------------------
\* A rule that is wrong for its whole class shows in the golden set, however rare
\* the class: a flat sample scored one rule with nothing (generator.py 715-719,
\* metrics.py 132-166).
BrokenRuleShows ==
    phase = "drawn" =>
        \A commits \in Commits :
            (\E c \in DOMAIN MonthCounts : commits[c] = "wrong")
            => \A arms \in Scores(commits) : arms.golden.falsePositives > 0

\* Evaluations are run one at a time: two at once share the report file and the
\* scratch tenant.
OneAtATime == \A p, q \in Eval : p = q

\* The baseline never takes in a wrong commit, of the arms or of the run, on the
\* sample or in the month, and never loses a right one of the sample, although its
\* numbers come from a file and other evaluations run in between (cli.py 267-277).
BaselineNeverWorse ==
    [][baseline' # baseline =>
          /\ \A b \in Blocks(baseline') : b.falsePositives = 0
          /\ baseline # None =>
               baseline'.arms.golden.truePositives >= baseline.arms.golden.truePositives]_vars

\* "Before any correction" is measured on an empty history and "after" on the
\* corrections, whatever an evaluation that died has left (runner.py 208-232).
BeforeIsUntaught ==
    report # None /\ "after" \in DOMAIN report => ~ report.before /\ report.after
=============================================================================
