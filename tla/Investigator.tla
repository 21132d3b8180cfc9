----------------------------- MODULE Investigator -----------------------------
(***************************************************************************)
(* The investigation of one snapshot's selected tests.                     *)
(*                                                                         *)
(* The run fans out a child workflow per test, in waves.  A child runs the *)
(* plan the snapshot pins, has the run classified, files the verdict and   *)
(* acts on it: it rewrites the plan and runs again, restores it, or drops  *)
(* the test.  Each of these is an activity that is tried once: it may fail *)
(* before or after it took effect, and the engine may outlive the attempt  *)
(* it belongs to.  What kills a child is recorded by its parent.           *)
(***************************************************************************)
EXTENDS Integers, Sequences, FiniteSets

CONSTANTS
    Targets,      \* number of tests selected
    Concurrency,  \* INVESTIGATOR_CONCURRENCY: children at a time
    MaxFaults     \* bound: activities that fail or lose their answer

ASSUME InvestigatorAssumption ==
    Targets \in Nat /\ Concurrency \in Nat \ {0} /\ MaxFaults \in Nat

Test == 1..Targets
MaxIterations == 2

\* "other": every verdict that calls for no action.
Verdict == {"passed", "plan_mismatch", "invalid_test", "other"}

VARIABLES
    child,       \* each Investigator: where it is, its iteration, the verdict it reached, whether that
                 \* came with a rewrite, and the plan to put back (0: none)
    pinned,      \* the plan each test is assigned, numbered as they are minted (0: test dropped)
    runs,        \* test_generation: the runs of each test, the plan each ran, its status, its engine
    filed,       \* analysis_classification of each test by number
    current,     \* currentClassificationId of each finding (0: none)
    failure,     \* findings with a recorded containment
    report,      \* how the Reporter's settlement ended
    unrestored,  \* (history) tests whose restore failed
    unmarked,    \* (history) tests a run of which could not be marked failed
    faults       \* failures so far

findings == <<filed, current, failure>>
vars == <<child, pinned, runs, findings, report, unrestored, unmarked, faults>>

Complete == {"success", "failed"}
At == {"waiting", "starting", "provisioning", "running", "marking", "writing", "classifying", "filing",
       "healing", "updating", "dropping", "restoring", "done", "crashed", "contained"}
Child == [at : At, iteration : 1..MaxIterations, says : Verdict \cup {"none"}, rewrite : BOOLEAN, before : Nat]
Run == [plan : Nat, status : {"pending", "running"} \cup Complete, engine : {"off", "on", "cut", "reported", "over"}]

TypeOK ==
    /\ child \in [Test -> Child] /\ pinned \in [Test -> Nat]
    /\ runs \in [Test -> Seq(Run)]
    /\ filed \in [Test -> [1..MaxIterations -> Verdict \cup {"none"}]]
    /\ current \in [Test -> 0..MaxIterations]
    /\ failure \subseteq Test /\ unrestored \subseteq Test /\ unmarked \subseteq Test
    /\ report \in {"none", "settled", "refused"} /\ faults \in 0..MaxFaults

\* recordSelection has created a finding for each test.
Init ==
    /\ child = [t \in Test |-> [at |-> "waiting", iteration |-> 1, says |-> "none", rewrite |-> FALSE, before |-> 0]]
    /\ pinned = [t \in Test |-> 1] /\ runs = [t \in Test |-> <<>>]
    /\ filed = [t \in Test |-> [n \in 1..MaxIterations |-> "none"]]
    /\ current = [t \in Test |-> 0] /\ failure = {}
    /\ report = "none" /\ unrestored = {} /\ unmarked = {} /\ faults = 0

-----------------------------------------------------------------------------
(* Activities.                                                             *)

Goes(t, at) == child' = [child EXCEPT ![t].at = at]

Fault == faults < MaxFaults /\ faults' = faults + 1

\* An activity is tried once.  It answers, or it fails, and then it may have taken effect all the same.
Tried(effect, nothing, answered, failed) ==
    \/ effect /\ answered /\ UNCHANGED faults
    \/ (effect \/ nothing) /\ failed /\ Fault

Ended(t) == child[t].at \in {"done", "contained"}

Wave(t) == (t - 1) \div Concurrency

\* The next wave starts when every child of the one before has ended.
Begin(t) ==
    /\ child[t].at = "waiting"
    /\ \A u \in Test : Wave(u) < Wave(t) => Ended(u)
    /\ Goes(t, "starting")
    /\ UNCHANGED <<pinned, runs, findings, report, unrestored, unmarked, faults>>

-----------------------------------------------------------------------------
(* Running the test.                                                       *)

OnlyRun == UNCHANGED <<pinned, findings, report, unrestored, unmarked>>

StartRun(t) ==
    /\ child[t].at = "starting"
    /\ Tried(runs' = [runs EXCEPT ![t] = Append(@, [plan |-> pinned[t], status |-> "pending", engine |-> "off"])],
             UNCHANGED runs, Goes(t, "provisioning"), Goes(t, "crashed"))
    /\ OnlyRun

\* The scenario is provisioned, if there is one; when that fails the application is never exercised.
ScenarioUp(t) ==
    /\ child[t].at = "provisioning"
    /\ \/ Goes(t, "running")
       \/ child' = [child EXCEPT ![t].at = "marking", ![t].says = "other"]
    /\ UNCHANGED <<runs, faults>> /\ OnlyRun

Awaits(t, n) == child[t].at = "running" /\ n = Len(runs[t])

\* markRunning asks for nothing: an attempt that was cut off before it marks the run all the same.
EngineStarts(t, n) ==
    /\ runs[t][n].engine = "cut" \/ (Awaits(t, n) /\ runs[t][n].engine = "off")
    /\ runs' = [runs EXCEPT ![t][n].engine = "on", ![t][n].status = "running"]
    /\ UNCHANGED <<child, faults>> /\ OnlyRun

EngineReports(t, n) ==
    /\ runs[t][n].engine = "on"
    /\ \E status \in Complete :
            runs' = [runs EXCEPT ![t][n].engine = "reported", ![t][n].status = status]
    /\ UNCHANGED <<child, faults>> /\ OnlyRun

EngineReturns(t, n) ==
    /\ Awaits(t, n) /\ runs[t][n].engine = "reported"
    /\ runs' = [runs EXCEPT ![t][n].engine = "over"]
    /\ Goes(t, "classifying")
    /\ UNCHANGED faults /\ OnlyRun

\* Also after it reported: uploading the recording may throw.
EngineThrows(t, n) ==
    /\ runs[t][n].engine \in {"on", "reported"}
    /\ runs' = [runs EXCEPT ![t][n].engine = "over", ![t][n].status = "failed"]
    /\ IF Awaits(t, n) THEN Goes(t, "marking") ELSE UNCHANGED child
    /\ UNCHANGED faults /\ OnlyRun

\* The attempt times out: its worker died, or is cut off and goes on.
TimesOut(t) ==
    /\ child[t].at = "running"
    /\ \E engine \in {"cut", "on", "reported", "over"} :
            /\ engine \in {IF runs[t][Len(runs[t])].engine = "off" THEN "cut" ELSE runs[t][Len(runs[t])].engine, "over"}
            /\ runs' = [runs EXCEPT ![t][Len(runs[t])].engine = engine]
    /\ Fault /\ OnlyRun

\* Mutant of EngineLost: a run that timed out is left to its engine.
EngineLostUnmarked(t) == TimesOut(t) /\ Goes(t, "classifying")

EngineLost(t) == TimesOut(t) /\ Goes(t, "marking")

\* A run that was never classified has its fault for a verdict.
Marked(t) == Goes(t, IF child[t].says = "none" THEN "classifying" ELSE "filing")

\* markGenerationFailed reads the status, and writes in a statement of its own.
ReadStatus(t) ==
    /\ child[t].at = "marking"
    /\ IF runs[t][Len(runs[t])].status \in Complete THEN Marked(t) ELSE Goes(t, "writing")
    /\ UNCHANGED <<runs, faults>> /\ OnlyRun

WriteFailed(t) ==
    /\ child[t].at = "writing"
    /\ runs' = [runs EXCEPT ![t][Len(runs[t])].status = "failed"]
    /\ Marked(t)
    /\ UNCHANGED faults /\ OnlyRun

MarkFails(t) ==
    /\ child[t].at \in {"marking", "writing"}
    /\ Marked(t)
    /\ unmarked' = unmarked \cup {t}
    /\ UNCHANGED <<pinned, runs, findings, report, unrestored>> /\ Fault

\* A classifier that fails is contained as a verdict too.
Classify(t) ==
    /\ child[t].at = "classifying"
    /\ \E verdict \in Verdict, rewrite \in BOOLEAN :
            /\ rewrite => verdict \in {"passed", "plan_mismatch"}
            /\ child' = [child EXCEPT ![t].at = "filing", ![t].says = verdict, ![t].rewrite = rewrite]
    /\ UNCHANGED <<runs, faults>> /\ OnlyRun

-----------------------------------------------------------------------------
(* Filing the verdict and acting on it.                                    *)

\* What the loop does on a verdict.
Acts(c) ==
    CASE c.says = "invalid_test" -> "dropping"
      [] c.says = "passed" /\ c.rewrite -> "updating"
      [] c.says = "plan_mismatch" /\ c.rewrite /\ c.iteration < MaxIterations -> "healing"
      [] c.says = "plan_mismatch" /\ c.before # 0 -> "restoring"
      [] OTHER -> "done"

Filed(t) ==
    /\ filed' = [filed EXCEPT ![t][child[t].iteration] = child[t].says]
    /\ current' = [current EXCEPT ![t] = child[t].iteration]

\* Mutant of FileVerdict: the loop goes on when the verdict could not be filed.
FileContained(t) ==
    /\ child[t].at = "filing"
    /\ Tried(Filed(t), UNCHANGED <<filed, current>>, Goes(t, Acts(child[t])), Goes(t, Acts(child[t])))
    /\ UNCHANGED <<pinned, runs, failure, report, unrestored, unmarked>>

\* persistAnalysisClassification: on every path, and before the verdict is acted on.
FileVerdict(t) ==
    /\ child[t].at = "filing"
    /\ Tried(Filed(t), UNCHANGED <<filed, current>>, Goes(t, Acts(child[t])), Goes(t, "crashed"))
    /\ UNCHANGED <<pinned, runs, failure, report, unrestored, unmarked>>

OnlyPlan == UNCHANGED <<runs, findings, report, unmarked>>

Revised(t) == pinned' = [pinned EXCEPT ![t] = @ + 1]

\* Mutant of Healed: the plan the rewrite replaces is not held.
HealedForGood(t) ==
    child' = [child EXCEPT ![t].at = "starting", ![t].iteration = @ + 1, ![t].says = "none", ![t].rewrite = FALSE]

\* The next iteration runs the rewrite, and knows what it replaced.
Healed(t) ==
    child' = [child EXCEPT ![t].at = "starting", ![t].iteration = @ + 1, ![t].says = "none", ![t].rewrite = FALSE,
                           ![t].before = IF @ = 0 THEN pinned[t] ELSE @]

\* selfHealAnalysisTest after a plan_mismatch.
SelfHeal(t) ==
    /\ child[t].at = "healing"
    /\ Tried(Revised(t), UNCHANGED pinned, Healed(t), Goes(t, "crashed"))
    /\ OnlyPlan /\ UNCHANGED unrestored

\* selfHealAnalysisTest after a pass: nothing is run again.
ApplyUpdate(t) ==
    /\ child[t].at = "updating"
    /\ Tried(Revised(t), UNCHANGED pinned, Goes(t, "done"), Goes(t, "crashed"))
    /\ OnlyPlan /\ UNCHANGED unrestored

\* The activity refuses a blank rewrite.
SkipRewrite(t) ==
    /\ child[t].at \in {"healing", "updating"}
    /\ Goes(t, "done")
    /\ OnlyPlan /\ UNCHANGED <<pinned, unrestored, faults>>

\* deleteAnalysisTest; a removal that failed puts the plan back instead.
RemoveTest(t) ==
    /\ child[t].at = "dropping"
    /\ Tried(pinned' = [pinned EXCEPT ![t] = 0], UNCHANGED pinned,
             Goes(t, "done"), Goes(t, IF child[t].before # 0 THEN "restoring" ELSE "done"))
    /\ OnlyPlan /\ UNCHANGED unrestored

\* Mutant of Restored: a test without assignment gets one.
RestoredAnyway(t) == pinned' = [pinned EXCEPT ![t] = child[t].before]

Restored(t) == pinned' = [pinned EXCEPT ![t] = IF @ = 0 THEN 0 ELSE child[t].before]

\* revertSelfHealPlan; its failure is contained.
RevertRewrite(t) ==
    /\ child[t].at = "restoring"
    /\ Tried(Restored(t), UNCHANGED pinned,
             UNCHANGED unrestored, unrestored' = unrestored \cup {t})
    /\ Goes(t, "done")
    /\ OnlyPlan

-----------------------------------------------------------------------------
(* The parent.                                                             *)

\* Mutant of Contain: the failure is only told to the Reporter.
ContainInMemory(t) ==
    /\ child[t].at = "crashed" /\ Goes(t, "contained")
    /\ UNCHANGED <<pinned, runs, findings, report, unrestored, unmarked, faults>>

\* recordAnalysisContainment; what it fails to record is only logged.
Contain(t) ==
    /\ child[t].at = "crashed" /\ Goes(t, "contained")
    /\ Tried(failure' = failure \cup {t}, UNCHANGED failure, TRUE, TRUE)
    /\ UNCHANGED <<pinned, runs, filed, current, report, unrestored, unmarked>>

Queued == {t \in Test : runs[t] # <<>>}
Covered == {t \in Test : current[t] # 0} \cup failure

\* The Reporter settles, and the snapshot is promoted as it is; or it finds a test uncovered and the run fails.
SettleReport ==
    /\ report = "none" /\ \A t \in Test : Ended(t)
    /\ report' = IF Cardinality(Queued) <= Cardinality(Covered) THEN "settled" ELSE "refused"
    /\ UNCHANGED <<child, pinned, runs, findings, unrestored, unmarked, faults>>

-----------------------------------------------------------------------------

Investigate(t) ==
    \/ Begin(t) \/ StartRun(t) \/ ScenarioUp(t) \/ EngineLost(t)
    \/ ReadStatus(t) \/ WriteFailed(t) \/ MarkFails(t) \/ Classify(t) \/ FileVerdict(t)
    \/ SelfHeal(t) \/ ApplyUpdate(t) \/ SkipRewrite(t) \/ RemoveTest(t) \/ RevertRewrite(t) \/ Contain(t)

Engine(t, n) == EngineStarts(t, n) \/ EngineReports(t, n) \/ EngineReturns(t, n) \/ EngineThrows(t, n)

Next ==
    \/ \E t \in Test : Investigate(t) \/ \E n \in DOMAIN runs[t] : Engine(t, n)
    \/ SettleReport

Spec == Init /\ [][Next]_vars

-----------------------------------------------------------------------------
(* Properties.                                                             *)

\* A plan is edited on the strength of a verdict that is on disk, over a run of that very plan: a test is
\* dropped for invalid_test, rewritten for plan_mismatch or tightened after a pass, whatever fails.
EditFollowsVerdict == \A t \in Test :
    /\ pinned[t] = 0 => current[t] # 0 /\ filed[t][current[t]] = "invalid_test"
    /\ pinned[t] > 1 => \E n \in 1..current[t] :
            /\ n <= Len(runs[t]) /\ runs[t][n].plan = pinned[t] - 1
            /\ filed[t][n] \in {"plan_mismatch", "passed"}

\* A child that ends on plan_mismatch or invalid_test leaves no rewrite behind: the test has the plan the
\* loop began with or is gone, unless the restore itself failed.
RewriteIsUndone == \A t \in Test :
    child[t].at = "done" /\ filed[t][2] \in {"plan_mismatch", "invalid_test"} =>
        pinned[t] \in {0, 1} \/ t \in unrestored

\* A test that passed promotes with the plan that passed, or with what the pass itself suggested.
PassedPlanPromotes == \A t \in Test :
    child[t].at = "done" /\ current[t] # 0 /\ filed[t][current[t]] = "passed" =>
        pinned[t] - runs[t][current[t]].plan \in {0, 1}

\* What a child leaves when it is done is the plan its verdict calls for, whatever failed on the way.
VerdictDecidesPlan == RewriteIsUndone /\ PassedPlanPromotes

\* No target is dropped silently: one that ends with neither verdict nor containment has cost two failures,
\* the one that killed its child and the one of recording that.
SilenceTakesTwoFaults ==
    2 * Cardinality({t \in Test : Ended(t) /\ t \notin Covered}) <= faults

\* The report leaves no run behind that nobody will end, whatever times out: a run without a final status has
\* its engine still at it, or could not be marked, or was created for a child that never learnt of it.
NothingLeftPending == report # "none" => \A t \in Test : \A n \in DOMAIN runs[t] :
    \/ runs[t][n].status \in Complete \/ runs[t][n].engine = "on" \/ t \in unmarked
    \/ child[t].at = "contained" /\ n = Len(runs[t]) /\ runs[t][n].engine = "off"

\* A removed test stays removed: nothing the child does after dropping its assignment brings it back.
RemovalStands == [][\A t \in Test : pinned[t] = 0 => pinned'[t] = 0]_vars

\* markGenerationFailed refuses to overwrite a run the engine settled (investigator.workflow.ts:527).
SettledRunStands ==
    [][\A t \in Test : \A n \in DOMAIN runs[t] :
          child[t].at = "writing" /\ runs[t][n].status = "success" => runs'[t][n].status = "success"]_vars

\* A rewrite the classifier has seen fail is never what promotes (investigator.workflow.ts:374), but for a
\* restore that failed.
KnownFailingNeverPromotes == \A t \in Test :
    /\ report = "settled" /\ child[t].iteration = 2 /\ child[t].says \in {"plan_mismatch", "invalid_test"}
    /\ pinned[t] = 2
    => t \in unrestored

\* Settlement refuses a report while a test that queued a run has neither verdict nor containment
\* (packages/analysis/README.md:94).
ReportCoversQueued == report = "settled" => Queued \subseteq Covered
=============================================================================
