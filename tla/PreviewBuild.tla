----------------------------- MODULE PreviewBuild -----------------------------
(***************************************************************************)
(* The preview builds of one pull request.                                 *)
(*                                                                         *)
(* A build is a workflow per commit that launches a Kubernetes Job and     *)
(* polls for what becomes of it.  Launching deletes the Jobs in flight;    *)
(* their pods hear of it later, and drain.  So do the watcher of accounts  *)
(* that ran out of credits, a cancelled workflow, and time, once a Job has *)
(* ended.  A pod records its progress in one row per pull request, which   *)
(* belongs to the commit that claimed it last, and in one row per commit;  *)
(* no write of a pod looks whose row it is.  The workflow sees the rows    *)
(* and the Job, and never the pod.                                         *)
(***************************************************************************)
EXTENDS Integers

CONSTANTS
    Build,      \* executions of previewBuildWorkflow, one per commit and known by it
    Other,      \* launches that tear the environment down, or redeploy one app of it
    MaxMishaps  \* bound: failures, redeployments of an app, sweeps of a dry account, Jobs whose time is up

Launches == Build \cup Other

ASSUME PreviewBuildAssumption ==
    "none" \notin Build /\ Build \cap Other = {} /\ MaxMishaps \in Nat

VARIABLES
    flow,       \* each workflow: where it is, what it read of its Job, whether it saw its build claim the row
    outcome,    \* how it ended
    launch,     \* what launches the Job of each build, teardown and redeployment
    job,        \* (Kubernetes) the Job each build launched
    pod,        \* (Kubernetes) how far its pod is
    retried,    \* builds whose Job is on its second pod
    row,        \* previewkit_environment: the commit that has it, and its status
    built,      \* previewkit_build of each commit
    watcher,    \* previewkit-credits-watcher: where it is in its sweep
    claimed,    \* (history) builds whose pod claimed the row
    deployed,   \* (history) commits whose pod finished its deployment
    strayed,    \* (history) whether a run wrote to the row while it was another commit's
    followed,   \* (history) builds after whose launch another one deleted the Jobs it found
    killed,     \* (history) builds whose Job the watcher deleted
    collected,  \* (history) builds whose Job had ended and lived out its time
    mishaps     \* how many of those there have been

k8s == <<job, pod, retried>>
rows == <<row, built, claimed, deployed, strayed>>
reasons == <<followed, killed, collected>>
vars == <<flow, outcome, launch, k8s, rows, watcher, reasons, mishaps>>

NoRow == [head |-> "none", status |-> "none"]
Alive == {"preparing", "building", "deploying"}
Ended == {"succeeded", "failed", "gone"}

TypeOK ==
    /\ flow \in [Build -> [at : {"idle", "launching", "polling", "reading", "done"},
                           read : {"running"} \cup Ended, sawClaim : BOOLEAN]]
    /\ outcome \in [Build -> {"none", "ready", "failed", "superseded", "declined", "died", "gone", "cancelled", "timeout"}]
    /\ launch \in [Launches -> {"no", "creating", "tearing", "redeploying", "over"}]
    /\ job \in [Build -> {"none", "active"} \cup Ended]
    /\ pod \in [Build -> {"none", "over"} \cup Alive]
    /\ retried \subseteq Build
    /\ row \in [head : Build, status : {"building", "ready", "failed", "torn_down"}] \cup {NoRow}
    /\ built \in [Build -> {"none", "building", "failed", "superseded"}]
    /\ claimed \subseteq Build /\ deployed \subseteq Build /\ strayed \in BOOLEAN
    /\ watcher \in {"asleep", "settling", "killing"}
    /\ followed \subseteq Build /\ killed \subseteq Build /\ collected \subseteq Build
    /\ mishaps \in 0..MaxMishaps

Init ==
    /\ flow = [b \in Build |-> [at |-> "idle", read |-> "running", sawClaim |-> FALSE]]
    /\ outcome = [b \in Build |-> "none"]
    /\ launch = [l \in Launches |-> "no"]
    /\ job = [b \in Build |-> "none"] /\ pod = [b \in Build |-> "none"]
    /\ retried = {}
    /\ row = NoRow /\ built = [h \in Build |-> "none"]
    /\ claimed = {} /\ deployed = {} /\ strayed = FALSE
    /\ watcher = "asleep" /\ followed = {} /\ killed = {} /\ collected = {} /\ mishaps = 0

-----------------------------------------------------------------------------
(* Launching.                                                              *)

Ends(b, how) == flow' = [flow EXCEPT ![b].at = "done"] /\ outcome' = [outcome EXCEPT ![b] = how]

\* Deletes Jobs, whether they still run or have ended.
Deletes(jobs) == job' = [b \in Build |-> IF b \in jobs THEN "gone" ELSE job[b]]

Deletable == {b \in Build : job[b] \in {"active", "succeeded", "failed"}}

\* A workflow is started; another start for its commit attaches to it.
Starts(b) == flow[b].at = "idle"

\* previewBuildRefusalReason, or no runner image: nothing is launched.
Refuse(b) ==
    /\ Starts(b) /\ \E how \in {"declined", "failed"} : Ends(b, how)
    /\ UNCHANGED <<launch, k8s, rows, watcher, reasons>>

\* supersedeDeployFamily: the Jobs there are get deleted before the launch's own is created, so that their
\* pods will be told to stop.
SupersedeAnd(l, pc, jobs) ==
    /\ launch[l] = "no" /\ launch' = [launch EXCEPT ![l] = pc]
    /\ Deletes(jobs)
    /\ followed' = followed \cup {b \in Build : launch[b] # "no"}
    /\ IF l \in Build THEN Starts(l) /\ flow' = [flow EXCEPT ![l].at = "launching"] ELSE UNCHANGED flow
    /\ UNCHANGED <<outcome, pod, retried, rows, watcher, killed, collected>>

\* By a build, or by the teardown of a closed pull request.
Launching(l) == IF l \in Build THEN "creating" ELSE "tearing"
Supersede(l) == SupersedeAnd(l, Launching(l), Deletable)

\* They cannot be listed, or some not deleted: the launch goes on.
SupersedeFails(l) == \E left \in SUBSET Deletable \ {{}} : SupersedeAnd(l, Launching(l), Deletable \ left)

\* launchRedeployApp: an app is redeployed, of an environment there is.
SupersedeToRedeploy(l) == l \in Other /\ row # NoRow /\ SupersedeAnd(l, "redeploying", Deletable)

\* The Job is created, whether or not its workflow was cancelled meanwhile.
CreateJob(b) ==
    /\ launch[b] = "creating" /\ launch' = [launch EXCEPT ![b] = "over"]
    /\ job' = [job EXCEPT ![b] = "active"] /\ pod' = [pod EXCEPT ![b] = "preparing"]
    /\ flow' = [flow EXCEPT ![b].at = IF @ = "launching" THEN "polling" ELSE @]
    /\ UNCHANGED <<outcome, retried, rows, watcher, reasons>>

CreateFails(b) ==
    /\ launch[b] = "creating" /\ launch' = [launch EXCEPT ![b] = "over"]
    /\ IF flow[b].at = "launching" THEN Ends(b, "failed") ELSE UNCHANGED <<flow, outcome>>
    /\ UNCHANGED <<k8s, rows, watcher, reasons>>

\* The environment's row, found by its namespace, is given a status.
Marks(status) == row' = IF row = NoRow THEN row ELSE [row EXCEPT !.status = status]

\* recordEnvironmentTornDown, once its Job runs and the namespace is deleted.
RecordTornDown(l) ==
    /\ launch[l] = "tearing" /\ launch' = [launch EXCEPT ![l] = "over"]
    /\ Marks("torn_down")
    /\ UNCHANGED <<flow, outcome, k8s, built, claimed, deployed, strayed, watcher, reasons>>

\* recordAppRedeployOutcome, once its Job runs: the row's status is computed anew from the apps' rows,
\* whoever's build made them.
RecordRedeployed(l) ==
    /\ launch[l] = "redeploying" /\ launch' = [launch EXCEPT ![l] = "over"]
    /\ \E status \in {"ready", "failed"} : Marks(status)
    /\ strayed' = TRUE
    /\ UNCHANGED <<flow, outcome, k8s, built, claimed, deployed, watcher, reasons>>

-----------------------------------------------------------------------------
(* The workflow: polling, and its cancellation.                            *)

OnlyFlow == UNCHANGED <<launch, k8s, rows, watcher, reasons>>

Reads(b, state) ==
    /\ flow[b].at = "polling"
    /\ flow' = [flow EXCEPT ![b].at = "reading", ![b].read = state]
    /\ UNCHANGED outcome /\ OnlyFlow

JobState(b) == IF job[b] = "active" THEN "running" ELSE job[b]

\* Mutant of ReadJob: a Job whose first pod failed is taken for a failed Job.
ReadJobAtFirstFailure(b) ==
    ~flow[b].sawClaim /\ Reads(b, IF b \in retried /\ job[b] = "active" THEN "failed" ELSE JobState(b))

\* endedWithoutClaiming: the Job is read first, until the row was seen claimed.
ReadJob(b) == ~flow[b].sawClaim /\ Reads(b, JobState(b))

\* It cannot be read: it counts as running.
ReadJobFails(b) == ~flow[b].sawClaim /\ Reads(b, "running")

\* Mutant of Status: the row is read whoever's it is.
StatusOfAnyHead(h) == IF row = NoRow THEN "missing" ELSE IF row.status = "torn_down" THEN "failed" ELSE row.status

\* readPreviewBuildStatus: the environment's row where it is this commit's, else the commit's own.
Status(h) ==
    CASE row.head = h -> IF row.status = "torn_down" THEN "failed" ELSE row.status
      [] row.head # h /\ row # NoRow /\ built[h] \in {"failed", "superseded"} -> "superseded"
      [] OTHER -> "missing"

\* What a Job that ended without claiming the row means.
Meaning(read) == CASE read = "succeeded" -> "declined" [] read = "failed" -> "died" [] OTHER -> "gone"

PollAgain(b) ==
    flow' = [flow EXCEPT ![b] = [at |-> "polling", read |-> "running", sawClaim |-> Status(b) # "missing" \/ @.sawClaim]]

ReadStatus(b) ==
    LET status == Status(b) IN
    /\ flow[b].at = "reading" \/ (flow[b].at = "polling" /\ flow[b].sawClaim)
    /\ CASE status = "missing" /\ flow[b].read # "running" -> Ends(b, Meaning(flow[b].read))
         [] status \notin {"missing", "building"} -> Ends(b, status)
         [] OTHER -> PollAgain(b) /\ UNCHANGED outcome
    /\ OnlyFlow

\* One of the two budgets is used up.
GiveUp(b) == flow[b].at = "polling" /\ Ends(b, "timeout") /\ OnlyFlow

Cancelled(b) == flow[b].at \in {"launching", "polling", "reading"} /\ Ends(b, "cancelled")

\* Mutant of Cancel: the Jobs of the pull request are deleted by their label.
CancelByLabel(b) ==
    /\ Cancelled(b) /\ Deletes(IF flow[b].at = "launching" THEN {} ELSE Deletable)
    /\ UNCHANGED <<launch, pod, retried, rows, watcher, reasons>>

\* A newer push cancels the workflow, which deletes its own Job if it has been told its name.
Cancel(b) ==
    /\ Cancelled(b) /\ Deletes(IF flow[b].at = "launching" THEN {} ELSE {b})
    /\ UNCHANGED <<launch, pod, retried, rows, watcher, reasons>>

CancelFails(b) == Cancelled(b) /\ OnlyFlow

-----------------------------------------------------------------------------
(* The pod.                                                                *)

OnlyPod == UNCHANGED <<flow, outcome, launch, watcher, reasons>>

Goes(b, from, to) == pod[b] = from /\ pod' = [pod EXCEPT ![b] = to]
Exits(b) ==
    /\ pod' = [pod EXCEPT ![b] = "over"]
    /\ job' = [job EXCEPT ![b] = IF @ = "active" THEN "succeeded" ELSE @]

\* A pod's write to the row, whoever's it is.
Writes(b, status) ==
    /\ Marks(status)
    /\ strayed' = (strayed \/ row.head \notin {b, "none"})

\* prepare finds no configuration, or a tripped circuit: the run exits, handled, having written nothing.
Decline(b) ==
    /\ pod[b] = "preparing" /\ Exits(b)
    /\ UNCHANGED <<retried, rows>> /\ OnlyPod

\* recordEnvironmentCreated; prepare does not look whether it was told to stop.
Claim(b) ==
    /\ Goes(b, "preparing", "building")
    /\ row' = [head |-> b, status |-> "building"] /\ claimed' = claimed \cup {b}
    /\ UNCHANGED <<job, retried, built, deployed, strayed>> /\ OnlyPod

\* That write is best effort.
ClaimLost(b) ==
    /\ Goes(b, "preparing", "building")
    /\ UNCHANGED <<job, retried, rows>> /\ OnlyPod

\* build: the row says so, and recordBuildFinished is written.
BuildImages(b) ==
    /\ Goes(b, "building", "deploying") /\ Writes(b, "building")
    /\ built' = [built EXCEPT ![b] = IF row = NoRow THEN @ ELSE "building"]
    /\ UNCHANGED <<job, retried, claimed, deployed>> /\ OnlyPod

\* recordEnvironmentReady.  A pod that was told to stop may be past the last place where it looks.
RecordReady(b) ==
    /\ pod[b] = "deploying" /\ Exits(b) /\ Writes(b, "ready") /\ deployed' = deployed \cup {b}
    /\ UNCHANGED <<retried, built, claimed>> /\ OnlyPod

\* The build fails, before or after recordBuildFinished is written, or the deployment does: fail, likewise.
RecordFailed(b) ==
    /\ pod[b] \in {"building", "deploying"} /\ Exits(b) /\ Writes(b, "failed")
    /\ \/ UNCHANGED built
       \/ pod[b] = "building" /\ row # NoRow /\ built' = [built EXCEPT ![b] = "failed"]
    /\ UNCHANGED <<retried, claimed, deployed>> /\ OnlyPod

\* The pod of a deleted Job sees that it was told to stop. markBuildSuperseded: only the commit's own row.
Drain(b) ==
    /\ job[b] = "gone" /\ pod[b] \in {"building", "deploying"} /\ Exits(b)
    /\ built' = IF row = NoRow THEN built ELSE [built EXCEPT ![b] = "superseded"]
    /\ UNCHANGED <<retried, row, claimed, deployed, strayed>> /\ OnlyPod

\* The pod dies; its Job has one more, and then fails.
Die(b) ==
    /\ pod[b] \in Alive
    /\ IF job[b] = "active" /\ b \notin retried
         THEN pod' = [pod EXCEPT ![b] = "preparing"] /\ retried' = retried \cup {b} /\ UNCHANGED job
         ELSE /\ pod' = [pod EXCEPT ![b] = "over"] /\ UNCHANGED retried
              /\ job' = [job EXCEPT ![b] = IF @ = "active" THEN "failed" ELSE @]
    /\ UNCHANGED rows /\ OnlyPod

\* A Job that has ended is deleted an hour later (ttlSecondsAfterFinished).
Expire(b) ==
    /\ job[b] \in {"succeeded", "failed"} /\ Deletes({b}) /\ collected' = collected \cup {b}
    /\ UNCHANGED <<flow, outcome, launch, pod, retried, rows, watcher, followed, killed>>

-----------------------------------------------------------------------------
(* The watcher: the account may run dry at any time.                       *)

OnlyWatcher == UNCHANGED <<flow, outcome, launch, pod, retried, built, claimed, deployed, strayed, followed, collected>>

\* sweepExhaustedOrgs finds the environment: to be settled, if a build of it is in flight, before its Jobs are deleted.
Sweep ==
    /\ watcher = "asleep" /\ row # NoRow
    /\ watcher' = IF row.status = "building" THEN "settling" ELSE "killing"
    /\ UNCHANGED <<job, row, killed>> /\ OnlyWatcher

\* killEnvironmentForCreditExhaustion, whatever became of the row since; a failure does not save the Jobs.
KillEnvironment ==
    /\ watcher = "settling" /\ watcher' = "killing"
    /\ Marks("failed") \/ UNCHANGED row
    /\ UNCHANGED <<job, killed>> /\ OnlyWatcher

\* cancelJobsForEnvironments: any of the Jobs may not be deleted, and none is once the environment was torn down.
KillJobs ==
    /\ watcher = "killing" /\ watcher' = "asleep"
    /\ \E jobs \in SUBSET Deletable : Deletes(jobs) /\ killed' = killed \cup jobs
    /\ UNCHANGED row /\ OnlyWatcher

GoesWell ==
    \/ \E b \in Build :
         \/ Refuse(b) \/ CreateJob(b) \/ ReadJob(b) \/ ReadStatus(b) \/ Cancel(b) \/ Decline(b) \/ Claim(b)
         \/ BuildImages(b) \/ RecordReady(b) \/ RecordFailed(b) \/ Drain(b)
    \/ \E l \in Launches : Supersede(l) \/ RecordTornDown(l) \/ RecordRedeployed(l)
    \/ KillEnvironment \/ KillJobs

\* Failures, and what other parts of the system do to the environment.
GoesWrong ==
    \/ \E b \in Build : CreateFails(b) \/ ReadJobFails(b) \/ GiveUp(b) \/ CancelFails(b) \/ ClaimLost(b) \/ Die(b) \/ Expire(b)
    \/ \E l \in Launches : SupersedeFails(l) \/ SupersedeToRedeploy(l)
    \/ Sweep

Next ==
    \/ GoesWell /\ UNCHANGED mishaps
    \/ GoesWrong /\ mishaps < MaxMishaps /\ mishaps' = mishaps + 1

Spec == Init /\ [][Next]_vars

-----------------------------------------------------------------------------
(* Properties.                                                             *)

CalledDead(b) == outcome[b] \in {"declined", "died"}

\* A build is called dead only if it is (awaitPreviewSettled "Read the Job BEFORE the status: one that had
\* already ended cannot have written a row between the two, so `missing` below is final"): a build that
\* was said to end without claiming the row does not have it, then or later - unless a newer commit has
\* taken the row from it since.
DeadHasNotLived ==
    [][\A b \in Build : (CalledDead(b) /\ b \in claimed)' => (CalledDead(b) /\ b \in claimed) \/ row'.head # b]_vars

\* A build reported ready was deployed: whatever else claims, loses or tears down the row meanwhile, the
\* status a workflow settles on is its own commit's - but for a run that wrote to another's row.
ReadyIsReal == \A b \in Build : outcome[b] = "ready" => b \in deployed \/ strayed

\* A build's Job vanishes only for a reason of its own (cancelDeploy "a late label-scoped delete would kill whichever
\* newer commit had already launched"; a Job that is gone was "superseded, cancelled, or TTL-collected"): when a
\* workflow finds its Job gone, a later launch had deleted it, or the watcher had, or it had ended long before. No
\* cancellation of another commit's workflow, however late, stops it.
GoneIsAccounted == \A b \in Build : outcome[b] = "gone" => b \in followed \cup killed \cup collected

\* What runDeploy says of a superseded run: it "must NOT touch the environment row (the successor run
\* owns it)".  A run that was told to stop does not take the row from the commit that has it.
SuccessorKeepsRow ==
    [][\A b \in Build : job[b] = "gone" /\ pod[b] # pod'[b] /\ row # NoRow /\ row.head # b => row'.head # b]_vars

=============================================================================
