------------------------- MODULE PreviewBuild_proofs -------------------------
(***************************************************************************)
(* The builds of a pull request, for any number of commits and mishaps:    *)
(* types, and that a build is called ready, gone or dead only when it is.  *)
(***************************************************************************)
EXTENDS PreviewBuild, TLAPS

\* What a workflow was told by the row: a ready row was made so by its own commit's pod.
ReadyRow == \A b \in Build : row.head = b /\ row.status = "ready" => b \in deployed \/ strayed

\* A Job that is gone while its workflow still waits was deleted by another launch or the watcher, or had ended.
Accounted(b) == b \in followed \cup killed \cup collected
GoneJob ==
    \A b \in Build :
        /\ job[b] = "gone" /\ flow[b].at # "done" => Accounted(b)
        /\ flow[b].read = "gone" => Accounted(b)

\* A Job that has ended, and one that was read so, has no pod left that could claim the row.
PodIsOver(b) == pod[b] = "over" /\ launch[b] = "over"
EndedJob ==
    \A b \in Build :
        /\ job[b] \in {"succeeded", "failed"} => PodIsOver(b)
        /\ flow[b].read \in {"succeeded", "failed"} => PodIsOver(b)
        /\ CalledDead(b) => pod[b] \in {"none", "over"} /\ launch[b] # "creating" /\ flow[b].at = "done"
        /\ pod[b] # "none" \/ job[b] # "none" => launch[b] = "over"
        /\ flow[b].at \in {"polling", "reading"} => launch[b] = "over"
        /\ launch[b] \in {"no", "creating", "over"} /\ (launch[b] # "no" => flow[b].at # "idle")
        /\ b \in claimed => pod[b] # "none"

PreviewInv == TypeOK /\ ReadyRow /\ ReadyIsReal /\ GoneJob /\ GoneIsAccounted /\ EndedJob

-----------------------------------------------------------------------------
(* Types.                                                                  *)

\* TypeOK in parts: the workflows, what Kubernetes has, the rows, the histories.
FlowTyped ==
    /\ flow \in [Build -> [at : {"idle", "launching", "polling", "reading", "done"}, read : {"running"} \cup Ended, sawClaim : BOOLEAN]]
    /\ outcome \in [Build -> {"none", "ready", "failed", "superseded", "declined", "died", "gone", "cancelled", "timeout"}]
JobsTyped ==
    /\ launch \in [Launches -> {"no", "creating", "tearing", "redeploying", "over"}]
    /\ job \in [Build -> {"none", "active"} \cup Ended] /\ pod \in [Build -> {"none", "over"} \cup Alive]
    /\ retried \subseteq Build
RowsTyped ==
    /\ row \in [head : Build, status : {"building", "ready", "failed", "torn_down"}] \cup {NoRow}
    /\ built \in [Build -> {"none", "building", "failed", "superseded"}]
HistoryTyped ==
    /\ claimed \subseteq Build /\ deployed \subseteq Build /\ mishaps \in 0..MaxMishaps
    /\ followed \subseteq Build /\ killed \subseteq Build /\ collected \subseteq Build

StrayTyped == strayed \in BOOLEAN

WatcherTyped == watcher \in {"asleep", "settling", "killing"}

LEMMA TypeParts == TypeOK <=> FlowTyped /\ JobsTyped /\ RowsTyped /\ HistoryTyped /\ StrayTyped /\ WatcherTyped
  BY DEF TypeOK, FlowTyped, JobsTyped, RowsTyped, HistoryTyped, StrayTyped, WatcherTyped

LEMMA TypePartsNext == FlowTyped' /\ JobsTyped' /\ RowsTyped' /\ HistoryTyped' /\ StrayTyped' /\ WatcherTyped' => TypeOK'
  BY DEF TypeOK, FlowTyped, JobsTyped, RowsTyped, HistoryTyped, StrayTyped, WatcherTyped

LEMMA PreviewInitInv == Init => PreviewInv
<1> SUFFICES ASSUME Init PROVE PreviewInv
  OBVIOUS
<1>1. FlowTyped
  BY DEF Init, FlowTyped, Ended
<1>2. JobsTyped
  BY DEF Init, JobsTyped
<1>3. RowsTyped
  BY DEF Init, RowsTyped
<1>4. HistoryTyped
  BY PreviewBuildAssumption DEF Init, HistoryTyped
<1>40. StrayTyped /\ WatcherTyped
  BY DEF Init, StrayTyped, WatcherTyped
<1>5. TypeOK
  BY <1>1, <1>2, <1>3, <1>4, <1>40, TypeParts
<1>6. ReadyRow
  BY PreviewBuildAssumption DEF Init, ReadyRow, NoRow
<1>7. ReadyIsReal /\ GoneJob /\ GoneIsAccounted
  BY DEF Init, ReadyIsReal, GoneJob, GoneIsAccounted
<1>8. EndedJob
  BY PreviewBuildAssumption DEF Init, EndedJob, CalledDead, Launches
<1>9. QED BY <1>5, <1>6, <1>7, <1>8 DEF PreviewInv

LEMMA Supersedes ==
  ASSUME NEW l \in Launches, Supersede(l) \/ SupersedeFails(l) \/ SupersedeToRedeploy(l)
  PROVE  \E pc \in {"creating", "tearing", "redeploying"}, jobs \in SUBSET Deletable :
            (l \in Build => pc = "creating") /\ SupersedeAnd(l, pc, jobs)
<1>1. CASE Supersede(l)
  BY <1>1 DEF Supersede, Launching
<1>2. CASE SupersedeFails(l)
  BY <1>2 DEF SupersedeFails, Launching
<1>3. CASE SupersedeToRedeploy(l)
  BY <1>3, PreviewBuildAssumption DEF SupersedeToRedeploy
<1>4. QED BY <1>1, <1>2, <1>3

\* A step of a workflow, of a launch, of a pod; and the rest of one.
LEMMA PreviewTypeStep == TypeOK /\ [Next]_vars => TypeOK'
<1> SUFFICES ASSUME TypeOK, [Next]_vars PROVE TypeOK'
  OBVIOUS
<1>0. FlowTyped /\ JobsTyped /\ RowsTyped /\ HistoryTyped /\ StrayTyped /\ WatcherTyped
  BY TypeParts
<1>1. mishaps \in 0..MaxMishaps => mishaps' \in 0..MaxMishaps
  BY PreviewBuildAssumption DEF Next, vars
<1>2. FlowTyped'
  <2>1. CASE UNCHANGED <<flow, outcome>>
    BY <1>0, <2>1 DEF FlowTyped
  <2>2. ASSUME NEW b \in Build, NEW how \in {"none", "ready", "failed", "superseded", "declined", "died", "gone", "cancelled", "timeout"}, Ends(b, how) PROVE FlowTyped'
    <3>1. [flow[b] EXCEPT !.at = "done"] \in [at : {"idle", "launching", "polling", "reading", "done"},
                                              read : {"running"} \cup Ended, sawClaim : BOOLEAN]
      BY <1>0 DEF FlowTyped
    <3>2. flow' = [flow EXCEPT ![b] = [flow[b] EXCEPT !.at = "done"]] /\ outcome' = [outcome EXCEPT ![b] = how]
      BY <2>2 DEF Ends
    <3>3. flow' \in [Build -> [at : {"idle", "launching", "polling", "reading", "done"},
                                read : {"running"} \cup Ended, sawClaim : BOOLEAN]]
      BY <1>0, <3>1, <3>2, Zenon DEF FlowTyped
    <3>4. QED BY <1>0, <2>2, <3>2, <3>3 DEF FlowTyped
  <2>3. ASSUME NEW b \in Build, ReadStatus(b) PROVE FlowTyped'
    <3>1. Status(b) \in {"building", "ready", "failed", "superseded", "missing"}
      BY <1>0, PreviewBuildAssumption DEF Status, RowsTyped, NoRow
    <3>2. Meaning(flow[b].read) \in {"declined", "died", "gone"}
      BY DEF Meaning
    <3>3. CASE PollAgain(b) /\ UNCHANGED outcome
      <4>1. (Status(b) # "missing" \/ flow[b].sawClaim) \in BOOLEAN
        OBVIOUS
      <4>2. QED BY <1>0, <3>3, <4>1 DEF FlowTyped, PollAgain
    <3>4. QED BY <2>2, <2>3, <3>1, <3>2, <3>3 DEF ReadStatus
  <2>4. ASSUME NEW b \in Build, CreateJob(b) \/ ReadJob(b) \/ ReadJobFails(b) PROVE FlowTyped'
    BY <1>0, <2>4 DEF FlowTyped, JobsTyped, CreateJob, ReadJob, ReadJobFails, Reads, JobState, Ended
  <2>5. ASSUME NEW l \in Launches, NEW pc \in {"creating", "tearing", "redeploying"}, NEW jobs,
               l \in Build => pc = "creating", SupersedeAnd(l, pc, jobs)
        PROVE FlowTyped'
    BY <1>0, <2>5 DEF FlowTyped, SupersedeAnd, Starts, Launches
  <2>6. QED
    BY <2>1, <2>2, <2>3, <2>4, <2>5, Supersedes
    DEF Next, GoesWell, GoesWrong, vars, reasons, Expire, Sweep, KillEnvironment, KillJobs, OnlyWatcher, RecordRedeployed, Refuse, Cancel,
        CancelFails, Cancelled, GiveUp, CreateFails,
        RecordTornDown, Decline, Claim, ClaimLost, BuildImages, RecordReady, RecordFailed, Drain, Die, OnlyPod
<1>3. JobsTyped'
  <2>1. CASE UNCHANGED <<launch, job, pod, retried>>
    BY <1>0, <2>1 DEF JobsTyped
  <2>2. ASSUME NEW b \in Build, NEW jobs, CreateJob(b) \/ CreateFails(b) \/ (Cancelled(b) /\ Deletes(jobs) /\ UNCHANGED <<launch, pod, retried>>)
        PROVE JobsTyped'
    BY <1>0, <2>2 DEF JobsTyped, CreateJob, CreateFails, Deletes, k8s, Launches, Ended, Alive
  <2>3. ASSUME NEW l \in Launches, NEW pc \in {"creating", "tearing", "redeploying"}, NEW jobs,
               l \in Build => pc = "creating", SupersedeAnd(l, pc, jobs)
        PROVE JobsTyped'
    BY <1>0, <2>3 DEF JobsTyped, SupersedeAnd, Deletes, Launches, Ended
  <2>4. ASSUME NEW b \in Build, Decline(b) \/ RecordReady(b) \/ RecordFailed(b) \/ Drain(b) PROVE JobsTyped'
    BY <1>0, <2>4 DEF JobsTyped, Decline, RecordReady, RecordFailed, Drain, Exits, OnlyPod, Ended
  <2>5. ASSUME NEW b \in Build, Claim(b) \/ ClaimLost(b) \/ BuildImages(b) \/ Die(b) PROVE JobsTyped'
    BY <1>0, <2>5 DEF JobsTyped, Claim, ClaimLost, BuildImages, Die, Goes, OnlyPod, Ended, Alive
  <2>6. ASSUME NEW l \in Launches, RecordTornDown(l) \/ RecordRedeployed(l) PROVE JobsTyped'
    BY <1>0, <2>6 DEF JobsTyped, RecordTornDown, RecordRedeployed, k8s, Launches
  <2>8. ASSUME NEW jobs, Deletes(jobs), UNCHANGED <<launch, pod, retried>> PROVE JobsTyped'
    BY <1>0, <2>8 DEF JobsTyped, Deletes, Ended
  <2>7. QED
    BY <2>1, <2>2, <2>3, <2>4, <2>5, <2>6, <2>8, Supersedes
    DEF Next, GoesWell, GoesWrong, vars, reasons, Expire, Sweep, KillEnvironment, KillJobs, OnlyWatcher, k8s, OnlyFlow, Refuse, Cancel,
        CancelFails, GiveUp,
        ReadJob, ReadJobFails, Reads, ReadStatus
<1>4. RowsTyped' /\ HistoryTyped'
  <2>1. ASSUME UNCHANGED <<row, built, claimed, deployed, reasons>> PROVE RowsTyped' /\ HistoryTyped'
    BY <1>0, <1>1, <2>1 DEF RowsTyped, HistoryTyped, reasons
  <2>2. ASSUME NEW b \in Build, NEW status \in {"building", "ready", "failed", "torn_down"}, Writes(b, status)
        PROVE row' \in [head : Build, status : {"building", "ready", "failed", "torn_down"}] \cup {NoRow}
    BY <1>0, <2>2 DEF RowsTyped, Writes, Marks
  <2>3. ASSUME NEW b \in Build, BuildImages(b) \/ RecordReady(b) \/ RecordFailed(b) PROVE RowsTyped' /\ HistoryTyped'
    BY <1>0, <1>1, <2>2, <2>3 DEF RowsTyped, HistoryTyped, BuildImages, RecordReady, RecordFailed, OnlyPod, reasons
  <2>4. ASSUME NEW b \in Build, Claim(b) \/ Drain(b) PROVE RowsTyped' /\ HistoryTyped'
    BY <1>0, <1>1, <2>4 DEF RowsTyped, HistoryTyped, Claim, Drain, OnlyPod, reasons
  <2>5. ASSUME NEW l \in Launches, RecordTornDown(l) \/ RecordRedeployed(l) PROVE RowsTyped' /\ HistoryTyped'
    BY <1>0, <1>1, <2>5 DEF RowsTyped, HistoryTyped, RecordTornDown, RecordRedeployed, Marks, reasons
  <2>8. ASSUME NEW b \in Build, Expire(b) PROVE RowsTyped' /\ HistoryTyped'
    BY <1>0, <1>1, <2>8 DEF RowsTyped, HistoryTyped, Expire, rows
  <2>9. ASSUME Sweep \/ KillEnvironment \/ KillJobs PROVE RowsTyped' /\ HistoryTyped'
    BY <1>0, <1>1, <2>9 DEF RowsTyped, HistoryTyped, Sweep, KillEnvironment, KillJobs, OnlyWatcher, Marks, Deletable
  <2>6. ASSUME NEW l \in Launches, NEW pc \in {"creating", "tearing", "redeploying"}, NEW jobs,
               l \in Build => pc = "creating", SupersedeAnd(l, pc, jobs)
        PROVE RowsTyped' /\ HistoryTyped'
    BY <1>0, <1>1, <2>6 DEF RowsTyped, HistoryTyped, SupersedeAnd, rows
  <2>7. QED
    BY <2>1, <2>3, <2>4, <2>5, <2>6, <2>8, <2>9, Supersedes
    DEF Next, GoesWell, GoesWrong, vars, reasons, rows, OnlyFlow, OnlyPod, Refuse, CreateJob, CreateFails, Cancel, CancelFails, GiveUp,
         ReadJob, ReadJobFails, Reads, ReadStatus, Decline, ClaimLost, Die
<1>5. StrayTyped'
  BY <1>0 DEF StrayTyped, Next, GoesWell, GoesWrong, vars, reasons, Expire, Sweep, KillEnvironment, KillJobs, OnlyWatcher,
        RecordRedeployed, rows, OnlyFlow, OnlyPod, Refuse, CreateJob, CreateFails, Cancel, CancelFails,
        GiveUp, Supersede, SupersedeFails, SupersedeToRedeploy, Launching, SupersedeAnd, ReadJob, ReadJobFails, Reads, ReadStatus, Decline,
        ClaimLost, Die,
        Claim, BuildImages, RecordReady, RecordFailed, Drain, RecordTornDown, Writes
<1>7. WatcherTyped'
  BY <1>0 DEF WatcherTyped, Next, GoesWell, GoesWrong, vars, reasons, Expire, Sweep, KillEnvironment, KillJobs, OnlyWatcher, RecordRedeployed,
        OnlyFlow, OnlyPod, Refuse, CreateJob, CreateFails, Cancel, CancelFails, GiveUp, Supersede, SupersedeFails, SupersedeToRedeploy,
        SupersedeAnd, ReadJob, ReadJobFails, Reads, ReadStatus, Decline, ClaimLost, Die, Claim, BuildImages, RecordReady, RecordFailed,
        Drain, RecordTornDown
<1>6. QED BY <1>2, <1>3, <1>4, <1>5, <1>7, TypePartsNext

-----------------------------------------------------------------------------
(* A build called ready was deployed.                                      *)

\* The steps that neither deploy nor write to a row.
ApartFromRows ==
    \/ \E b \in Build : Refuse(b) \/ CreateJob(b) \/ ReadJob(b) \/ ReadStatus(b) \/ Cancel(b) \/ Decline(b)
    \/ \E l \in Launches : Supersede(l) \/ SupersedeFails(l) \/ SupersedeToRedeploy(l)
    \/ \E b \in Build : CreateFails(b) \/ ReadJobFails(b) \/ GiveUp(b) \/ CancelFails(b) \/ ClaimLost(b) \/ Die(b) \/ Expire(b)
    \/ Sweep \/ KillJobs
    \/ UNCHANGED vars

LEMMA RowsUntouched == ApartFromRows => UNCHANGED rows
  BY DEF ApartFromRows, vars, Expire, Sweep, KillJobs, OnlyWatcher, rows, OnlyFlow, OnlyPod, Refuse, CreateJob, CreateFails, Cancel,
        CancelFails, GiveUp, Supersede,
         SupersedeFails, SupersedeToRedeploy, Launching, SupersedeAnd, ReadJob, ReadJobFails, Reads, ReadStatus, Decline, ClaimLost, Die

WritesRow ==
    \/ KillEnvironment
    \/ \E l \in Launches : RecordTornDown(l) \/ RecordRedeployed(l)
    \/ \E b \in Build : Claim(b) \/ BuildImages(b) \/ RecordReady(b) \/ RecordFailed(b) \/ Drain(b)

LEMMA StepKinds == [Next]_vars => ApartFromRows \/ WritesRow
<1>1. GoesWell => ApartFromRows \/ WritesRow
  BY Zenon DEF GoesWell, ApartFromRows, WritesRow
<1>2. GoesWrong => ApartFromRows
  BY Zenon DEF GoesWrong, ApartFromRows
<1>3. UNCHANGED vars => ApartFromRows
  BY DEF ApartFromRows
<1>4. QED BY <1>1, <1>2, <1>3 DEF Next

\* A pod that deployed has deployed for good, and one that strayed has strayed.
LEMMA DeployedGrows == [Next]_vars => (deployed \subseteq deployed') /\ (strayed => strayed')
<1> SUFFICES ASSUME [Next]_vars PROVE (deployed \subseteq deployed') /\ (strayed => strayed')
  OBVIOUS
<1>1. CASE UNCHANGED <<deployed, strayed>>
  BY <1>1
<1>2. ASSUME NEW b \in Build, BuildImages(b) \/ RecordReady(b) \/ RecordFailed(b)
      PROVE (deployed \subseteq deployed') /\ (strayed => strayed')
  <2>1. strayed => strayed'
    BY <1>2, Zenon DEF BuildImages, RecordReady, RecordFailed, Writes
  <2>2. deployed' = deployed \/ deployed' = deployed \cup {b}
    BY <1>2 DEF BuildImages, RecordReady, RecordFailed
  <2>3. QED BY <2>1, <2>2
<1>3. QED BY <1>1, <1>2, StepKinds, RowsUntouched DEF WritesRow, rows, RecordTornDown, RecordRedeployed, KillEnvironment, OnlyWatcher, Claim, Drain

LEMMA ReadyRowStep == TypeOK /\ ReadyRow /\ [Next]_vars => ReadyRow'
<1> SUFFICES ASSUME TypeOK, ReadyRow, [Next]_vars, NEW b \in Build, row'.head = b, row'.status = "ready", ~strayed'
             PROVE  b \in deployed'
  BY DEF ReadyRow
<1>0. RowsTyped /\ deployed \subseteq deployed' /\ ~strayed
  BY TypeParts, DeployedGrows
<1>1. CASE row' = row
  BY <1>0, <1>1 DEF ReadyRow
<1>2. ASSUME NEW c \in Build, RecordReady(c), row # NoRow PROVE b \in deployed'
  <2>1. row.head \in {c, "none"}
    BY <1>2, Zenon DEF RecordReady, Writes
  <2>2. row.head = b /\ b # "none"
    BY <1>0, <1>2, PreviewBuildAssumption DEF RecordReady, Writes, Marks, RowsTyped
  <2>3. QED BY <1>2, <2>1, <2>2 DEF RecordReady
<1>3. ASSUME NEW c \in Build, BuildImages(c) \/ RecordFailed(c), row # NoRow PROVE FALSE
  BY <1>0, <1>3 DEF BuildImages, RecordFailed, Writes, Marks, RowsTyped
<1>4. ASSUME NEW l \in Launches, RecordTornDown(l) \/ RecordRedeployed(l), row' # row PROVE FALSE
  BY <1>0, <1>4 DEF RecordTornDown, RecordRedeployed, Marks, RowsTyped
<1>7. ASSUME KillEnvironment, row' # row PROVE FALSE
  BY <1>0, <1>7 DEF KillEnvironment, Marks, RowsTyped
<1>5. ASSUME NEW c \in Build, Claim(c) PROVE FALSE
  BY <1>5 DEF Claim
<1>6. QED
  BY <1>1, <1>2, <1>3, <1>4, <1>5, <1>7, StepKinds, RowsUntouched DEF WritesRow, rows, BuildImages, RecordReady, RecordFailed, Writes, Marks, Drain

\* How a workflow comes to its end.
LEMMA OutcomeStep ==
  ASSUME TypeOK, [Next]_vars, NEW b \in Build, outcome'[b] # outcome[b]
  PROVE  \/ outcome'[b] \in {"failed", "timeout", "cancelled", "superseded"}
         \/ outcome'[b] = "declined" /\ Refuse(b)
         \/ outcome'[b] = "ready" /\ ReadStatus(b) /\ row.head = b /\ row.status = "ready"
         \/ outcome'[b] = Meaning(flow[b].read) /\ flow[b].read # "running" /\ ReadStatus(b) /\ Status(b) = "missing"
<1>0. FlowTyped /\ RowsTyped
  BY TypeParts
<1>1. \A c \in Build : \A how : Ends(c, how) => b = c /\ outcome'[b] = how
  BY <1>0 DEF Ends, FlowTyped
<1>2. ~UNCHANGED outcome
  OBVIOUS
<1>3. ASSUME NEW c \in Build, ReadStatus(c)
      PROVE \/ outcome'[b] \in {"failed", "superseded"}
            \/ outcome'[b] = "ready" /\ ReadStatus(b) /\ row.head = b /\ row.status = "ready"
            \/ outcome'[b] = Meaning(flow[b].read) /\ flow[b].read # "running" /\ ReadStatus(b) /\ Status(b) = "missing"
  <2>1. CASE Status(c) = "missing" /\ flow[c].read # "running" /\ Ends(c, Meaning(flow[c].read))
    BY <1>1, <1>3, <2>1
  <2>2. CASE Status(c) \notin {"missing", "building"} /\ Ends(c, Status(c))
    <3>1. b = c /\ outcome'[b] = Status(b)
      BY <1>1, <2>2
    <3>2. Status(b) = "ready" => row.head = b /\ row.status = "ready"
      BY DEF Status
    <3>3. Status(b) \in {"ready", "failed", "superseded", "building", "missing"}
      BY <1>0, PreviewBuildAssumption DEF Status, RowsTyped, NoRow
    <3>4. QED BY <1>3, <2>2, <3>1, <3>2, <3>3
  <2>3. QED BY <1>2, <1>3, <2>1, <2>2 DEF ReadStatus
<1>4. ASSUME NEW c \in Build, Refuse(c)
      PROVE outcome'[b] = "failed" \/ (outcome'[b] = "declined" /\ Refuse(b))
  BY <1>1, <1>4 DEF Refuse
<1>5. ASSUME NEW c \in Build, CreateFails(c) \/ GiveUp(c) \/ Cancel(c) \/ CancelFails(c)
      PROVE outcome'[b] \in {"failed", "timeout", "cancelled"}
  BY <1>1, <1>2, <1>5 DEF CreateFails, GiveUp, Cancel, CancelFails, Cancelled
<1>6. QED
  BY <1>2, <1>3, <1>4, <1>5
  DEF Next, GoesWell, GoesWrong, vars, reasons, Expire, Sweep, KillEnvironment, KillJobs, OnlyWatcher, RecordRedeployed, OnlyPod,
        CreateJob, Supersede, SupersedeFails, SupersedeToRedeploy, Launching, SupersedeAnd, ReadJob, ReadJobFails, Reads,
      Decline, Claim, ClaimLost, BuildImages, RecordReady, RecordFailed, Drain, Die, RecordTornDown

LEMMA ReadyStep == TypeOK /\ ReadyRow /\ ReadyIsReal /\ [Next]_vars => ReadyIsReal'
<1> SUFFICES ASSUME TypeOK, ReadyRow, ReadyIsReal, [Next]_vars, NEW b \in Build, outcome'[b] = "ready", ~strayed'
             PROVE  b \in deployed'
  BY DEF ReadyIsReal
<1>0. deployed \subseteq deployed' /\ ~strayed
  BY DeployedGrows
<1>1. CASE outcome[b] = "ready"
  BY <1>0, <1>1 DEF ReadyIsReal
<1>2. CASE outcome'[b] # outcome[b]
  <2>1. row.head = b /\ row.status = "ready"
    BY <1>2, OutcomeStep DEF Meaning
  <2>2. QED BY <1>0, <2>1 DEF ReadyRow
<1>3. QED BY <1>1, <1>2

-----------------------------------------------------------------------------
(* A build's Job is gone for a reason.                                     *)

\* The Jobs a step deletes: those of the launches before it, the watcher's, one whose time is up - or its own workflow is done.
LEMMA JobVanishes ==
  ASSUME TypeOK, EndedJob, [Next]_vars, NEW b \in Build, job'[b] = "gone", job[b] # "gone"
  PROVE  Accounted(b)' \/ flow'[b].at = "done"
<1>0. FlowTyped /\ JobsTyped
  BY TypeParts
<1>1. ASSUME NEW c \in Build, CreateJob(c) \/ Decline(c) \/ RecordReady(c) \/ RecordFailed(c) \/ Drain(c) \/ Die(c) PROVE FALSE
  BY <1>0, <1>1 DEF JobsTyped, CreateJob, Decline, RecordReady, RecordFailed, Drain, Die, Exits
<1>2. ASSUME NEW c \in Build, Cancel(c) PROVE flow'[b].at = "done"
  BY <1>0, <1>2 DEF FlowTyped, JobsTyped, Cancel, Cancelled, Deletes, Ends
<1>3. ASSUME NEW l \in Launches, NEW pc, NEW jobs \in SUBSET Deletable, SupersedeAnd(l, pc, jobs) PROVE b \in followed'
  BY <1>0, <1>3 DEF JobsTyped, SupersedeAnd, Deletes, Deletable, EndedJob, Launches
<1>4. ~UNCHANGED job
  OBVIOUS
<1>5. ASSUME NEW l \in Launches, Supersede(l) \/ SupersedeFails(l) \/ SupersedeToRedeploy(l) PROVE b \in followed'
  BY <1>3, <1>5, Supersedes
<1>7. ASSUME NEW c \in Build, Expire(c) PROVE b \in collected'
  BY <1>0, <1>7 DEF JobsTyped, Expire, Deletes
<1>8. ASSUME KillJobs PROVE b \in killed'
  BY <1>0, <1>8 DEF JobsTyped, KillJobs, Deletes
<1>6. QED
  BY <1>1, <1>2, <1>4, <1>5, <1>7, <1>8
  DEF Accounted, Next, GoesWell, GoesWrong, vars, Sweep, KillEnvironment, OnlyWatcher, RecordRedeployed, k8s, OnlyFlow, Refuse,
        CreateFails, CancelFails, GiveUp, ReadJob, ReadJobFails, Reads,
      ReadStatus, Claim, ClaimLost, BuildImages, RecordTornDown

LEMMA FollowedGrows == [Next]_vars => \A b \in Build : Accounted(b) => Accounted(b)'
  BY DEF Accounted, Next, GoesWell, GoesWrong, vars, reasons, Expire, Sweep, KillEnvironment, KillJobs, OnlyWatcher, RecordRedeployed,
        OnlyFlow, OnlyPod, Refuse, CreateJob, CreateFails, Cancel, CancelFails, GiveUp, Supersede,
         SupersedeFails, SupersedeToRedeploy, Launching, SupersedeAnd, ReadJob, ReadJobFails, Reads, ReadStatus, Decline, Claim, ClaimLost,
        BuildImages, RecordReady,
         RecordFailed, Drain, Die, RecordTornDown

\* What a workflow holds of its Job is what it just read or what it held; and it never goes back from its end, nor to its start.
LEMMA FlowStep ==
  ASSUME TypeOK, [Next]_vars, NEW b \in Build
  PROVE  /\ flow[b].at = "done" => flow'[b].at = "done"
         /\ flow[b].at # "idle" => flow'[b].at # "idle"
         /\ flow'[b].read = flow[b].read \/ flow'[b].read = "running" \/ (flow'[b].read = JobState(b) /\ flow[b].at = "polling")
<1>0. FlowTyped
  BY TypeParts
<1>1. ASSUME NEW c \in Build, NEW how, Ends(c, how) PROVE flow'[b] = flow[b] \/ (flow'[b].at = "done" /\ flow'[b].read = flow[b].read)
  BY <1>0, <1>1 DEF Ends, FlowTyped
<1>2. ASSUME NEW c \in Build, NEW state, Reads(c, state)
      PROVE flow'[b] = flow[b] \/ (c = b /\ flow[b].at = "polling" /\ flow'[b].at = "reading" /\ flow'[b].read = state)
  BY <1>0, <1>2 DEF Reads, FlowTyped
<1>3. ASSUME NEW c \in Build, CreateJob(c)
      PROVE flow'[b] = flow[b] \/ (flow[b].at = "launching" /\ flow'[b].at = "polling" /\ flow'[b].read = flow[b].read)
  BY <1>0, <1>3 DEF CreateJob, FlowTyped
<1>4. ASSUME NEW l \in Launches, NEW pc \in {"creating", "tearing", "redeploying"}, NEW jobs,
             l \in Build => pc = "creating", SupersedeAnd(l, pc, jobs)
      PROVE flow'[b] = flow[b] \/ (flow[b].at = "idle" /\ flow'[b].at = "launching" /\ flow'[b].read = flow[b].read)
  BY <1>0, <1>4 DEF SupersedeAnd, Starts, FlowTyped
<1>5. ASSUME NEW c \in Build, flow[c].at \in {"reading", "polling"}, PollAgain(c)
      PROVE flow'[b] = flow[b] \/ (flow[b].at \in {"reading", "polling"} /\ flow'[b].at = "polling" /\ flow'[b].read = "running")
  BY <1>0, <1>5 DEF PollAgain, FlowTyped
<1>6. ASSUME NEW c \in Build, ReadStatus(c)
      PROVE \/ flow'[b] = flow[b]
            \/ flow'[b].at = "done" /\ flow'[b].read = flow[b].read
            \/ flow[b].at \in {"reading", "polling"} /\ flow'[b].at = "polling" /\ flow'[b].read = "running"
  <2>1. flow[c].at \in {"reading", "polling"} /\ (PollAgain(c) \/ \E how : Ends(c, how))
    BY <1>6 DEF ReadStatus
  <2>2. QED BY <1>1, <1>5, <2>1
<1>7. QED
  BY <1>1, <1>2, <1>3, <1>4, <1>6, Supersedes
  DEF Next, GoesWell, GoesWrong, vars, reasons, Expire, Sweep, KillEnvironment, KillJobs, OnlyWatcher, RecordRedeployed, OnlyPod, Refuse,
        CreateFails, Cancel, CancelFails, Cancelled, GiveUp,
       ReadJob, ReadJobFails, Decline, Claim, ClaimLost, BuildImages, RecordReady, RecordFailed, Drain, Die, RecordTornDown

LEMMA GoneJobStep == TypeOK /\ EndedJob /\ GoneJob /\ [Next]_vars => GoneJob'
<1> SUFFICES ASSUME TypeOK, EndedJob, GoneJob, [Next]_vars, NEW b \in Build, ~Accounted(b)'
             PROVE  /\ job'[b] = "gone" => flow'[b].at = "done"
                    /\ flow'[b].read # "gone"
  BY DEF GoneJob
<1>0. ~Accounted(b)
  BY FollowedGrows
<1>1. job[b] = "gone" => flow[b].at = "done"
  BY <1>0 DEF GoneJob
<1>2. job'[b] = "gone" => flow'[b].at = "done"
  BY <1>1, JobVanishes, FlowStep
<1>3. flow'[b].read # "gone"
  BY <1>0, <1>1, FlowStep DEF GoneJob, JobState
<1>4. QED BY <1>2, <1>3

LEMMA GoneStep == TypeOK /\ GoneJob /\ GoneIsAccounted /\ [Next]_vars => GoneIsAccounted'
<1> SUFFICES ASSUME TypeOK, GoneJob, GoneIsAccounted, [Next]_vars, NEW b \in Build, outcome'[b] = "gone"
             PROVE  Accounted(b)'
  BY DEF GoneIsAccounted, Accounted
<1>1. CASE outcome[b] = "gone"
  BY <1>1, FollowedGrows DEF GoneIsAccounted, Accounted
<1>2. CASE outcome'[b] # outcome[b]
  <2>1. Meaning(flow[b].read) = "gone" /\ flow[b].read # "running"
    BY <1>2, OutcomeStep
  <2>2. flow[b].read = "gone"
    BY <2>1, TypeParts DEF FlowTyped, Meaning, Ended
  <2>3. QED BY <2>2, FollowedGrows DEF GoneJob
<1>3. QED BY <1>1, <1>2

-----------------------------------------------------------------------------
(* A build called dead has no pod, and will have none.                     *)

\* Launches, pods and Jobs only go forward.
LEMMA LaunchStep ==
  ASSUME TypeOK, [Next]_vars, NEW b \in Build
  PROVE  /\ launch[b] = "over" => launch'[b] = "over"
         /\ launch[b] \in {"no", "creating", "over"} => launch'[b] \in {"no", "creating", "over"}
         /\ launch'[b] # launch[b] /\ launch[b] = "no" => launch'[b] = "creating" /\ flow[b].at = "idle" /\ flow'[b].at # "idle"
<1>0. FlowTyped /\ JobsTyped
  BY TypeParts
<1>1. ASSUME NEW c \in Build, CreateJob(c) \/ CreateFails(c)
      PROVE launch'[b] = launch[b] \/ (launch[b] = "creating" /\ launch'[b] = "over")
  BY <1>0, <1>1 DEF JobsTyped, Launches, CreateJob, CreateFails
<1>2. ASSUME NEW l \in Launches, RecordTornDown(l) \/ RecordRedeployed(l)
      PROVE launch'[b] = launch[b] \/ (launch[b] \in {"tearing", "redeploying"} /\ launch'[b] = "over")
  BY <1>0, <1>2 DEF JobsTyped, Launches, RecordTornDown, RecordRedeployed
<1>3. ASSUME NEW l \in Launches, NEW pc \in {"creating", "tearing", "redeploying"}, NEW jobs,
             l \in Build => pc = "creating", SupersedeAnd(l, pc, jobs)
      PROVE launch'[b] = launch[b] \/ (launch[b] = "no" /\ launch'[b] = "creating" /\ flow[b].at = "idle" /\ flow'[b].at # "idle")
  BY <1>0, <1>3, PreviewBuildAssumption DEF FlowTyped, JobsTyped, Launches, SupersedeAnd, Starts
<1>4. QED
  BY <1>1, <1>2, <1>3, Supersedes
  DEF Next, GoesWell, GoesWrong, vars, Expire, Sweep, KillEnvironment, KillJobs, OnlyWatcher, OnlyFlow, OnlyPod, Refuse, Cancel,
        CancelFails, GiveUp,  ReadJob,
      ReadJobFails, Reads, ReadStatus, Decline, Claim, ClaimLost, BuildImages, RecordReady, RecordFailed, Drain, Die

LEMMA PodStep ==
  ASSUME TypeOK, [Next]_vars, NEW b \in Build
  PROVE  /\ pod[b] \in {"none", "over"} => pod'[b] = pod[b] \/ launch[b] = "creating"
         /\ pod[b] # "none" => pod'[b] # "none"
         /\ (pod'[b] # "none" \/ job'[b] # "none")
              => pod[b] # "none" \/ job[b] # "none" \/ launch'[b] = "over" \/ flow[b].at \in {"polling", "reading"}
         /\ job'[b] \in {"succeeded", "failed"} => job'[b] = job[b] \/ (pod[b] \in Alive /\ pod'[b] = "over")
<1>0. FlowTyped /\ JobsTyped
  BY TypeParts
<1>1. ASSUME NEW c \in Build, CreateJob(c)
      PROVE \/ pod'[b] = pod[b] /\ job'[b] = job[b]
            \/ launch[b] = "creating" /\ launch'[b] = "over" /\ pod'[b] = "preparing" /\ job'[b] = "active"
  BY <1>0, <1>1 DEF JobsTyped, Launches, CreateJob
<1>2. ASSUME NEW c \in Build, Decline(c) \/ RecordReady(c) \/ RecordFailed(c) \/ Drain(c) \/ Die(c)
      PROVE \/ pod'[b] = pod[b] /\ job'[b] = job[b]
            \/ pod[b] \in Alive /\ pod'[b] = "over" /\ (job'[b] = "none" => job[b] = "none")
            \/ pod[b] \in Alive /\ pod'[b] = "preparing" /\ job'[b] = job[b]
  BY <1>0, <1>2 DEF JobsTyped, Decline, RecordReady, RecordFailed, Drain, Die, Exits, Alive
<1>3. ASSUME NEW c \in Build, Claim(c) \/ ClaimLost(c) \/ BuildImages(c)
      PROVE job'[b] = job[b] /\ (pod'[b] = pod[b] \/ (pod[b] \in Alive /\ pod'[b] \in Alive))
  BY <1>0, <1>3 DEF JobsTyped, Claim, ClaimLost, BuildImages, Goes, Alive
<1>4. ASSUME NEW l \in Launches, Supersede(l) \/ SupersedeFails(l) \/ SupersedeToRedeploy(l)
      PROVE pod'[b] = pod[b] /\ (job'[b] = job[b] \/ (job[b] # "none" /\ job'[b] = "gone"))
  BY <1>0, <1>4 DEF Supersede, SupersedeFails, SupersedeToRedeploy, Launching, SupersedeAnd, Deletes, Deletable
<1>7. ASSUME NEW jobs \in SUBSET Deletable, Deletes(jobs), UNCHANGED pod
      PROVE pod'[b] = pod[b] /\ (job'[b] = job[b] \/ (job[b] # "none" /\ job'[b] = "gone"))
  BY <1>0, <1>7 DEF Deletes, Deletable
<1>8. ASSUME NEW c \in Build, Expire(c)
      PROVE pod'[b] = pod[b] /\ (job'[b] = job[b] \/ (job[b] # "none" /\ job'[b] = "gone"))
  BY <1>0, <1>8, <1>7 DEF Expire, Deletes, JobsTyped
<1>9. ASSUME Sweep \/ KillEnvironment \/ KillJobs
      PROVE pod'[b] = pod[b] /\ (job'[b] = job[b] \/ (job[b] # "none" /\ job'[b] = "gone"))
  BY <1>0, <1>9, <1>7 DEF Sweep, KillEnvironment, KillJobs, OnlyWatcher
<1>5. ASSUME NEW c \in Build, Cancel(c)
      PROVE pod'[b] = pod[b] /\ (job'[b] = job[b] \/ (job'[b] = "gone" /\ c = b /\ flow[b].at \in {"polling", "reading"}))
  BY <1>0, <1>5 DEF Cancel, Cancelled, Deletes
<1>6. QED
  BY <1>0, <1>1, <1>2, <1>3, <1>4, <1>5, <1>8, <1>9
  DEF Next, GoesWell, GoesWrong, vars, RecordRedeployed, k8s, OnlyFlow, Refuse, CreateFails, CancelFails, GiveUp, ReadJob, ReadJobFails, Reads,
      ReadStatus, RecordTornDown, Alive

\* A workflow that waits for its Job has been told its name.
LEMMA WaitsStep ==
  ASSUME TypeOK, [Next]_vars, NEW b \in Build, flow'[b].at \in {"polling", "reading"}
  PROVE  flow[b].at \in {"polling", "reading"} \/ launch'[b] = "over"
<1>0. FlowTyped /\ JobsTyped
  BY TypeParts
<1>1. ASSUME NEW c \in Build, NEW how, Ends(c, how) PROVE flow[b].at \in {"polling", "reading"}
  BY <1>0, <1>1 DEF Ends, FlowTyped
<1>2. ASSUME NEW c \in Build, CreateJob(c) PROVE flow[b].at \in {"polling", "reading"} \/ launch'[b] = "over"
  BY <1>0, <1>2 DEF CreateJob, FlowTyped, JobsTyped, Launches
<1>3. ASSUME NEW l \in Launches, NEW pc \in {"creating", "tearing", "redeploying"}, NEW jobs,
             l \in Build => pc = "creating", SupersedeAnd(l, pc, jobs)
      PROVE flow[b].at \in {"polling", "reading"}
  BY <1>0, <1>3 DEF SupersedeAnd, FlowTyped
<1>4. ASSUME NEW c \in Build, ReadJob(c) \/ ReadJobFails(c) PROVE flow[b].at \in {"polling", "reading"}
  BY <1>0, <1>4 DEF ReadJob, ReadJobFails, Reads, FlowTyped
<1>5. ASSUME NEW c \in Build, ReadStatus(c) PROVE flow[b].at \in {"polling", "reading"}
  <2>1. CASE PollAgain(c)
    BY <1>0, <1>5, <2>1 DEF ReadStatus, PollAgain, FlowTyped
  <2>2. QED BY <1>1, <1>5, <2>1 DEF ReadStatus
<1>6. QED
  BY <1>1, <1>2, <1>3, <1>4, <1>5, Supersedes
  DEF Next, GoesWell, GoesWrong, vars, reasons, Expire, Sweep, KillEnvironment, KillJobs, OnlyWatcher, RecordRedeployed, OnlyPod, Refuse,
        CreateFails, Cancel, CancelFails, Cancelled, GiveUp,
       Decline, Claim, ClaimLost, BuildImages, RecordReady, RecordFailed, Drain, Die, RecordTornDown

LEMMA ClaimStep ==
  ASSUME [Next]_vars, NEW b \in Build, b \in claimed', b \notin claimed
  PROVE  Claim(b)
<1>1. ASSUME NEW c \in Build, Claim(c) PROVE Claim(b)
  BY <1>1 DEF Claim
<1>2. QED
  BY <1>1, StepKinds, RowsUntouched DEF WritesRow, rows, RecordTornDown, RecordRedeployed, KillEnvironment, OnlyWatcher, BuildImages,
        RecordReady, RecordFailed, Drain

LEMMA EndedJobStep == TypeOK /\ EndedJob /\ [Next]_vars => EndedJob'
<1> SUFFICES ASSUME TypeOK, EndedJob, [Next]_vars, NEW b \in Build
             PROVE  /\ job'[b] \in {"succeeded", "failed"} => pod'[b] = "over" /\ launch'[b] = "over"
                    /\ flow'[b].read \in {"succeeded", "failed"} => pod'[b] = "over" /\ launch'[b] = "over"
                    /\ outcome'[b] \in {"declined", "died"}
                         => pod'[b] \in {"none", "over"} /\ launch'[b] # "creating" /\ flow'[b].at = "done"
                    /\ pod'[b] # "none" \/ job'[b] # "none" => launch'[b] = "over"
                    /\ flow'[b].at \in {"polling", "reading"} => launch'[b] = "over"
                    /\ launch'[b] \in {"no", "creating", "over"} /\ (launch'[b] # "no" => flow'[b].at # "idle")
                    /\ b \in claimed' => pod'[b] # "none"
  BY DEF EndedJob, PodIsOver, CalledDead
<1>0. FlowTyped /\ JobsTyped
  BY TypeParts
<1>1. PodIsOver(b) => pod'[b] = "over" /\ launch'[b] = "over"
  BY PodStep, LaunchStep DEF PodIsOver
<1>2. pod'[b] # "none" \/ job'[b] # "none" => launch'[b] = "over"
  BY PodStep, LaunchStep DEF EndedJob
<1>3. job'[b] \in {"succeeded", "failed"} => pod'[b] = "over" /\ launch'[b] = "over"
  BY <1>1, <1>2, PodStep DEF EndedJob
<1>4. flow'[b].read \in {"succeeded", "failed"} => pod'[b] = "over" /\ launch'[b] = "over"
  BY <1>1, FlowStep DEF EndedJob, JobState
<1>5. flow'[b].at \in {"polling", "reading"} => launch'[b] = "over"
  BY WaitsStep, LaunchStep DEF EndedJob
<1>6. launch'[b] \in {"no", "creating", "over"} /\ (launch'[b] # "no" => flow'[b].at # "idle")
  BY FlowStep, LaunchStep DEF EndedJob
<1>7. b \in claimed' => pod'[b] # "none"
  BY <1>0, ClaimStep, PodStep DEF EndedJob, Claim, Goes, JobsTyped
<1>8. ASSUME outcome'[b] \in {"declined", "died"}
      PROVE pod'[b] \in {"none", "over"} /\ launch'[b] # "creating" /\ flow'[b].at = "done"
  <2>1. CASE outcome'[b] = outcome[b]
    <3>1. pod[b] \in {"none", "over"} /\ launch[b] \in {"no", "over"} /\ flow[b].at = "done"
      BY <1>0, <1>8, <2>1 DEF EndedJob, CalledDead, JobsTyped, Launches
    <3>2. QED BY <3>1, FlowStep, LaunchStep, PodStep
  <2>2. CASE Refuse(b)
    BY <1>0, <2>2 DEF Refuse, Starts, Ends, k8s, EndedJob, FlowTyped, JobsTyped, Launches
  <2>3. CASE outcome'[b] = Meaning(flow[b].read) /\ flow[b].read # "running" /\ ReadStatus(b) /\ Status(b) = "missing"
    <3>1. PodIsOver(b)
      BY <1>0, <1>8, <2>3 DEF Meaning, EndedJob, FlowTyped, Ended
    <3>2. flow'[b].at = "done"
      BY <1>0, <2>3 DEF ReadStatus, Ends, FlowTyped
    <3>3. QED BY <1>1, <3>1, <3>2
  <2>4. QED BY <1>8, <2>1, <2>2, <2>3, OutcomeStep
<1>9. QED BY <1>2, <1>3, <1>4, <1>5, <1>6, <1>7, <1>8

-----------------------------------------------------------------------------
(* The theorems.                                                           *)

LEMMA PreviewStep == PreviewInv /\ [Next]_vars => PreviewInv'
  BY PreviewTypeStep, ReadyRowStep, ReadyStep, GoneJobStep, GoneStep, EndedJobStep DEF PreviewInv

\* Every reachable state is well-typed, and none of the following ever fails, for any number of commits and mishaps.
THEOREM PreviewInvariant == Spec => []PreviewInv
<1>1. Init => PreviewInv
  BY PreviewInitInv
<1>2. PreviewInv /\ [Next]_vars => PreviewInv'
  BY PreviewStep
<1>3. QED BY <1>1, <1>2, PTL DEF Spec

\* previewBuildWorkflow, its Job and its rows keep their types.
THEOREM PreviewTypes == Spec => []TypeOK
<1>1. PreviewInv => TypeOK
  BY DEF PreviewInv
<1>2. QED BY <1>1, PreviewInvariant, PTL

\* readPreviewBuildStatus: a build is called ready only if its own commit was deployed, or a pod wrote over another's row.
THEOREM ReadyIsRealAlways == Spec => []ReadyIsReal
<1>1. PreviewInv => ReadyIsReal
  BY DEF PreviewInv
<1>2. QED BY <1>1, PreviewInvariant, PTL

\* cancelDeploy, deleteJobs and ttlSecondsAfterFinished: a build whose Job was found gone was followed by another launch,
\* killed by the watcher, or had ended; never stopped by another commit's cancelled workflow.
THEOREM GoneIsAccountedAlways == Spec => []GoneIsAccounted
<1>1. PreviewInv => GoneIsAccounted
  BY DEF PreviewInv
<1>2. QED BY <1>1, PreviewInvariant, PTL

\* awaitPreviewSettled: a build that is said to have ended without claiming the row does not have it.
THEOREM DeadHasNotLivedAlways == Spec => DeadHasNotLived
<1>1. ASSUME PreviewInv, [Next]_vars, NEW b \in Build, CalledDead(b)', b \in claimed'
      PROVE  (CalledDead(b) /\ b \in claimed) \/ row'.head # b
  <2>0. FlowTyped /\ JobsTyped /\ RowsTyped
    BY <1>1, TypeParts DEF PreviewInv
  <2>1. CASE b \notin claimed
    <3>1. Claim(b)
      BY <1>1, <2>1, ClaimStep
    <3>2. ~CalledDead(b) /\ outcome'[b] = outcome[b]
      BY <1>1, <3>1 DEF PreviewInv, EndedJob, Claim, Goes, OnlyPod
    <3>3. QED BY <1>1, <3>2 DEF CalledDead
  <2>2. CASE b \in claimed /\ ~CalledDead(b)
    <3>1. outcome'[b] # outcome[b] /\ outcome'[b] \in {"declined", "died"}
      BY <1>1, <2>2 DEF CalledDead
    <3>2. ~Refuse(b)
      BY <1>1, <2>2, <2>0 DEF PreviewInv, EndedJob, Refuse, Starts
    <3>3. ReadStatus(b) /\ Status(b) = "missing"
      BY <1>1, <3>1, <3>2, OutcomeStep DEF PreviewInv
    <3>4. row' = row
      BY <3>3 DEF ReadStatus, OnlyFlow, rows
    <3>5. row.head # b
      BY <2>0, <3>3, PreviewBuildAssumption DEF Status, RowsTyped, NoRow
    <3>6. QED BY <3>4, <3>5
  <2>3. QED BY <2>1, <2>2
<1>2. PreviewInv /\ [Next]_vars
        => [\A b \in Build : (CalledDead(b) /\ b \in claimed)' => (CalledDead(b) /\ b \in claimed) \/ row'.head # b]_vars
  BY <1>1
<1>3. QED BY <1>2, PreviewInvariant, PTL DEF Spec, DeadHasNotLived

=============================================================================
