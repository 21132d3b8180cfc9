--------------------------- MODULE AnalysisRun_proofs ---------------------------
(***************************************************************************)
(* The analysis pipeline, for any number of events, runs, snapshots and    *)
(* upsets: its types, that whatever it does to the suite is a step of      *)
(* BranchSuite, so that everything proved of the lineage holds of it too,  *)
(* and that only promoted snapshots have completed jobs.                   *)
(***************************************************************************)
EXTENDS AnalysisRun, BranchSuite_proofs

\* What the fields of an activity mean while it is in flight.
ActivitySane(a) ==
    /\ a.pc \in {"gate", "resolve", "open"} \/ a.attempt > 0 => a.head \in Sha
    /\ a.pc = "open" => a.src \in OnceResolvable(TheBranch)
    /\ a.pc \in {"terminal", "close", "opened"} => a.snap \in Snapshot
    /\ a.pc \in {"terminal", "close"} => a.outcome # "none"
    /\ a.pc = "close" /\ a.outcome = "succeeded" => status[a.snap] \in {"active", "superseded"}

\* A live workflow has a number, and in its body a snapshot.
WorkflowSane ==
    /\ wf.pc # "idle" => wf.run \in Run
    /\ wf.pc \in {"body", "settling"} => wf.snap \in Snapshot

\* The inductive invariant behind the pipeline's effect on the suite.
PipelineInv ==
    /\ TypeOK /\ SuiteInv /\ WorkflowSane /\ CompletedMeansPromoted
    /\ \A r \in Run : ActivitySane(act[r])

-----------------------------------------------------------------------------
(* Types.                                                                  *)

\* Constants and bounds the arithmetic of the steps needs.
LEMMA Constants ==
  /\ NoSnapshot \notin Snapshot /\ NoSha \notin Sha /\ TheBranch \in Branch /\ MainBranch \in Branch
  /\ BaselineHead \in Sha /\ Baseline \in Snapshot
  /\ MaxRun \in Nat /\ MaxUpsets \in Nat /\ MaxEdits \in Nat /\ MaxOpenAttempts \in Nat \ {0}
  BY RunAssumption, NullAssumption, BranchAssumption

\* While a row can still be inserted, the one chosen is a row.
LEMMA NewSnapshotExists == CanOpen => NewSnapshot \in Snapshot /\ status[NewSnapshot] = "absent"
  BY DEF CanOpen, NewSnapshot

\* Recording an activity's progress keeps the activities typed.
LEMMA BecomesType ==
  ASSUME act \in [Run -> Activity], NEW r \in Run, NEW a \in Activity, Becomes(r, a)
  PROVE  /\ act' \in [Run -> Activity]
         /\ \A x \in Run : act'[x] = act[x] \/ (x = r /\ act'[x] \in {a, NoActivity})
<1>1. NoActivity \in Activity
  BY Constants DEF NoActivity, Activity, Outcome
<1>2. QED BY <1>1 DEF Becomes

\* The types of the pipeline's own variables.
RunTypeOK ==
    /\ prHead \in Sha /\ prLive \in BOOLEAN /\ recordedHead \in Sha \cup {NoSha}
    /\ posted \subseteq Event /\ claimedBy \in [Event -> Snapshot \cup {NoSnapshot}]
    /\ job \in [Snapshot -> JobStatus]
    /\ producer \in [Event -> [pc: ProducerPc, head: Sha \cup {NoSha}]]
    /\ wf \in Workflow /\ act \in [Run -> Activity] /\ owner \in [Snapshot -> 0..MaxRun]
    /\ torn \subseteq Snapshot /\ edits \in 0..MaxEdits /\ upsets \in 0..MaxUpsets

\* Starting a run keeps the workflow and the activities typed.
LEMMA StartRunType ==
  ASSUME RunTypeOK, NEW nudged \in BOOLEAN, StartRun(nudged)
  PROVE  wf' \in Workflow /\ act' \in [Run -> Activity] /\ wf'.run \in Run /\ wf'.pc = "resolve"
<1>1. wf.run + 1 \in Run /\ wf.run + 1 \in 0..MaxRun
  BY Constants DEF RunTypeOK, StartRun, Workflow, Run
<1>2. wf' = [pc |-> "resolve", run |-> wf.run + 1, nudged |-> nudged, cancel |-> FALSE,
             head |-> NoSha, snap |-> NoSnapshot, outcome |-> "none"]
  BY DEF StartRun, StartedRun, NoRun
<1>3. act' \in [Run -> Activity]
  BY Constants DEF RunTypeOK, StartRun, Abandon, NoActivity, Activity, Outcome
<1>4. QED BY <1>1, <1>2, <1>3 DEF Workflow, Outcome

\* So does ending one.
LEMMA EndedType ==
  ASSUME RunTypeOK
  PROVE  Ended \in Workflow /\ Ended.pc = "idle" /\ Ended.run = wf.run
  BY Constants DEF RunTypeOK, Ended, NoRun, Workflow, Outcome

\* Producers keep the types.
LEMMA ProducerTypes ==
  ASSUME RunTypeOK, NEW e \in Event, Occur(e) \/ Produce(e) \/ CrashProducer(e)
  PROVE  RunTypeOK'
<1> USE DEF RunTypeOK
<1>1. CASE Occur(e)
  BY <1>1 DEF Occur, ProducerPc
<1>2. CASE GateTrigger(e)
  BY <1>2 DEF GateTrigger, Step, OnlyProducers, ProducerPc
<1>3. CASE AttachTrigger(e)
  BY <1>3 DEF AttachTrigger, Step, OnlyProducers, ProducerPc
<1>4. CASE RecordTrigger(e)
  BY <1>4 DEF RecordTrigger, Step, OnlyProducers, ProducerPc
<1>5. CASE Enqueue(e)
  BY <1>5, Constants DEF Enqueue, Step, OnlyProducers, ProducerPc
<1>6. CASE Poke(e)
  <2>1. wf' \in Workflow /\ act' \in [Run -> Activity]
    <3>1. CASE e \in Prompt /\ wf.pc # "idle"
      BY <1>6, <3>1 DEF Poke, Workflow
    <3>2. CASE ~(e \in Prompt /\ wf.pc # "idle")
      <4>1. PICK nudged \in BOOLEAN : nudged <=> e \in Prompt
        BY Zenon
      <4>2. StartRun(nudged)
        BY <1>6, <3>2, <4>1 DEF Poke, StartRun, StartedRun
      <4>3. QED BY <4>2, StartRunType
    <3>3. QED BY <3>1, <3>2
  <2>2. QED BY <1>6, <2>1 DEF Poke, Step, OnlyProducers, ProducerPc
<1>7. CASE CrashProducer(e)
  BY <1>7, Constants DEF CrashProducer, Upset, OnlyUpset, Step, ProducerPc
<1>8. QED BY <1>1, <1>2, <1>3, <1>4, <1>5, <1>6, <1>7 DEF Produce

\* The next attempt, and the end of a settlement, are activities.
LEMMA RetryType ==
  ASSUME NEW a \in Activity
  PROVE  /\ Retry(a) \in Activity /\ Retry(a).pc \in {"resolve", "failed"}
         /\ Retry(a).head = a.head
         /\ Settled(a) \in Activity /\ Settled(a).pc \in {"resolve", "failed", "settled"}
         /\ Settled(a).head = a.head
<1>1. CASE a.attempt < MaxOpenAttempts
  <2>1. a.attempt + 1 \in 0..MaxOpenAttempts
    BY <1>1, Constants DEF Activity
  <2>2. Retry(a) = [a EXCEPT !.pc = "resolve", !.attempt = a.attempt + 1]
    BY <1>1 DEF Retry
  <2>3. QED BY <2>1, <2>2 DEF Settled, Activity
<1>2. CASE ~(a.attempt < MaxOpenAttempts)
  BY <1>2 DEF Retry, Settled, Activity
<1>3. QED BY <1>1, <1>2

-----------------------------------------------------------------------------
(* The steps of an activity.                                               *)

\* What no step on the suite takes back: a promoted snapshot stays one, its row as it was.
LEMMA PromotedStays ==
  ASSUME SuiteInv, [SuiteNext]_suiteVars, NEW s \in Snapshot, status[s] \in {"active", "superseded"}
  PROVE  status'[s] \in {"active", "superseded"} /\ row'[s] = row[s]
  BY StepKeepsSettled DEF KeepsSettled, Terminal

\* So what an activity holds stays meaningful whatever others do to the suite.
LEMMA SaneStays ==
  ASSUME SuiteInv, [SuiteNext]_suiteVars, NEW a \in Activity, ActivitySane(a)
  PROVE  ActivitySane(a)'
<1>1. ASSUME a.src \in OnceResolvable(TheBranch) PROVE a.src \in OnceResolvable(TheBranch)'
  BY <1>1, PromotedStays DEF OnceResolvable
<1>2. ASSUME a.snap \in Snapshot, status[a.snap] \in {"active", "superseded"}
      PROVE  status'[a.snap] \in {"active", "superseded"}
  BY <1>2, PromotedStays
<1>3. QED BY <1>1, <1>2 DEF ActivitySane

\* An activity r moves on to a state that makes sense.
Progress(r) == \E a \in Activity : Becomes(r, a) /\ ActivitySane(a)'

\* Dropping a result is always a sane state.
LEMMA NoActivitySane == NoActivity \in Activity /\ ActivitySane(NoActivity)'
  BY Constants DEF NoActivity, Activity, Outcome, ActivitySane

\* Progress of one activity keeps all of them sane.
LEMMA ProgressSane ==
  ASSUME PipelineInv, [SuiteNext]_suiteVars, NEW r \in Run, Progress(r)
  PROVE  act' \in [Run -> Activity] /\ \A x \in Run : ActivitySane(act[x])'
<1>1. PICK a \in Activity : Becomes(r, a) /\ ActivitySane(a)'
  BY DEF Progress
<1>2. act \in [Run -> Activity] /\ SuiteInv
  BY DEF PipelineInv, TypeOK
<1>3. act' \in [Run -> Activity]
      /\ \A x \in Run : act'[x] = act[x] \/ (x = r /\ act'[x] \in {a, NoActivity})
  BY <1>1, <1>2, BecomesType
<1>4. ASSUME NEW x \in Run PROVE ActivitySane(act[x])'
  <2>1. PICK b \in Activity : b = act[x]
    BY <1>2
  <2>2. PICK c \in Activity : c = act'[x]
    BY <1>3
  <2>3. ActivitySane(b)'
    BY <2>1, <1>2, SaneStays DEF PipelineInv
  <2>4. ActivitySane(c)'
    BY <2>1, <2>2, <2>3, <1>1, <1>3, NoActivitySane
  <2>5. QED BY <2>2, <2>4 DEF ActivitySane
<1>5. QED BY <1>3, <1>4

\* The activity's state, as a value.
LEMMA ActivityValue ==
  ASSUME PipelineInv, NEW r \in Run
  PROVE  \E a \in Activity : a = act[r] /\ ActivitySane(a)
  BY DEF PipelineInv, TypeOK

\* The gate is read: skip, fail for want of a source, or go on to the first attempt.
LEMMA OpenGateProgress ==
  ASSUME PipelineInv, NEW r \in Run, OpenGate(r)
  PROVE  Progress(r) /\ UNCHANGED suiteVars
<1>1. PICK a \in Activity : a = act[r] /\ ActivitySane(a)
  BY ActivityValue
<1>2. a.pc = "gate" /\ UNCHANGED suiteVars
  BY <1>1 DEF OpenGate, OnlyReads
<1>3. PICK pc \in {"skipped", "failed", "resolve"} : Becomes(r, [a EXCEPT !.pc = pc, !.attempt = 1])
  <2> DEFINE pc == IF ShouldSkip(a.head) THEN "skipped"
                   ELSE IF ResolveSource(TheBranch) = NoSnapshot THEN "failed" ELSE "resolve"
  <2>1. Becomes(r, [a EXCEPT !.pc = pc, !.attempt = 1])
    BY <1>1 DEF OpenGate
  <2>2. pc \in {"skipped", "failed", "resolve"}
    OBVIOUS
  <2> HIDE DEF pc
  <2>3. QED BY <2>1, <2>2
<1> DEFINE b == [a EXCEPT !.pc = pc, !.attempt = 1]
<1>4. b \in Activity /\ b.pc = pc /\ b.head = a.head
  <2>1. 1 \in 0..MaxOpenAttempts
    BY Constants
  <2>2. QED BY <2>1 DEF Activity
<1>5. ActivitySane(b)'
  BY <1>1, <1>2, <1>4 DEF ActivitySane
<1>6. QED BY <1>2, <1>3, <1>4, <1>5 DEF Progress

\* A source is resolved: main's suite or the branch's own, so one an open may use.
LEMMA ResolveProgress ==
  ASSUME PipelineInv, NEW r \in Run, Resolve(r)
  PROVE  Progress(r) /\ UNCHANGED suiteVars
<1>1. PICK a \in Activity : a = act[r] /\ ActivitySane(a)
  BY ActivityValue
<1>2. a.pc = "resolve" /\ UNCHANGED suiteVars
  BY <1>1 DEF Resolve, OnlyReads
<1>3. PICK src : src = ResolveSource(TheBranch)
  OBVIOUS
<1>4. src \in OnceResolvable(TheBranch) /\ src \in Snapshot \cup {NoSnapshot}
  BY <1>3, Constants DEF PipelineInv, SuiteInv, SuiteTypeOK, PointersAgree, ResolveSource, OnceResolvable
<1>5. PICK pc \in {"failed", "open"} : Becomes(r, [a EXCEPT !.src = src, !.pc = pc])
  <2> DEFINE pc == IF src = NoSnapshot THEN "failed" ELSE "open"
  <2>1. Becomes(r, [a EXCEPT !.src = src, !.pc = pc])
    BY <1>1, <1>3 DEF Resolve
  <2>2. pc \in {"failed", "open"}
    OBVIOUS
  <2> HIDE DEF pc
  <2>3. QED BY <2>1, <2>2
<1> DEFINE b == [a EXCEPT !.src = src, !.pc = pc]
<1>6. b \in Activity /\ b.pc = pc /\ b.head = a.head /\ b.src = src
  BY <1>4 DEF Activity
<1>7. src \in OnceResolvable(TheBranch)'
  BY <1>2, <1>4 DEF suiteVars, OnceResolvable
<1>8. ActivitySane(b)'
  BY <1>1, <1>2, <1>6, <1>7 DEF ActivitySane
<1>9. QED BY <1>2, <1>5, <1>6, <1>8 DEF Progress

\* The next attempt of an open, or the end of a settlement, makes sense.
LEMMA RetrySane ==
  ASSUME NEW a \in Activity, a.pc = "open" \/ a.attempt > 0 => a.head \in Sha
  PROVE  /\ a.pc = "open" => ActivitySane(Retry(a))'
         /\ ActivitySane(Settled(a))'
<1>1. (a.pc = "open" \/ a.attempt > 0) => ActivitySane(Retry(a))'
  BY RetryType DEF ActivitySane
<1>2. ~(a.attempt > 0) => Settled(a) = [a EXCEPT !.pc = "settled"]
  BY DEF Settled
<1>3. ~(a.attempt > 0) => ActivitySane([a EXCEPT !.pc = "settled"])'
  BY DEF ActivitySane, Activity
<1>4. QED BY <1>1, <1>2, <1>3 DEF Settled

\* An open finds the branch's snapshot in the way, or its source gone: it supersedes the
\* one, and retries after the other.
LEMMA OpenRefusedProgress ==
  ASSUME PipelineInv, NEW r \in Run, OpenBlocked(r) \/ OpenMoved(r)
  PROVE  Progress(r) /\ UNCHANGED suiteVars
<1>1. PICK a \in Activity : a = act[r] /\ ActivitySane(a)
  BY ActivityValue
<1>2. a.pc = "open" /\ a.head \in Sha /\ UNCHANGED suiteVars
  BY <1>1 DEF OpenBlocked, OpenMoved, OnlyReads, ActivitySane
<1>3. CASE OpenMoved(r)
  <2>1. Becomes(r, Retry(a))
    BY <1>1, <1>3 DEF OpenMoved
  <2>2. QED BY <1>2, <2>1, RetryType, RetrySane DEF Progress
<1>4. CASE OpenBlocked(r)
  <2>1. PICK s \in Snapshot : s = pendingSnapshot[TheBranch]
    BY <1>4, Constants DEF OpenBlocked, PipelineInv, SuiteInv, SuiteTypeOK
  <2> DEFINE b == [a EXCEPT !.pc = "terminal", !.snap = s, !.outcome = "cancelled"]
  <2>2. Becomes(r, b)
    BY <1>1, <1>4, <2>1 DEF OpenBlocked
  <2>3. b \in Activity /\ ActivitySane(b)'
    BY <1>2 DEF Activity, ActivitySane, Outcome
  <2>4. QED BY <1>2, <2>2, <2>3 DEF Progress
<1>5. QED BY <1>2, <1>3, <1>4

\* A snapshot is opened with its job and its claims: a step of the suite.
LEMMA OpenRunProgress ==
  ASSUME PipelineInv, NEW r \in Run, OpenRun(r)
  PROVE  /\ Progress(r) /\ [SuiteNext]_suiteVars
         /\ \E s \in Snapshot : /\ status[s] = "absent"
                                /\ job' = [job EXCEPT ![s] = "running"]
                                /\ claimedBy' \in [Event -> Snapshot \cup {NoSnapshot}]
                                /\ owner' = [owner EXCEPT ![s] = r]
<1>1. PICK a \in Activity : a = act[r] /\ ActivitySane(a)
  BY ActivityValue
<1>2. PICK s \in Snapshot : s = NewSnapshot /\ status[s] = "absent"
  BY NewSnapshotExists DEF OpenRun
<1>3. a.pc = "open" /\ a.head \in Sha /\ a.src \in OnceResolvable(TheBranch)
  BY <1>1 DEF OpenRun, ActivitySane
<1>4. OpenSnapshot(TheBranch, s, a.head, a.src, BaselineHead)
  BY <1>1, <1>2 DEF OpenRun
<1>5. SuiteNext
  BY <1>3, <1>4, Constants DEF SuiteNext, OpenAny
<1>6. Progress(r)
  <2> DEFINE b == [a EXCEPT !.pc = "opened", !.snap = s]
  <2>1. Becomes(r, b)
    BY <1>1, <1>2 DEF OpenRun
  <2>2. b \in Activity /\ ActivitySane(b)'
    BY <1>3 DEF Activity, ActivitySane
  <2>3. QED BY <2>1, <2>2 DEF Progress
<1>7. claimedBy' \in [Event -> Snapshot \cup {NoSnapshot}]
  <2>1. claimedBy' = [e \in Event |-> IF Pending(e) THEN s ELSE claimedBy[e]]
    BY <1>2 DEF OpenRun
  <2>2. QED BY <2>1 DEF PipelineInv, TypeOK
<1>8. QED BY <1>2, <1>5, <1>6, <1>7 DEF OpenRun

\* A terminal is claimed, or was lost to another settlement.
LEMMA TerminalProgress ==
  ASSUME PipelineInv, NEW r \in Run, SettleTerminal(r)
  PROVE  Progress(r) /\ [SuiteNext]_suiteVars
<1>1. PICK a \in Activity : a = act[r] /\ ActivitySane(a)
  BY ActivityValue
<1>2. a.pc = "terminal" /\ a.snap \in Snapshot /\ a.outcome \in {"succeeded", "failed", "cancelled"}
      /\ (a.attempt > 0 => a.head \in Sha)
  BY <1>1 DEF SettleTerminal, ActivitySane, Activity, Outcome
<1>3. CASE CanClaimTerminal(a.snap)
  <2> DEFINE b == [a EXCEPT !.pc = "close"]
  <2>1. Becomes(r, b)
    BY <1>1, <1>3 DEF SettleTerminal
  <2>2. IF a.outcome = "succeeded" THEN Promote(a.snap) ELSE CloseSnapshot(a.snap, a.outcome)
    BY <1>1, <1>3 DEF SettleTerminal
  <2>3. SuiteNext
    BY <1>2, <2>2 DEF SuiteNext, SettleSnapshot
  <2>4. a.outcome = "succeeded" => status'[a.snap] \in {"active", "superseded"}
    BY <1>2, <2>2 DEF Promote
  <2>5. b \in Activity /\ ActivitySane(b)'
    BY <1>2, <2>4 DEF Activity, ActivitySane
  <2>6. QED BY <2>1, <2>3, <2>5 DEF Progress
<1>4. CASE ~CanClaimTerminal(a.snap)
  <2>1. Becomes(r, Settled(a)) /\ UNCHANGED suiteVars
    BY <1>1, <1>4 DEF SettleTerminal
  <2>2. QED BY <1>2, <2>1, RetryType, RetrySane DEF Progress
<1>5. QED BY <1>3, <1>4

\* The job is closed after the snapshot: completed only by a settlement that promoted it.
LEMMA CloseJobProgress ==
  ASSUME PipelineInv, NEW r \in Run, CloseJob(r)
  PROVE  /\ Progress(r) /\ UNCHANGED suiteVars
         /\ job' \in [Snapshot -> JobStatus] /\ CompletedMeansPromoted'
<1>1. PICK a \in Activity : a = act[r] /\ ActivitySane(a)
  BY ActivityValue
<1>2. a.pc = "close" /\ a.snap \in Snapshot /\ (a.attempt > 0 => a.head \in Sha) /\ UNCHANGED suiteVars
      /\ (a.outcome = "succeeded" => status[a.snap] \in {"active", "superseded"})
  BY <1>1 DEF CloseJob, ActivitySane
<1>3. Progress(r)
  <2>1. Becomes(r, Settled(a))
    BY <1>1 DEF CloseJob
  <2>2. QED BY <1>2, <2>1, RetryType, RetrySane DEF Progress
<1>4. job' = [job EXCEPT ![a.snap] = IF job[a.snap] # "running" THEN job[a.snap]
                                     ELSE IF a.outcome = "succeeded" THEN "completed" ELSE "failed"]
  BY <1>1 DEF CloseJob
<1>5. job' \in [Snapshot -> JobStatus]
  BY <1>2, <1>4 DEF PipelineInv, TypeOK, JobStatus
<1>6. CompletedMeansPromoted'
  BY <1>2, <1>4 DEF PipelineInv, TypeOK, CompletedMeansPromoted, suiteVars
<1>7. QED BY <1>2, <1>3, <1>5, <1>6

\* A crash leaves a failed activity.
LEMMA CrashProgress ==
  ASSUME PipelineInv, NEW r \in Run, CrashActivity(r)
  PROVE  Progress(r) /\ UNCHANGED suiteVars
<1>1. PICK a \in Activity : a = act[r] /\ ActivitySane(a)
  BY ActivityValue
<1> DEFINE b == [a EXCEPT !.pc = "failed"]
<1>2. Becomes(r, b) /\ UNCHANGED suiteVars
  BY <1>1 DEF CrashActivity, OnlyUpset
<1>3. b \in Activity /\ ActivitySane(b)'
  BY <1>1 DEF Activity, ActivitySane
<1>4. QED BY <1>2, <1>3 DEF Progress

-----------------------------------------------------------------------------
(* The induction step.                                                     *)

\* A step that leaves the jobs and the workflow alone, and moves one activity on, keeps
\* the invariant: whatever it does to the suite is a step of the suite.
LEMMA ActivityStepInv ==
  ASSUME PipelineInv, NEW r \in Run, ActivityStep(r) \/ CrashActivity(r)
  PROVE  PipelineInv' /\ [SuiteNext]_suiteVars
<1>1. ASSUME Progress(r), [SuiteNext]_suiteVars, RunTypeOK', WorkflowSane', CompletedMeansPromoted'
      PROVE  PipelineInv'
  BY <1>1, ProgressSane, SuiteStepInv DEF PipelineInv, TypeOK, RunTypeOK, SuiteInv
<1>2. ASSUME UNCHANGED wf PROVE WorkflowSane'
  BY <1>2 DEF PipelineInv, WorkflowSane
<1>3. ASSUME [SuiteNext]_suiteVars, UNCHANGED job PROVE CompletedMeansPromoted'
  BY <1>3, PromotedStays DEF PipelineInv, CompletedMeansPromoted
<1>4. CASE OpenGate(r) \/ Resolve(r) \/ OpenBlocked(r) \/ OpenMoved(r)
  <2>1. Progress(r) /\ UNCHANGED suiteVars
    BY <1>4, OpenGateProgress, ResolveProgress, OpenRefusedProgress
  <2>2. RunTypeOK' /\ UNCHANGED <<job, wf>>
    BY <1>4, <2>1, ProgressSane
       DEF OpenGate, Resolve, OpenBlocked, OpenMoved, OnlyReads, OnlyActivity, PipelineInv, TypeOK, RunTypeOK
  <2>3. QED BY <1>1, <1>2, <1>3, <2>1, <2>2
<1>5. CASE OpenRun(r)
  <2>1. Progress(r) /\ [SuiteNext]_suiteVars
    BY <1>5, OpenRunProgress
  <2>2. PICK s \in Snapshot : /\ status[s] = "absent"
                              /\ job' = [job EXCEPT ![s] = "running"]
                              /\ claimedBy' \in [Event -> Snapshot \cup {NoSnapshot}]
                              /\ owner' = [owner EXCEPT ![s] = r]
    BY <1>5, OpenRunProgress
  <2>3. act' \in [Run -> Activity]
    BY <2>1, ProgressSane
  <2>4. owner' \in [Snapshot -> 0..MaxRun] /\ job' \in [Snapshot -> JobStatus]
    BY <2>2, Constants DEF PipelineInv, TypeOK, JobStatus, Run
  <2>5. RunTypeOK' /\ UNCHANGED wf
    BY <1>5, <2>2, <2>3, <2>4 DEF OpenRun, OnlyActivity, PipelineInv, TypeOK, RunTypeOK
  <2>6. CompletedMeansPromoted'
    <3>1. \A x \in Snapshot : job'[x] = "completed" => job[x] = "completed"
      BY <2>2 DEF PipelineInv, TypeOK
    <3>2. QED BY <2>1, <3>1, PromotedStays DEF PipelineInv, CompletedMeansPromoted
  <2>7. QED BY <1>1, <1>2, <2>1, <2>5, <2>6
<1>6. CASE SettleTerminal(r)
  <2>1. Progress(r) /\ [SuiteNext]_suiteVars
    BY <1>6, TerminalProgress
  <2>2. RunTypeOK' /\ UNCHANGED <<job, wf>>
    BY <1>6, <2>1, ProgressSane DEF SettleTerminal, OnlyActivity, PipelineInv, TypeOK, RunTypeOK
  <2>3. QED BY <1>1, <1>2, <1>3, <2>1, <2>2
<1>7. CASE CloseJob(r)
  <2>1. Progress(r) /\ UNCHANGED suiteVars /\ job' \in [Snapshot -> JobStatus] /\ CompletedMeansPromoted'
    BY <1>7, CloseJobProgress
  <2>2. RunTypeOK' /\ UNCHANGED wf
    BY <1>7, <2>1, ProgressSane DEF CloseJob, OnlyActivity, PipelineInv, TypeOK, RunTypeOK
  <2>3. QED BY <1>1, <1>2, <2>1, <2>2
<1>8. CASE CrashActivity(r)
  <2>1. Progress(r) /\ UNCHANGED suiteVars
    BY <1>8, CrashProgress
  <2>2. upsets' \in 0..MaxUpsets /\ torn' \subseteq Snapshot
    <3>1. act[r].pc = "close" => act[r].snap \in Snapshot
      BY DEF PipelineInv, ActivitySane
    <3>2. QED BY <1>8, <3>1, Constants DEF CrashActivity, Upset, PipelineInv, TypeOK
  <2>3. RunTypeOK' /\ UNCHANGED <<job, wf>>
    BY <1>8, <2>1, <2>2, ProgressSane DEF CrashActivity, OnlyUpset, PipelineInv, TypeOK, RunTypeOK
  <2>4. QED BY <1>1, <1>2, <1>3, <2>1, <2>3
<1>9. QED BY <1>4, <1>5, <1>6, <1>7, <1>8 DEF ActivityStep

\* A step that leaves suite and jobs alone keeps the invariant if it keeps the types, the
\* workflow's snapshot and the activities' sense.
LEMMA QuietStepInv ==
  ASSUME PipelineInv, UNCHANGED <<suiteVars, job>>, RunTypeOK', WorkflowSane',
         \A r \in Run : act'[r] = act[r] \/ ActivitySane(act[r])'
  PROVE  PipelineInv'
<1>1. SuiteInv'
  BY SuiteStepInv DEF PipelineInv
<1>2. CompletedMeansPromoted'
  BY DEF PipelineInv, CompletedMeansPromoted, suiteVars
<1>3. ASSUME NEW r \in Run, act'[r] = act[r] PROVE ActivitySane(act[r])'
  BY <1>3 DEF PipelineInv, ActivitySane, suiteVars, OnceResolvable
<1>4. QED BY <1>1, <1>2, <1>3 DEF PipelineInv, TypeOK, RunTypeOK, SuiteInv

\* Displacing a workflow leaves every activity as it is, or drops its result.
LEMMA AbandonSane ==
  ASSUME RunTypeOK, Abandon, NEW r \in Run
  PROVE  act'[r] = act[r] \/ ActivitySane(act[r])'
<1>1. act'[r] = act[r] \/ act'[r] = NoActivity
  BY DEF Abandon
<1>2. QED BY <1>1, NoActivitySane DEF ActivitySane

\* Producers do not touch the suite, and at most start a run.
LEMMA ProducerStepInv ==
  ASSUME PipelineInv, NEW e \in Event, Occur(e) \/ Produce(e) \/ CrashProducer(e)
  PROVE  PipelineInv' /\ UNCHANGED suiteVars
<1>1. RunTypeOK /\ RunTypeOK'
  BY ProducerTypes DEF PipelineInv, TypeOK, RunTypeOK
<1>2. UNCHANGED <<suiteVars, job>>
  BY DEF Occur, Produce, CrashProducer, GateTrigger, AttachTrigger, RecordTrigger, Enqueue, Poke,
         OnlyProducers, OnlyUpset
<1>3. CASE Poke(e)
  <2>1. CASE e \in Prompt /\ wf.pc # "idle"
    <3>1. wf' = [wf EXCEPT !.nudged = TRUE] /\ act' = act
      BY <1>3, <2>1 DEF Poke
    <3>2. WorkflowSane'
      BY <1>1, <3>1 DEF PipelineInv, WorkflowSane, RunTypeOK, Workflow
    <3>3. QED BY <1>1, <1>2, <3>1, <3>2, QuietStepInv
  <2>2. CASE ~(e \in Prompt /\ wf.pc # "idle")
    <3>1. PICK nudged \in BOOLEAN : nudged <=> e \in Prompt
      BY Zenon
    <3>2. StartRun(nudged)
      BY <1>3, <2>2, <3>1 DEF Poke, StartRun, StartedRun
    <3>3. WorkflowSane'
      BY <1>1, <3>2, StartRunType DEF WorkflowSane
    <3>4. QED BY <1>1, <1>2, <3>2, <3>3, AbandonSane, QuietStepInv DEF StartRun
  <2>3. QED BY <2>1, <2>2
<1>4. CASE ~Poke(e)
  <2>1. UNCHANGED <<wf, act>>
    BY <1>4 DEF Occur, Produce, CrashProducer, GateTrigger, AttachTrigger, RecordTrigger, Enqueue
  <2>2. QED BY <1>1, <1>2, <2>1, QuietStepInv DEF PipelineInv, WorkflowSane
<1>5. QED BY <1>2, <1>3, <1>4

\* The workflow schedules an activity that makes sense, or collects one.
LEMMA ScheduleSane ==
  ASSUME RunTypeOK, NEW a \in Activity, Schedule(a), ActivitySane(a)'
  PROVE  act' \in [Run -> Activity] /\ \A r \in Run : act'[r] = act[r] \/ ActivitySane(act[r])'
<1>1. act' = [act EXCEPT ![wf.run] = a]
  BY DEF Schedule
<1>2. \A r \in Run : act'[r] = act[r] \/ act'[r] = a
  BY <1>1 DEF RunTypeOK
<1>3. QED BY <1>1, <1>2 DEF RunTypeOK, ActivitySane

\* The activities a workflow schedules, from a blank one: an open for a head, and a
\* settlement of its snapshot.
LEMMA Blank == \E n \in Activity : n = NoActivity /\ n.attempt = 0
  BY NoActivitySane DEF NoActivity

LEMMA OpenScheduled ==
  ASSUME NEW n \in Activity, n.attempt = 0, NEW head \in Sha
  PROVE  /\ [n EXCEPT !.pc = "gate", !.head = head] \in Activity
         /\ ActivitySane([n EXCEPT !.pc = "gate", !.head = head])'
  BY DEF Activity, ActivitySane

LEMMA SettlementScheduled ==
  ASSUME NEW n \in Activity, n.attempt = 0, NEW s \in Snapshot,
         NEW outcome \in {"succeeded", "failed", "cancelled"}
  PROVE  /\ [n EXCEPT !.pc = "terminal", !.snap = s, !.outcome = outcome] \in Activity
         /\ ActivitySane([n EXCEPT !.pc = "terminal", !.snap = s, !.outcome = outcome])'
<1> DEFINE a == [n EXCEPT !.pc = "terminal", !.snap = s, !.outcome = outcome]
<1>1. a \in Activity
  BY DEF Activity, Outcome
<1>2. a.pc = "terminal" /\ a.snap = s /\ a.outcome = outcome /\ a.attempt = 0
  BY DEF Activity
<1>3. ActivitySane(a)'
  BY <1>2 DEF ActivitySane
<1>4. QED BY <1>1, <1>3

\* A workflow decision that ends the run, or moves it on to states without a snapshot.
LEMMA MoveOnType ==
  ASSUME RunTypeOK, wf.pc # "idle" => wf.run \in Run
  PROVE  /\ Ended \in Workflow /\ Ended.pc = "idle"
         /\ \A pc \in {"drain", "exit"} :
              /\ [wf EXCEPT !.pc = pc] \in Workflow
              /\ [wf EXCEPT !.pc = pc].pc = pc
              /\ [wf EXCEPT !.pc = pc].run = wf.run
  BY EndedType DEF RunTypeOK, Workflow

\* The head is resolved and the open is scheduled for it.
LEMMA ResolveHeadInv ==
  ASSUME PipelineInv, ResolveHead
  PROVE  PipelineInv' /\ UNCHANGED suiteVars
<1>1. RunTypeOK /\ WorkflowSane /\ wf.pc = "resolve" /\ wf.run \in Run
  BY DEF PipelineInv, TypeOK, RunTypeOK, WorkflowSane, ResolveHead
<1>2. PICK head \in Sha \cup {NoSha} : head = IF HostsPreviews THEN prHead ELSE recordedHead
  BY <1>1 DEF RunTypeOK
<1>3. CASE head = NoSha
  <2>1. wf' = Ended /\ act' = act
    BY <1>2, <1>3 DEF ResolveHead
  <2>2. RunTypeOK' /\ WorkflowSane' /\ UNCHANGED <<suiteVars, job>>
    BY <1>1, <2>1, MoveOnType DEF ResolveHead, OnlyWorkflow, RunTypeOK, WorkflowSane
  <2>3. QED BY <2>1, <2>2, QuietStepInv
<1>4. CASE head # NoSha
  <2> PICK n \in Activity : n = NoActivity /\ n.attempt = 0
    BY Blank
  <2> DEFINE a == [n EXCEPT !.pc = "gate", !.head = head]
  <2>1. wf' = [wf EXCEPT !.pc = "opening", !.head = head] /\ Schedule(a)
    BY <1>2, <1>4 DEF ResolveHead
  <2>2. a \in Activity /\ ActivitySane(a)'
    BY <1>4, OpenScheduled
  <2>3. wf' \in Workflow /\ wf'.pc = "opening" /\ wf'.run = wf.run
    BY <1>1, <2>1 DEF RunTypeOK, Workflow
  <2>4. act' \in [Run -> Activity] /\ \A r \in Run : act'[r] = act[r] \/ ActivitySane(act[r])'
    BY <1>1, <2>1, <2>2, ScheduleSane
  <2>5. RunTypeOK' /\ WorkflowSane' /\ UNCHANGED <<suiteVars, job>>
    BY <1>1, <2>3, <2>4 DEF ResolveHead, OnlyWorkflow, RunTypeOK, WorkflowSane
  <2>6. QED BY <2>4, <2>5, QuietStepInv
<1>5. QED BY <1>3, <1>4

\* What the open returned: the body gets its snapshot.
LEMMA OpenedInv ==
  ASSUME PipelineInv, Opened
  PROVE  PipelineInv' /\ UNCHANGED suiteVars
<1>1. RunTypeOK /\ WorkflowSane /\ wf.run \in Run
  BY DEF PipelineInv, TypeOK, RunTypeOK, WorkflowSane, Opened
<1>2. act' \in [Run -> Activity] /\ \A r \in Run : act'[r] = act[r] \/ ActivitySane(act[r])'
  BY <1>1, NoActivitySane, ScheduleSane DEF Opened, Collect
<1>3. wf' \in Workflow /\ WorkflowSane'
  <2>1. CASE MyActivity.pc = "opened" /\ wf' = [wf EXCEPT !.pc = "body", !.snap = MyActivity.snap]
    <3>1. MyActivity.snap \in Snapshot
      BY <1>1, <2>1 DEF MyActivity, PipelineInv, ActivitySane
    <3>2. PICK s \in Snapshot : s = MyActivity.snap
      BY <3>1
    <3>3. wf' = [wf EXCEPT !.pc = "body", !.snap = s]
      BY <2>1, <3>2
    <3>4. wf' \in Workflow /\ wf'.pc = "body" /\ wf'.snap = s /\ wf'.run = wf.run
      BY <1>1, <3>3 DEF RunTypeOK, Workflow
    <3>5. QED BY <1>1, <3>4 DEF WorkflowSane
  <2>2. CASE wf' = [wf EXCEPT !.pc = "drain"] \/ wf' = Ended
    BY <1>1, <2>2, MoveOnType DEF WorkflowSane
  <2>3. QED BY <2>1, <2>2 DEF Opened
<1>4. RunTypeOK' /\ UNCHANGED <<suiteVars, job>>
  BY <1>1, <1>2, <1>3 DEF Opened, OnlyWorkflow, RunTypeOK
<1>5. QED BY <1>2, <1>3, <1>4, QuietStepInv

\* The body ends, one way or another, and its settlement is scheduled.
LEMMA SettleWithInv ==
  ASSUME PipelineInv, NEW outcome \in {"succeeded", "failed", "cancelled"}, SettleWith(outcome),
         upsets' \in 0..MaxUpsets
  PROVE  PipelineInv' /\ UNCHANGED suiteVars
<1>1. RunTypeOK /\ WorkflowSane /\ wf.pc = "body" /\ wf.run \in Run
  BY DEF PipelineInv, TypeOK, RunTypeOK, WorkflowSane, SettleWith
<1>2. PICK s \in Snapshot : s = wf.snap
  BY <1>1 DEF WorkflowSane
<1> PICK n \in Activity : n = NoActivity /\ n.attempt = 0
  BY Blank
<1> DEFINE a == [n EXCEPT !.pc = "terminal", !.snap = s, !.outcome = outcome]
<1>3. Schedule(a) /\ wf' = [wf EXCEPT !.pc = "settling", !.outcome = outcome]
  BY <1>2 DEF SettleWith
<1>4. a \in Activity /\ ActivitySane(a)'
  BY SettlementScheduled
<1>5. act' \in [Run -> Activity] /\ \A r \in Run : act'[r] = act[r] \/ ActivitySane(act[r])'
  BY <1>1, <1>3, <1>4, ScheduleSane
<1>6. wf' \in Workflow /\ wf'.pc = "settling" /\ wf'.snap = s /\ wf'.run = wf.run
  BY <1>1, <1>2, <1>3 DEF RunTypeOK, Workflow, Outcome
<1>7. RunTypeOK' /\ WorkflowSane' /\ UNCHANGED <<suiteVars, job>>
  BY <1>1, <1>5, <1>6 DEF SettleWith, OnlyWorkflow, RunTypeOK, WorkflowSane
<1>8. QED BY <1>5, <1>7, QuietStepInv

\* The run is over, drains the inbox, starts over or exits.
LEMMA EndingInv ==
  ASSUME PipelineInv, RunSettled \/ Drain \/ Exit \/ Cancelled
  PROVE  PipelineInv' /\ UNCHANGED suiteVars
<1>1. RunTypeOK /\ WorkflowSane /\ wf.run \in Run
  BY DEF PipelineInv, TypeOK, RunTypeOK, WorkflowSane, RunSettled, Drain, Exit, Cancelled
<1>2. ASSUME wf' \in Workflow, WorkflowSane', act' \in [Run -> Activity],
             \A r \in Run : act'[r] = act[r] \/ ActivitySane(act[r])'
      PROVE  PipelineInv' /\ UNCHANGED suiteVars
  <2>1. RunTypeOK' /\ UNCHANGED <<suiteVars, job>>
    BY <1>1, <1>2 DEF RunSettled, Drain, Exit, Cancelled, OnlyWorkflow, RunTypeOK
  <2>2. QED BY <1>2, <2>1, QuietStepInv
<1>3. ASSUME wf' = Ended \/ wf' = [wf EXCEPT !.pc = "drain"] \/ wf' = [wf EXCEPT !.pc = "exit"]
                \/ wf' = [wf EXCEPT !.pc = "drain", !.nudged = FALSE]
      PROVE  wf' \in Workflow /\ WorkflowSane'
  <2>1. CASE wf' = [wf EXCEPT !.pc = "drain", !.nudged = FALSE]
    <3>1. wf' \in Workflow /\ wf'.pc = "drain" /\ wf'.run = wf.run
      BY <1>1, <2>1 DEF RunTypeOK, Workflow
    <3>2. QED BY <1>1, <3>1 DEF WorkflowSane
  <2>2. CASE wf' = Ended \/ wf' = [wf EXCEPT !.pc = "drain"] \/ wf' = [wf EXCEPT !.pc = "exit"]
    BY <1>1, <2>2, MoveOnType DEF WorkflowSane
  <2>3. QED BY <1>3, <2>1, <2>2
<1>4. CASE RunSettled
  <2>1. act' \in [Run -> Activity] /\ \A r \in Run : act'[r] = act[r] \/ ActivitySane(act[r])'
    BY <1>1, <1>4, NoActivitySane, ScheduleSane DEF RunSettled, Collect
  <2>2. wf' = Ended \/ wf' = [wf EXCEPT !.pc = "drain"]
    BY <1>4 DEF RunSettled
  <2>3. QED BY <1>2, <1>3, <2>1, <2>2
<1>5. CASE Drain
  <2>1. CASE StartRun(FALSE)
    <3>1. wf' \in Workflow /\ act' \in [Run -> Activity] /\ WorkflowSane'
      BY <1>1, <2>1, StartRunType DEF WorkflowSane
    <3>2. QED BY <1>1, <1>2, <2>1, <3>1, AbandonSane DEF StartRun
  <2>2. CASE wf' = [wf EXCEPT !.pc = "exit"] /\ UNCHANGED act
    BY <1>1, <1>2, <1>3, <2>2 DEF RunTypeOK
  <2>3. QED BY <1>5, <2>1, <2>2 DEF Drain
<1>6. CASE Exit
  <2>1. wf' = Ended \/ wf' = [wf EXCEPT !.pc = "drain", !.nudged = FALSE]
    BY <1>6 DEF Exit
  <2>2. UNCHANGED act
    BY <1>6 DEF Exit
  <2>3. QED BY <1>1, <1>2, <1>3, <2>1, <2>2 DEF RunTypeOK
<1>7. CASE Cancelled
  <2>1. act' \in [Run -> Activity]
    BY <1>1, <1>7, Constants DEF Cancelled, Abandon, RunTypeOK, NoActivity, Activity, Outcome
  <2>2. wf' = Ended
    BY <1>7 DEF Cancelled
  <2>3. QED BY <1>1, <1>2, <1>3, <1>7, <2>1, <2>2, AbandonSane DEF Cancelled
<1>8. QED BY <1>4, <1>5, <1>6, <1>7

\* The preview is attached, the body ends, or something upsets the workflow.
LEMMA QuietUpsetInv ==
  ASSUME PipelineInv, AttachPreview \/ TimeOut \/ Cancel \/ ClosePullRequest
  PROVE  PipelineInv' /\ UNCHANGED suiteVars
<1>1. RunTypeOK /\ WorkflowSane
  BY DEF PipelineInv, TypeOK, RunTypeOK
<1>2. CASE AttachPreview
  <2>1. wf.head \in Sha \cup {NoSha}
    BY <1>1 DEF RunTypeOK, Workflow
  <2>2. RunTypeOK' /\ WorkflowSane' /\ UNCHANGED <<suiteVars, job, act>>
    BY <1>1, <1>2, <2>1 DEF AttachPreview, OnlyWorkflow, RunTypeOK, WorkflowSane
  <2>3. QED BY <2>2, QuietStepInv
<1>3. CASE TimeOut
  <2>1. wf' \in Workflow /\ wf'.pc = "idle"
    BY <1>1, <1>3, EndedType DEF TimeOut
  <2>2. act' \in [Run -> Activity] /\ upsets' \in 0..MaxUpsets
    BY <1>1, <1>3, Constants DEF TimeOut, Upset, Abandon, RunTypeOK, NoActivity, Activity, Outcome
  <2>3. RunTypeOK' /\ WorkflowSane' /\ UNCHANGED <<suiteVars, job>>
    BY <1>1, <1>3, <2>1, <2>2 DEF TimeOut, OnlyUpset, RunTypeOK, WorkflowSane
  <2>4. QED BY <1>1, <1>3, <2>3, AbandonSane, QuietStepInv DEF TimeOut
<1>4. CASE Cancel
  <2>1. wf' \in Workflow /\ wf'.pc = wf.pc /\ wf'.run = wf.run /\ wf'.snap = wf.snap
    BY <1>1, <1>4 DEF Cancel, RunTypeOK, Workflow
  <2>2. upsets' \in 0..MaxUpsets
    BY <1>1, <1>4, Constants DEF Cancel, Upset, RunTypeOK
  <2>3. RunTypeOK' /\ WorkflowSane' /\ UNCHANGED <<suiteVars, job, act>>
    BY <1>1, <1>4, <2>1, <2>2 DEF Cancel, OnlyUpset, RunTypeOK, WorkflowSane
  <2>4. QED BY <2>3, QuietStepInv
<1>5. CASE ClosePullRequest
  <2>1. RunTypeOK' /\ WorkflowSane' /\ UNCHANGED <<suiteVars, job, act>>
    <3>1. upsets' \in 0..MaxUpsets
      BY <1>1, <1>5, Constants DEF ClosePullRequest, Upset, RunTypeOK
    <3>2. QED BY <1>1, <1>5, <3>1, Zenon DEF ClosePullRequest, OnlyUpset, RunTypeOK, WorkflowSane
  <2>2. QED BY <2>1, QuietStepInv
<1>6. QED BY <1>2, <1>3, <1>4, <1>5

\* A step on the suite alone, by the body or by an edit session.
LEMMA SuiteStepPipelineInv ==
  ASSUME PipelineInv, [SuiteNext]_suiteVars, RunTypeOK', UNCHANGED <<job, wf, act>>
  PROVE  PipelineInv'
<1>1. SuiteInv'
  BY SuiteStepInv DEF PipelineInv
<1>2. CompletedMeansPromoted'
  BY PromotedStays DEF PipelineInv, CompletedMeansPromoted
<1>3. ASSUME NEW r \in Run PROVE ActivitySane(act[r])'
  <2>1. PICK a \in Activity : a = act[r]
    BY DEF PipelineInv, TypeOK
  <2>2. ActivitySane(a)'
    BY <2>1, SaneStays DEF PipelineInv
  <2>3. QED BY <2>1, <2>2
<1>4. QED BY <1>1, <1>2, <1>3 DEF PipelineInv, TypeOK, RunTypeOK, SuiteInv, WorkflowSane

LEMMA EditorInv ==
  ASSUME PipelineInv, EditInBody \/ StartEdit \/ \E s \in Snapshot : EditSession(s)
  PROVE  PipelineInv' /\ [SuiteNext]_suiteVars
<1>1. RunTypeOK /\ WorkflowSane
  BY DEF PipelineInv, TypeOK, RunTypeOK
<1>2. CASE EditInBody
  <2>1. PICK s \in Snapshot : s = wf.snap
    BY <1>1, <1>2 DEF EditInBody, WorkflowSane
  <2>2. SuiteNext
    BY <1>2, <2>1 DEF EditInBody, SuiteNext
  <2>3. RunTypeOK' /\ UNCHANGED <<job, wf, act>>
    BY <1>1, <1>2 DEF EditInBody, runVars, RunTypeOK
  <2>4. QED BY <2>2, <2>3, SuiteStepPipelineInv
<1>3. CASE StartEdit
  <2>1. NewSnapshot \in Snapshot
    BY <1>3, NewSnapshotExists DEF StartEdit
  <2>2. SuiteNext
    BY <1>3, <2>1, Constants DEF StartEdit, SuiteNext, OpenAny
  <2>3. RunTypeOK' /\ UNCHANGED <<job, wf, act>>
    BY <1>1, <1>3, Constants DEF StartEdit, OnlyEditor, RunTypeOK
  <2>4. QED BY <2>2, <2>3, SuiteStepPipelineInv
<1>4. CASE \E s \in Snapshot : EditSession(s)
  <2>1. SuiteNext
    BY <1>4 DEF EditSession, SuiteNext, SettleSnapshot
  <2>2. RunTypeOK' /\ UNCHANGED <<job, wf, act>>
    BY <1>1, <1>4 DEF EditSession, OnlyEditor, RunTypeOK
  <2>3. QED BY <2>1, <2>2, SuiteStepPipelineInv
<1>5. QED BY <1>2, <1>3, <1>4

\* The induction step, over every action of the pipeline.
LEMMA PipelineStep == PipelineInv /\ [Next]_vars => PipelineInv' /\ [SuiteNext]_suiteVars
<1> SUFFICES ASSUME PipelineInv, [Next]_vars PROVE PipelineInv' /\ [SuiteNext]_suiteVars
  OBVIOUS
<1>1. CASE UNCHANGED vars
  <2>1. RunTypeOK'
    BY <1>1 DEF PipelineInv, TypeOK, RunTypeOK, vars, runVars
  <2>2. UNCHANGED <<job, wf, act>> /\ UNCHANGED suiteVars
    BY <1>1 DEF vars, runVars
  <2>3. QED BY <2>1, <2>2, SuiteStepPipelineInv
<1>2. CASE \E e \in Event : Occur(e) \/ Produce(e) \/ CrashProducer(e)
  BY <1>2, ProducerStepInv
<1>3. CASE \E r \in Run : ActivityStep(r) \/ CrashActivity(r)
  BY <1>3, ActivityStepInv
<1>4. CASE BodySucceeds \/ BodyFails \/ BodyCancelled
  <2>1. upsets' \in 0..MaxUpsets
    BY <1>4, Constants DEF BodySucceeds, BodyFails, BodyCancelled, PipelineInv, TypeOK
  <2>2. \E outcome \in {"succeeded", "failed", "cancelled"} : SettleWith(outcome)
    BY <1>4 DEF BodySucceeds, BodyFails, BodyCancelled
  <2>3. QED BY <2>1, <2>2, SettleWithInv
<1>5. CASE WorkflowStep
  BY <1>4, <1>5, ResolveHeadInv, OpenedInv, EndingInv DEF WorkflowStep
<1>6. CASE AttachPreview \/ TimeOut \/ Cancel \/ ClosePullRequest
  BY <1>6, QuietUpsetInv
<1>7. CASE EditInBody \/ StartEdit \/ \E s \in Snapshot : EditSession(s)
  BY <1>7, EditorInv
<1>8. QED BY <1>1, <1>2, <1>3, <1>4, <1>5, <1>6, <1>7 DEF Next

\* An application with main's baseline satisfies the invariant.
LEMMA PipelineInit == Init => PipelineInv
<1> SUFFICES ASSUME Init PROVE PipelineInv
  OBVIOUS
<1>1. SuiteInv
  BY Constants, NullAssumption
     DEF Init, SuiteInv, SuiteTypeOK, PointersAgree, ForkedFromCurrent, PrevExists, SnapshotStatus, Row,
         BlankRow, Suite, EmptySuite, TriggerSource
<1>2. RunTypeOK
  <2>1. NoActivity \in Activity /\ NoRun \in Workflow
    BY Constants DEF NoActivity, Activity, NoRun, Workflow, Outcome
  <2>2. QED BY <2>1, Constants DEF Init, RunTypeOK, JobStatus, ProducerPc
<1>3. CompletedMeansPromoted
  BY DEF Init, CompletedMeansPromoted
<1>4. WorkflowSane
  BY DEF Init, WorkflowSane, NoRun
<1>5. ASSUME NEW r \in Run PROVE ActivitySane(act[r])
  BY <1>5 DEF Init, ActivitySane, NoActivity
<1>6. QED BY <1>1, <1>2, <1>3, <1>4, <1>5 DEF PipelineInv, TypeOK, RunTypeOK, SuiteInv

LEMMA PipelineInvariant == Spec => []PipelineInv
  BY PipelineInit, PipelineStep, PTL DEF Spec

-----------------------------------------------------------------------------
(* The theorems.                                                           *)

\* The variables of the pipeline keep their types, whatever overlaps or fails.
THEOREM PipelineTypes == Spec => []TypeOK
<1>1. PipelineInv => TypeOK
  BY DEF PipelineInv
<1>2. QED BY <1>1, PipelineInvariant, PTL

\* The pipeline and the edit sessions - opening (openSuperseding), settling
\* (settleAnalysisRunState), editing - only ever take the suite module's steps: its guards
\* hold at every call, even for an activity that outlived its workflow.
THEOREM PipelineTakesSuiteSteps == Spec => SuiteSteps
<1>1. PipelineInv /\ [Next]_vars => [suiteVars' # suiteVars => SuiteNext]_suiteVars
  BY PipelineStep
<1>2. QED BY <1>1, PipelineInvariant, PTL DEF Spec, SuiteSteps

\* So a pipeline's branches keep the lineage's invariants: one pending snapshot at most,
\* one active one, and a fork of the active one at any time (schema's pointers).
THEOREM PipelineKeepsLineage == Spec => [](PointersAgree /\ ForkedFromCurrent)
<1>1. PipelineInv => PointersAgree /\ ForkedFromCurrent
  BY DEF PipelineInv, SuiteInv
<1>2. QED BY <1>1, PipelineInvariant, PTL

\* And a snapshot a run or an edit session settled stays as it is, whoever comes late.
THEOREM PipelineKeepsSettled == Spec => TerminalImmutable
<1>1. PipelineInv /\ [Next]_vars => [KeepsSettled]_suiteVars
  BY PipelineStep, StepKeepsSettled DEF PipelineInv
<1>2. QED BY <1>1, PipelineInvariant, PTL DEF Spec, TerminalImmutable, KeepsSettled

\* An analysis job is completed only for a snapshot that was promoted: a settlement that
\* lost the race for the snapshot's terminal does not complete the job
\* (settleAnalysisRunState), in whatever order settlements, supersessions and crashes come.
THEOREM CompletedIsPromoted == Spec => []CompletedMeansPromoted
<1>1. PipelineInv => CompletedMeansPromoted
  BY DEF PipelineInv
<1>2. QED BY <1>1, PipelineInvariant, PTL
=============================================================================
