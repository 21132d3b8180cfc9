----------------------- MODULE AnalysisRunOrder_proofs -----------------------
(***************************************************************************)
(* Who works on which snapshot, for any number of events, runs, snapshots  *)
(* and attempts: what a workflow holds at each stage, what the activities  *)
(* it left behind may still do, and from that the order of the runs, the   *)
(* jobs, the claims, the promotions and the heads of a branch.  Displaced  *)
(* runs' activities go on, workers die and workflows are cancelled or      *)
(* time out throughout.                                                    *)
(***************************************************************************)
EXTENDS AnalysisRun_proofs

\* An activity that opens a run: it reads, opens, or supersedes what is in the way.
Opening(a) == a.pc \in {"gate", "resolve", "open"} \/ (a.pc \in {"terminal", "close"} /\ a.attempt > 0)
PastGate(a) == Opening(a) /\ a.pc # "gate"

\* An activity that settles the run's own snapshot.
Closing(a) == a.pc \in {"terminal", "close"} /\ a.attempt = 0

\* What the workflow waits for at each stage; what others left behind is still going.
InHand ==
    /\ \A r \in Run :
          /\ act[r].pc # "none" => r <= wf.run
          /\ act[r].pc \in {"resolve", "open"} => act[r].attempt > 0
          /\ act[r].pc \in {"terminal", "close"} /\ act[r].attempt > 0 => act[r].outcome = "cancelled"
          /\ r # wf.run \/ wf.pc = "idle" => act[r].pc = "none" \/ InFlight(act[r])
    /\ wf.pc \in {"resolve", "body", "drain", "exit"} => MyActivity.pc = "none"
    /\ wf.pc = "opening" => Opening(MyActivity) \/ MyActivity.pc \in {"opened", "skipped", "failed"}
    /\ wf.pc = "settling" => Closing(MyActivity) \/ MyActivity.pc \in {"settled", "failed"}

\* What the rows of a snapshot, its job and its claims say of each other.
Books ==
    /\ \A s \in Snapshot :
          /\ owner[s] <= wf.run /\ (wf.pc = "resolve" => owner[s] < wf.run)
          /\ status[s] = "absent" => owner[s] = 0 /\ job[s] = "none"
          /\ job[s] # "none" => row[s].trigger = "WEBHOOK"
          /\ status[s] = "processing" /\ row[s].trigger = "WEBHOOK" => job[s] # "none"
    /\ \A e \in Event : claimedBy[e] # NoSnapshot => job[claimedBy[e]] # "none"

\* An open snapshot of the live run is where the run's stage says.
OwnSnapshot ==
    \A s \in Snapshot : status[s] = "processing" /\ owner[s] = wf.run =>
        \/ wf.pc = "idle"
        \/ wf.pc = "opening" /\ (MyActivity.pc = "failed" \/ (MyActivity.pc = "opened" /\ MyActivity.snap = s))
        \/ wf.pc = "body" /\ wf.snap = s
        \/ wf.pc = "settling" /\ (MyActivity.pc = "failed" \/ (MyActivity.pc = "terminal" /\ MyActivity.snap = s))

\* The inductive invariant that needs no restriction.
OrderInv == PipelineInv /\ InHand /\ Books /\ OwnSnapshot

-----------------------------------------------------------------------------
(* The kinds of steps.                                                     *)

\* The suite, the claims and the jobs stay as they are.
Still == UNCHANGED <<suiteVars, claimedBy, job, owner>>
Aside == Still /\ UNCHANGED <<wf, act>>
Flagged ==
    /\ Still /\ UNCHANGED act
    /\ wf' = [wf EXCEPT !.nudged = TRUE] \/ (Upset /\ wf' = [wf EXCEPT !.cancel = TRUE])
Starts ==
    /\ Still /\ \E nudged \in BOOLEAN : StartRun(nudged)
    /\ wf.pc = "drain" \/ \E e \in Event : Poke(e) /\ ~(e \in Prompt /\ wf.pc # "idle")
Stops == Still /\ wf' = Ended /\ Abandon /\ (TimeOut \/ (Cancelled /\ wf.cancel))
Leaves == Still /\ Drain /\ wf.pc = "drain" /\ wf' = [wf EXCEPT !.pc = "exit"] /\ UNCHANGED act
Edits == EditInBody \/ StartEdit \/ \E s \in Snapshot : EditSession(s)

LEMMA StepKinds ==
  ASSUME [Next]_vars
  PROVE  \/ Aside \/ Flagged \/ Starts \/ Stops \/ Leaves \/ Edits
         \/ \E r \in Run : ActivityStep(r) \/ CrashActivity(r)
         \/ ResolveHead \/ Opened \/ RunSettled \/ Exit
         \/ \E outcome \in {"succeeded", "failed", "cancelled"} : SettleWith(outcome)
<1>1. ASSUME NEW e \in Event, Occur(e) \/ Produce(e) \/ CrashProducer(e) PROVE Aside \/ Flagged \/ Starts
  <2>1. CASE Poke(e)
    <3>1. PICK nudged \in BOOLEAN : nudged <=> e \in Prompt
      BY Zenon
    <3>2. CASE e \in Prompt /\ wf.pc # "idle"
      BY <2>1, <3>2 DEF Poke, OnlyProducers, Flagged, Still
    <3>3. CASE ~(e \in Prompt /\ wf.pc # "idle")
      BY <2>1, <3>1, <3>3 DEF Poke, OnlyProducers, Starts, Still, StartRun, StartedRun
    <3>4. QED BY <3>2, <3>3
  <2>2. CASE Occur(e) \/ GateTrigger(e) \/ AttachTrigger(e) \/ RecordTrigger(e) \/ Enqueue(e) \/ CrashProducer(e)
    BY <2>2 DEF Occur, GateTrigger, AttachTrigger, RecordTrigger, Enqueue, CrashProducer, OnlyProducers, OnlyUpset,
                Aside, Still
  <2>3. QED BY <1>1, <2>1, <2>2 DEF Produce
<1>2. CASE Drain
  BY <1>2 DEF Drain, OnlyWorkflow, Starts, Leaves, Still
<1>3. CASE Cancelled \/ TimeOut
  BY <1>3 DEF Cancelled, TimeOut, OnlyWorkflow, OnlyUpset, Stops, Still
<1>4. CASE AttachPreview \/ ClosePullRequest \/ UNCHANGED vars
  BY <1>4 DEF AttachPreview, ClosePullRequest, OnlyWorkflow, OnlyUpset, vars, runVars, Aside, Still
<1>5. CASE Cancel
  BY <1>5 DEF Cancel, OnlyUpset, Flagged, Still
<1>6. CASE BodySucceeds \/ BodyFails \/ BodyCancelled
  BY <1>6 DEF BodySucceeds, BodyFails, BodyCancelled
<1>7. QED BY <1>1, <1>2, <1>3, <1>4, <1>5, <1>6 DEF Next, WorkflowStep, Edits

\* The next attempt, or the end of the attempts.
Retried(a, b) == b.pc = "failed" \/ (b.pc = "resolve" /\ b.attempt = a.attempt + 1)

\* What a step makes of an activity, whatever the database says.
Advances(a, b) ==
    /\ b.head = a.head
    /\ \/ a.pc = "gate" /\ b.pc = "skipped"
       \/ a.pc = "gate" /\ b.pc = "resolve" /\ b.attempt = 1
       \/ a.pc = "resolve" /\ b.pc = "open" /\ b.attempt = a.attempt
       \/ a.pc = "open" /\ b.pc = "opened"
       \/ a.pc = "open" /\ b.pc = "terminal" /\ b.outcome = "cancelled" /\ b.attempt = a.attempt
       \/ a.pc = "open" /\ Retried(a, b)
       \/ a.pc = "terminal" /\ b.pc = "close" /\ b.outcome = a.outcome /\ b.attempt = a.attempt /\ b.snap = a.snap
       \/ a.pc \in {"terminal", "close"} /\ a.attempt > 0 /\ Retried(a, b)
       \/ a.pc \in {"terminal", "close"} /\ a.attempt = 0 /\ b.pc = "settled"
       \/ a.pc \notin {"none", "failed"} /\ b.pc = "failed"

LEMMA RetryFields ==
  ASSUME NEW a \in Activity
  PROVE  /\ Retry(a) \in Activity /\ Retry(a).head = a.head /\ Retried(a, Retry(a))
         /\ Settled(a) \in Activity /\ Settled(a).head = a.head
         /\ a.attempt > 0 => Retried(a, Settled(a))
         /\ a.attempt = 0 => Settled(a).pc = "settled"
         /\ a.attempt < MaxOpenAttempts => Retry(a).pc = "resolve"
<1>1. /\ Retry(a) \in Activity /\ Retry(a).head = a.head /\ Retried(a, Retry(a))
      /\ a.attempt < MaxOpenAttempts => Retry(a).pc = "resolve"
  <2>1. CASE a.attempt < MaxOpenAttempts
    <3>1. a.attempt + 1 \in 0..MaxOpenAttempts
      BY <2>1, Constants DEF Activity
    <3>2. Retry(a) = [a EXCEPT !.pc = "resolve", !.attempt = a.attempt + 1]
      BY <2>1 DEF Retry
    <3>3. QED BY <3>1, <3>2 DEF Activity, Retried
  <2>2. CASE ~(a.attempt < MaxOpenAttempts)
    BY <2>2 DEF Retry, Activity, Retried
  <2>3. QED BY <2>1, <2>2
<1>2. a.attempt = 0 => Settled(a) \in Activity /\ Settled(a).head = a.head /\ Settled(a).pc = "settled"
  BY DEF Settled, Activity
<1>3. a.attempt > 0 => Settled(a) = Retry(a)
  BY DEF Settled
<1>4. a.attempt = 0 \/ a.attempt > 0
  BY DEF Activity
<1>5. QED BY <1>1, <1>2, <1>3, <1>4

\* What a step of an activity reads, and makes of it.
Reads(a, b) ==
    \/ a.pc = "gate" /\ b.pc = "skipped" /\ ShouldSkip(a.head)
    \/ a.pc = "gate" /\ b.pc = "resolve" /\ b.attempt = 1 /\ ~ShouldSkip(a.head)
    \/ a.pc \in {"gate", "resolve"} /\ b.pc = "failed" /\ ResolveSource(TheBranch) = NoSnapshot
    \/ a.pc = "resolve" /\ b.pc = "open" /\ b.attempt = a.attempt /\ b.src = ResolveSource(TheBranch)
    \/ /\ a.pc = "open" /\ b.pc = "terminal" /\ b.outcome = "cancelled" /\ b.attempt = a.attempt
       /\ b.snap = pendingSnapshot[TheBranch] /\ b.snap \in Snapshot
    \/ a.pc = "open" /\ pendingSnapshot[TheBranch] = NoSnapshot /\ ~SourceStillCurrent(TheBranch, a.src) /\ b = Retry(a)
    \/ a.pc = "terminal" /\ ~CanClaimTerminal(a.snap) /\ b = Settled(a)

Dies(a, b) ==
    /\ upsets < MaxUpsets /\ a.pc \notin {"none", "failed"} /\ b.pc = "failed"
    /\ a.pc = "close" => a.snap \in torn'

\* What it writes.
Opens(r, a, b) ==
    /\ a.pc = "open" /\ b.pc = "opened"
    /\ \E s \in Snapshot :
          /\ b.snap = s /\ status[s] = "absent" /\ OpenSnapshot(TheBranch, s, a.head, a.src, BaselineHead)
          /\ job' = [job EXCEPT ![s] = "running"]
          /\ claimedBy' = [e \in Event |-> IF Pending(e) THEN s ELSE claimedBy[e]]
          /\ owner' = [owner EXCEPT ![s] = r]

SettlesRow(a, b) ==
    /\ a.pc = "terminal" /\ b.pc = "close" /\ b.outcome = a.outcome /\ b.attempt = a.attempt /\ b.snap = a.snap
    /\ IF a.outcome = "succeeded" THEN Promote(a.snap) ELSE CloseSnapshot(a.snap, a.outcome)
    /\ UNCHANGED <<claimedBy, job, owner>>

ClosesJob(a, b) ==
    /\ a.pc = "close" /\ b = Settled(a)
    /\ job' = [job EXCEPT ![a.snap] =
                  IF @ # "running" THEN @ ELSE IF a.outcome = "succeeded" THEN "completed" ELSE "failed"]
    /\ UNCHANGED <<suiteVars, claimedBy, owner>>

Moves(r, a, b) ==
    /\ a = act[r] /\ ActivitySane(a) /\ Becomes(r, b) /\ b.head = a.head
    /\ (Still /\ (Reads(a, b) \/ Dies(a, b))) \/ Opens(r, a, b) \/ SettlesRow(a, b) \/ ClosesJob(a, b)

\* A step of r's activity, with what it was and what it becomes.
LEMMA ActivityMoves ==
  ASSUME PipelineInv, NEW r \in Run, ActivityStep(r) \/ CrashActivity(r)
  PROVE  /\ UNCHANGED <<wf, edits, prHead, posted, producer, prLive>>
         /\ \E a, b \in Activity : Moves(r, a, b)
<1>1. PICK a \in Activity : a = act[r] /\ ActivitySane(a)
  BY ActivityValue
<1>2. UNCHANGED <<wf, edits, prHead, posted, producer, prLive>>
  BY DEF ActivityStep, OpenGate, Resolve, OpenRun, OpenBlocked, OpenMoved, SettleTerminal, CloseJob, CrashActivity,
         OnlyReads, OnlyActivity, OnlyUpset
<1>3. SUFFICES \E b \in Activity : Moves(r, a, b)
  BY <1>2
<1>4. CASE OpenGate(r)
  <2> DEFINE pc == IF ShouldSkip(a.head) THEN "skipped"
                   ELSE IF ResolveSource(TheBranch) = NoSnapshot THEN "failed" ELSE "resolve"
             b == [a EXCEPT !.pc = pc, !.attempt = 1]
  <2>1. Becomes(r, b)
    BY <1>1, <1>4 DEF OpenGate
  <2>2. /\ pc \in {"skipped", "failed", "resolve"} /\ (pc = "skipped" <=> ShouldSkip(a.head))
        /\ pc = "failed" => ResolveSource(TheBranch) = NoSnapshot
    OBVIOUS
  <2>3. 1 \in 0..MaxOpenAttempts
    BY Constants
  <2>4. Still /\ a.pc = "gate"
    BY <1>1, <1>4 DEF OpenGate, OnlyReads, Still
  <2> HIDE DEF pc
  <2>5. b \in Activity /\ b.pc = pc /\ b.attempt = 1 /\ b.head = a.head
    BY <2>2, <2>3 DEF Activity
  <2> HIDE DEF b
  <2>6. Reads(a, b)
    BY <2>2, <2>4, <2>5 DEF Reads
  <2>7. QED BY <1>1, <2>1, <2>4, <2>5, <2>6 DEF Moves
<1>5. CASE Resolve(r)
  <2> DEFINE src == ResolveSource(TheBranch)
             pc == IF src = NoSnapshot THEN "failed" ELSE "open"
             b == [a EXCEPT !.src = src, !.pc = pc]
  <2>1. Becomes(r, b)
    BY <1>1, <1>5 DEF Resolve
  <2>2. Still /\ a.pc = "resolve"
    BY <1>1, <1>5 DEF Resolve, OnlyReads, Still
  <2>3. pc \in {"failed", "open"} /\ (pc = "failed" => ResolveSource(TheBranch) = NoSnapshot)
    OBVIOUS
  <2>4. src \in Snapshot \cup {NoSnapshot}
    BY Constants DEF PipelineInv, SuiteInv, SuiteTypeOK, ResolveSource
  <2> HIDE DEF pc
  <2>5. src = ResolveSource(TheBranch)
    OBVIOUS
  <2> HIDE DEF src
  <2>6. b \in Activity /\ b.pc = pc /\ b.attempt = a.attempt /\ b.head = a.head /\ b.src = src
    BY <2>3, <2>4 DEF Activity
  <2> HIDE DEF b
  <2>7. Reads(a, b)
    BY <2>2, <2>3, <2>5, <2>6 DEF Reads
  <2>8. QED BY <1>1, <2>1, <2>2, <2>6, <2>7 DEF Moves
<1>6. CASE OpenRun(r)
  <2>1. PICK s \in Snapshot : s = NewSnapshot /\ status[s] = "absent"
    BY <1>6, NewSnapshotExists DEF OpenRun
  <2> DEFINE b == [a EXCEPT !.pc = "opened", !.snap = s]
  <2>2. b \in Activity /\ b.pc = "opened" /\ b.head = a.head /\ b.snap = s
    BY DEF Activity
  <2>3. Becomes(r, b)
    BY <1>1, <1>6, <2>1 DEF OpenRun
  <2> HIDE DEF b
  <2>4. Opens(r, a, b)
    BY <1>1, <1>6, <2>1, <2>2 DEF OpenRun, Opens
  <2>5. QED BY <1>1, <2>2, <2>3, <2>4 DEF Moves
<1>7. CASE OpenBlocked(r)
  <2>1. PICK s \in Snapshot : s = pendingSnapshot[TheBranch]
    BY <1>7, Constants DEF OpenBlocked, PipelineInv, SuiteInv, SuiteTypeOK
  <2> DEFINE b == [a EXCEPT !.pc = "terminal", !.snap = s, !.outcome = "cancelled"]
  <2>2. /\ b \in Activity /\ b.pc = "terminal" /\ b.head = a.head /\ b.outcome = "cancelled"
        /\ b.attempt = a.attempt /\ b.snap = s
    BY DEF Activity, Outcome
  <2>3. Becomes(r, b) /\ a.pc = "open" /\ Still
    BY <1>1, <1>7, <2>1 DEF OpenBlocked, OnlyReads, Still
  <2> HIDE DEF b
  <2>4. Reads(a, b)
    BY <2>1, <2>2, <2>3 DEF Reads
  <2>5. QED BY <1>1, <2>2, <2>3, <2>4 DEF Moves
<1>8. CASE OpenMoved(r)
  <2>1. Still /\ Reads(a, Retry(a)) /\ Becomes(r, Retry(a))
    BY <1>1, <1>8 DEF OpenMoved, OnlyReads, Still, Reads
  <2>2. QED BY <1>1, <2>1, RetryFields DEF Moves
<1>9. CASE SettleTerminal(r) /\ ~CanClaimTerminal(a.snap)
  <2>1. Still /\ Reads(a, Settled(a)) /\ Becomes(r, Settled(a))
    BY <1>1, <1>9 DEF SettleTerminal, OnlyActivity, Still, Reads
  <2>2. QED BY <1>1, <2>1, RetryFields DEF Moves
<1>10. CASE SettleTerminal(r) /\ CanClaimTerminal(a.snap)
  <2> DEFINE b == [a EXCEPT !.pc = "close"]
  <2>1. /\ b \in Activity /\ b.pc = "close" /\ b.head = a.head /\ b.outcome = a.outcome /\ b.attempt = a.attempt
        /\ b.snap = a.snap
    BY DEF Activity
  <2>2. Becomes(r, b)
    BY <1>1, <1>10 DEF SettleTerminal
  <2> HIDE DEF b
  <2>3. SettlesRow(a, b)
    BY <1>1, <1>10, <2>1 DEF SettleTerminal, SettlesRow
  <2>4. QED BY <1>1, <2>1, <2>2, <2>3 DEF Moves
<1>11. CASE CloseJob(r)
  <2>1. ClosesJob(a, Settled(a)) /\ Becomes(r, Settled(a))
    BY <1>1, <1>11 DEF CloseJob, ClosesJob
  <2>2. QED BY <1>1, <2>1, RetryFields DEF Moves
<1>12. CASE CrashActivity(r)
  <2> DEFINE b == [a EXCEPT !.pc = "failed"]
  <2>1. b \in Activity /\ b.pc = "failed" /\ b.head = a.head
    BY DEF Activity
  <2>2. Becomes(r, b) /\ Still
    BY <1>1, <1>12 DEF CrashActivity, OnlyUpset, Still
  <2> HIDE DEF b
  <2>3. Dies(a, b)
    BY <1>1, <1>12, <2>1 DEF CrashActivity, Upset, Dies
  <2>4. QED BY <1>1, <2>1, <2>2, <2>3 DEF Moves
<1>13. QED BY <1>1, <1>4, <1>5, <1>6, <1>7, <1>8, <1>9, <1>10, <1>11, <1>12 DEF ActivityStep

LEMMA MovesAdvance ==
  ASSUME NEW r \in Run, NEW a \in Activity, NEW b \in Activity, Moves(r, a, b),
         a.pc \in {"resolve", "open"} => a.attempt > 0
  PROVE  Advances(a, b)
<1>1. a.attempt = 0 \/ a.attempt > 0
  BY DEF Activity
<1>2. CASE Reads(a, b)
  <2>1. CASE a.pc = "open" /\ b = Retry(a)
    BY <2>1, RetryFields DEF Advances, Moves
  <2>2. CASE a.pc = "terminal" /\ b = Settled(a)
    BY <1>1, <2>2, RetryFields DEF Advances, Moves
  <2>3. CASE ~(a.pc = "open" /\ b = Retry(a)) /\ ~(a.pc = "terminal" /\ b = Settled(a))
    BY <1>2, <2>3 DEF Advances, Moves, Reads
  <2>4. QED BY <2>1, <2>2, <2>3
<1>3. CASE Dies(a, b) \/ Opens(r, a, b) \/ SettlesRow(a, b)
  BY <1>3 DEF Dies, Opens, SettlesRow, Advances, Moves
<1>4. CASE ClosesJob(a, b)
  BY <1>1, <1>4, RetryFields DEF ClosesJob, Advances, Moves
<1>5. QED BY <1>2, <1>3, <1>4 DEF Moves

-----------------------------------------------------------------------------
(* What is in hand.                                                        *)

\* Only r's activity is touched, and its result is kept only if someone waits for it.
LEMMA BecomesAt ==
  ASSUME act \in [Run -> Activity], NEW r \in Run, NEW b, Becomes(r, b)
  PROVE  /\ \A x \in Run : x # r => act'[x] = act[x]
         /\ InFlight(b) \/ (r = wf.run /\ wf.pc \in {"opening", "settling"}) => act'[r] = b
         /\ ~InFlight(b) /\ ~(r = wf.run /\ wf.pc \in {"opening", "settling"}) => act'[r] = NoActivity
  BY DEF Becomes

LEMMA NothingDone == NoActivity.pc = "none" /\ NoActivity.attempt = 0 /\ ~InFlight(NoActivity)
  BY DEF NoActivity, InFlight

LEMMA ActivityInHand ==
  ASSUME PipelineInv, InHand, NEW r \in Run, ActivityStep(r) \/ CrashActivity(r)
  PROVE  InHand'
<1>1. PICK a, b \in Activity : a = act[r] /\ Becomes(r, b) /\ UNCHANGED wf /\ Advances(a, b)
  <2>1. PICK a, b \in Activity : Moves(r, a, b)
    BY ActivityMoves
  <2>2. a.pc \in {"resolve", "open"} => a.attempt > 0
    BY <2>1 DEF InHand, Moves
  <2>3. QED BY <2>1, <2>2, MovesAdvance, ActivityMoves DEF Moves
<1>2. act \in [Run -> Activity] /\ act' \in [Run -> Activity] /\ WorkflowSane
  BY <1>1, BecomesType DEF PipelineInv, TypeOK
<1>3. /\ \A x \in Run : x # r => act'[x] = act[x]
      /\ act'[r] = b \/ act'[r] = NoActivity
      /\ r = wf.run /\ wf.pc \in {"opening", "settling"} => act'[r] = b
      /\ ~(r = wf.run /\ wf.pc \in {"opening", "settling"}) => act'[r] = NoActivity \/ InFlight(act'[r])
  BY <1>1, <1>2, BecomesAt
<1>4. a.pc # "none" /\ a.attempt \in Nat
  BY <1>1, Constants DEF Advances, Activity
<1>5. /\ b.pc \in {"resolve", "open"} => b.attempt > 0
      /\ b.pc \in {"terminal", "close"} /\ b.attempt > 0 => b.outcome = "cancelled"
      /\ Opening(a) => Opening(b) \/ b.pc \in {"opened", "skipped", "failed"}
      /\ Closing(a) => Closing(b) \/ b.pc \in {"settled", "failed"}
      /\ a.pc \in {"opened", "skipped", "settled"} => b.pc = "failed"
  BY <1>1, <1>4 DEF InHand, Advances, Retried, Opening, Closing
<1>6. ASSUME NEW x \in Run
      PROVE  /\ act'[x].pc # "none" => x <= wf.run
             /\ act'[x].pc \in {"resolve", "open"} => act'[x].attempt > 0
             /\ act'[x].pc \in {"terminal", "close"} /\ act'[x].attempt > 0 => act'[x].outcome = "cancelled"
             /\ x # wf.run \/ wf.pc = "idle" => act'[x].pc = "none" \/ InFlight(act'[x])
  <2>1. CASE x # r
    BY <1>3, <2>1 DEF InHand
  <2>2. CASE x = r
    BY <1>1, <1>3, <1>4, <1>5, <2>2, NothingDone DEF InHand
  <2>3. QED BY <2>1, <2>2
<1>7. ASSUME wf.pc # "idle"
      PROVE  /\ wf.pc \in {"resolve", "body", "drain", "exit"} => act'[wf.run].pc = "none"
             /\ wf.pc = "opening" => Opening(act'[wf.run]) \/ act'[wf.run].pc \in {"opened", "skipped", "failed"}
             /\ wf.pc = "settling" => Closing(act'[wf.run]) \/ act'[wf.run].pc \in {"settled", "failed"}
  <2>1. wf.run \in Run
    BY <1>2, <1>7 DEF WorkflowSane
  <2>2. CASE wf.run # r
    BY <1>3, <2>1, <2>2 DEF InHand, MyActivity
  <2>3. CASE wf.run = r
    BY <1>1, <1>3, <1>4, <1>5, <2>3 DEF InHand, MyActivity, Advances
  <2>4. QED BY <2>2, <2>3
<1>8. QED BY <1>1, <1>6, <1>7 DEF InHand, MyActivity

\* The fields of the workflow's next state.
LEMMA WorkflowFields ==
  ASSUME RunTypeOK
  PROVE  /\ Ended.pc = "idle" /\ Ended.run = wf.run
         /\ \A nudged \in BOOLEAN : /\ StartedRun(nudged).pc = "resolve" /\ StartedRun(nudged).run = wf.run + 1
         /\ \A pc \in {"opening", "drain", "exit"} : /\ [wf EXCEPT !.pc = pc].pc = pc
                                                   /\ [wf EXCEPT !.pc = pc].run = wf.run
         /\ \A head : /\ [wf EXCEPT !.pc = "opening", !.head = head].pc = "opening"
                       /\ [wf EXCEPT !.pc = "opening", !.head = head].run = wf.run
         /\ \A s : /\ [wf EXCEPT !.pc = "body", !.snap = s].pc = "body"
                    /\ [wf EXCEPT !.pc = "body", !.snap = s].run = wf.run
                    /\ [wf EXCEPT !.pc = "body", !.snap = s].snap = s
         /\ \A outcome : /\ [wf EXCEPT !.pc = "settling", !.outcome = outcome].pc = "settling"
                          /\ [wf EXCEPT !.pc = "settling", !.outcome = outcome].run = wf.run
                          /\ [wf EXCEPT !.pc = "settling", !.outcome = outcome].snap = wf.snap
         /\ [wf EXCEPT !.pc = "drain", !.nudged = FALSE].pc = "drain"
         /\ [wf EXCEPT !.pc = "drain", !.nudged = FALSE].run = wf.run
         /\ [wf EXCEPT !.nudged = TRUE].pc = wf.pc /\ [wf EXCEPT !.nudged = TRUE].run = wf.run
         /\ [wf EXCEPT !.nudged = TRUE].snap = wf.snap
         /\ [wf EXCEPT !.cancel = TRUE].pc = wf.pc /\ [wf EXCEPT !.cancel = TRUE].run = wf.run
         /\ [wf EXCEPT !.cancel = TRUE].snap = wf.snap
<1>1. wf \in Workflow
  BY DEF RunTypeOK
<1>2. Ended.pc = "idle" /\ Ended.run = wf.run
  BY DEF Ended, NoRun
<1>3. \A nudged \in BOOLEAN : StartedRun(nudged).pc = "resolve" /\ StartedRun(nudged).run = wf.run + 1
  BY DEF StartedRun, NoRun
<1>4. QED BY <1>1, <1>2, <1>3 DEF Workflow

\* Displacing a run: what it had in flight goes on, what it had collected is gone.
LeavesBehind(r) ==
    \/ act'[r] = NoActivity /\ r = wf.run /\ ~InFlight(act[r])
    \/ act'[r] = act[r] /\ (InFlight(act[r]) \/ r # wf.run)

LEMMA Abandoned ==
  ASSUME act \in [Run -> Activity], Abandon
  PROVE  \A r \in Run : LeavesBehind(r)
  BY DEF Abandon, LeavesBehind

\* Scheduling is for the live run only.
LEMMA Scheduled ==
  ASSUME act \in [Run -> Activity], wf.run \in Run, NEW a, Schedule(a)
  PROVE  act'[wf.run] = a /\ \A r \in Run : r # wf.run => act'[r] = act[r]
  BY DEF Schedule

\* The steps of the workflow and of everyone but the activities, by stage.
SameStage == UNCHANGED act /\ wf'.pc = wf.pc /\ wf'.run = wf.run /\ wf'.snap = wf.snap
NewTurn == Starts /\ wf'.pc = "resolve" /\ wf'.run = wf.run + 1 /\ wf'.run \in Run /\ Abandon
Over == Stops /\ wf'.pc = "idle" /\ wf'.run = wf.run /\ Abandon
Quits == Still /\ ResolveHead /\ wf.pc = "resolve" /\ wf'.pc = "idle" /\ wf'.run = wf.run /\ UNCHANGED act
Asks ==
    /\ Still /\ ResolveHead
    /\ wf.pc = "resolve" /\ wf'.pc = "opening" /\ wf'.run = wf.run
    /\ \E a \in Activity : /\ a.pc = "gate" /\ a.attempt = 0
                          /\ a.head = (IF HostsPreviews THEN prHead ELSE recordedHead)
                          /\ Schedule(a)
Answered ==
    /\ Still /\ Opened /\ wf.pc = "opening" /\ wf'.run = wf.run /\ Collect
    /\ \/ MyActivity.pc = "opened" /\ wf'.pc = "body" /\ wf'.snap = MyActivity.snap
       \/ MyActivity.pc = "skipped" /\ wf'.pc = "drain"
       \/ MyActivity.pc = "failed" /\ wf'.pc = "idle"
Wraps ==
    /\ Still /\ wf.pc = "body" /\ wf'.pc = "settling" /\ wf'.run = wf.run /\ wf'.snap = wf.snap
    /\ \E a \in Activity : /\ a.pc = "terminal" /\ a.attempt = 0 /\ a.snap = wf.snap /\ Schedule(a)
                          /\ \E outcome \in {"succeeded", "failed", "cancelled"} :
                                SettleWith(outcome) /\ a.outcome = outcome
Wrapped ==
    /\ Still /\ RunSettled /\ wf.pc = "settling" /\ MyActivity.pc \in {"settled", "failed"} /\ wf'.run = wf.run /\ Collect
    /\ wf'.pc = "idle" \/ (wf'.pc = "drain" /\ MyActivity.pc = "settled")
Winds ==
    /\ Still /\ UNCHANGED act /\ wf'.run = wf.run
    /\ \/ Drain /\ wf.pc = "drain" /\ wf'.pc = "exit"
       \/ Exit /\ wf.pc = "exit" /\ wf'.pc \in {"drain", "idle"}

LEMMA Turns ==
  ASSUME PipelineInv, [Next]_vars
  PROVE  \/ Aside \/ (SameStage /\ Flagged) \/ (SameStage /\ Edits /\ UNCHANGED <<claimedBy, job, owner, wf>>)
         \/ NewTurn \/ Over \/ Quits \/ Asks \/ Answered \/ Wraps \/ Wrapped \/ Winds
         \/ \E r \in Run : ActivityStep(r) \/ CrashActivity(r)
<1>1. RunTypeOK /\ WorkflowSane /\ act \in [Run -> Activity] /\ wf.run \in 0..MaxRun
  BY DEF PipelineInv, TypeOK, RunTypeOK, Workflow
<1>2. CASE Flagged
  <2>1. wf'.pc = wf.pc /\ wf'.run = wf.run /\ wf'.snap = wf.snap /\ UNCHANGED act
    BY <1>1, <1>2 DEF Flagged, RunTypeOK, Workflow
  <2>2. SameStage
    BY <2>1 DEF SameStage
  <2>3. QED BY <1>2, <2>2
<1>3. CASE Edits
  BY <1>3 DEF Edits, EditInBody, StartEdit, EditSession, OnlyEditor, runVars, SameStage
<1>4. CASE Starts
  <2>1. PICK nudged \in BOOLEAN : StartRun(nudged)
    BY <1>4 DEF Starts
  <2>2. wf'.run \in Run /\ wf' = StartedRun(nudged) /\ Abandon
    BY <1>1, <2>1, StartRunType DEF StartRun
  <2>3. wf'.pc = "resolve" /\ wf'.run = wf.run + 1
    BY <1>1, <2>2, WorkflowFields
  <2>4. QED BY <1>4, <2>2, <2>3 DEF Starts, NewTurn
<1>5. CASE Stops
  BY <1>1, <1>5, WorkflowFields DEF Stops, Over
<1>6. CASE Leaves
  <2>1. wf'.pc = "exit" /\ wf'.run = wf.run
    BY <1>1, <1>6 DEF Leaves, RunTypeOK, Workflow
  <2>2. Winds
    BY <1>6, <2>1 DEF Leaves, Winds
  <2>3. QED BY <2>2
<1>7. CASE ResolveHead
  <2>1. PICK head \in Sha \cup {NoSha} : head = IF HostsPreviews THEN prHead ELSE recordedHead
    BY <1>1 DEF RunTypeOK
  <2>2. Still /\ wf.pc = "resolve"
    BY <1>7 DEF ResolveHead, OnlyWorkflow, Still
  <2>3. CASE head = NoSha
    <3>1. wf' = Ended /\ UNCHANGED act
      BY <1>7, <2>1, <2>3 DEF ResolveHead
    <3>2. QED BY <1>1, <1>7, <2>2, <3>1, WorkflowFields DEF Quits
  <2>4. CASE head # NoSha
    <3> PICK n \in Activity : n = NoActivity /\ n.attempt = 0
      BY Blank
    <3> DEFINE a == [n EXCEPT !.pc = "gate", !.head = head]
    <3>1. wf' = [wf EXCEPT !.pc = "opening", !.head = head] /\ Schedule(a)
      BY <1>7, <2>1, <2>4 DEF ResolveHead
    <3>2. a \in Activity /\ a.pc = "gate" /\ a.attempt = 0 /\ a.head = head
      BY DEF Activity
    <3>3. wf'.pc = "opening" /\ wf'.run = wf.run
      BY <1>1, <3>1, WorkflowFields
    <3> HIDE DEF a
    <3>4. QED BY <1>7, <2>1, <2>2, <3>1, <3>2, <3>3 DEF Asks
  <2>5. QED BY <2>3, <2>4
<1>8. CASE Opened
  <2>1. Still /\ wf.pc = "opening" /\ Collect
    BY <1>8 DEF Opened, OnlyWorkflow, Still
  <2>2. CASE MyActivity.pc = "opened" /\ wf' = [wf EXCEPT !.pc = "body", !.snap = MyActivity.snap]
    <3>1. PICK s : s = MyActivity.snap
      OBVIOUS
    <3>2. wf'.pc = "body" /\ wf'.run = wf.run /\ wf'.snap = s
      BY <1>1, <2>2, <3>1 DEF RunTypeOK, Workflow
    <3>3. Answered
      BY <1>8, <2>1, <2>2, <3>1, <3>2 DEF Answered
    <3>4. QED BY <3>3
  <2>3. CASE MyActivity.pc = "skipped" /\ wf' = [wf EXCEPT !.pc = "drain"]
    <3>1. wf'.pc = "drain" /\ wf'.run = wf.run
      BY <1>1, <2>3 DEF RunTypeOK, Workflow
    <3>2. Answered
      BY <1>8, <2>1, <2>3, <3>1 DEF Answered
    <3>3. QED BY <3>2
  <2>4. CASE MyActivity.pc = "failed" /\ wf' = Ended
    <3>1. Answered
      BY <1>1, <1>8, <2>1, <2>4, WorkflowFields DEF Answered
    <3>2. QED BY <3>1
  <2>5. QED BY <1>8, <2>2, <2>3, <2>4 DEF Opened
<1>9. ASSUME NEW outcome \in {"succeeded", "failed", "cancelled"}, SettleWith(outcome) PROVE Wraps
  <2>1. Still /\ wf.pc = "body" /\ wf' = [wf EXCEPT !.pc = "settling", !.outcome = outcome]
    BY <1>9 DEF SettleWith, OnlyWorkflow, Still
  <2>2. PICK s \in Snapshot : s = wf.snap
    BY <1>1, <2>1 DEF WorkflowSane
  <2> PICK n \in Activity : n = NoActivity /\ n.attempt = 0
    BY Blank
  <2> DEFINE a == [n EXCEPT !.pc = "terminal", !.snap = s, !.outcome = outcome]
  <2>3. Schedule(a)
    BY <1>9, <2>2 DEF SettleWith
  <2>4. a \in Activity /\ a.pc = "terminal" /\ a.attempt = 0 /\ a.snap = wf.snap /\ a.outcome = outcome
    BY <2>2 DEF Activity, Outcome
  <2>5. wf'.pc = "settling" /\ wf'.run = wf.run /\ wf'.snap = wf.snap
    BY <1>1, <2>1, WorkflowFields
  <2> HIDE DEF a
  <2>6. QED BY <1>9, <2>1, <2>3, <2>4, <2>5 DEF Wraps
<1>10. CASE RunSettled
  <2>1. Still /\ wf.pc = "settling" /\ Collect /\ MyActivity.pc \in {"settled", "failed"}
    BY <1>10 DEF RunSettled, OnlyWorkflow, Still
  <2>2. wf' = Ended \/ (wf' = [wf EXCEPT !.pc = "drain"] /\ MyActivity.pc # "failed")
    BY <1>10 DEF RunSettled
  <2>3. QED BY <1>1, <1>10, <2>1, <2>2, WorkflowFields DEF Wrapped
<1>11. CASE Exit
  <2>1. Still /\ UNCHANGED act /\ wf.pc = "exit"
    BY <1>11 DEF Exit, OnlyWorkflow, Still
  <2>2. wf' = Ended \/ wf' = [wf EXCEPT !.pc = "drain", !.nudged = FALSE]
    BY <1>11 DEF Exit
  <2>3. QED BY <1>1, <1>11, <2>1, <2>2, WorkflowFields DEF Winds
<1>12. QED
  BY <1>2, <1>3, <1>4, <1>5, <1>6, <1>7, <1>8, <1>9, <1>10, <1>11, StepKinds

LEMMA InHandStep ==
  ASSUME PipelineInv, InHand, [Next]_vars
  PROVE  InHand'
<1>1. /\ act \in [Run -> Activity] /\ wf.run \in 0..MaxRun /\ MaxRun \in Nat
      /\ wf.pc # "idle" => wf.run \in Run
  BY Constants DEF PipelineInv, TypeOK, WorkflowSane, Workflow
<1>2. CASE Aside \/ SameStage
  BY <1>2 DEF InHand, Aside, SameStage, MyActivity
<1>3. CASE NewTurn
  <2>1. \A r \in Run : LeavesBehind(r)
    BY <1>1, <1>3, Abandoned DEF NewTurn
  <2>2. \A r \in Run : r <= wf.run + 1 /\ r # wf.run + 1 => r <= wf.run
    BY <1>1 DEF Run
  <2>3. ASSUME NEW r \in Run
        PROVE  /\ act'[r].pc # "none" => r <= wf.run
               /\ act'[r].pc \in {"resolve", "open"} => act'[r].attempt > 0
               /\ act'[r].pc \in {"terminal", "close"} /\ act'[r].attempt > 0 => act'[r].outcome = "cancelled"
               /\ act'[r].pc = "none" \/ InFlight(act'[r])
    <3>1. CASE act'[r] = NoActivity
      BY <3>1, NothingDone
    <3>2. CASE act'[r] = act[r] /\ (InFlight(act[r]) \/ r # wf.run)
      BY <3>2 DEF InHand
    <3>3. act'[r] = NoActivity \/ (act'[r] = act[r] /\ (InFlight(act[r]) \/ r # wf.run))
      BY <2>1 DEF LeavesBehind
    <3>4. QED BY <3>1, <3>2, <3>3
  <2>4. wf'.run \in Run /\ wf'.run = wf.run + 1 /\ wf'.pc = "resolve"
    BY <1>3 DEF NewTurn
  <2>5. act'[wf'.run].pc = "none"
    BY <1>1, <2>3, <2>4
  <2>6. \A r \in Run : r <= wf.run => r <= wf'.run
    BY <1>1, <2>4 DEF Run
  <2>7. QED BY <2>3, <2>4, <2>5, <2>6 DEF InHand, MyActivity
<1>4. CASE Over
  <2>1. \A r \in Run : LeavesBehind(r)
    BY <1>1, <1>4, Abandoned DEF Over
  <2>2. ASSUME NEW r \in Run
        PROVE  /\ act'[r].pc # "none" => r <= wf.run
               /\ act'[r].pc \in {"resolve", "open"} => act'[r].attempt > 0
               /\ act'[r].pc \in {"terminal", "close"} /\ act'[r].attempt > 0 => act'[r].outcome = "cancelled"
               /\ act'[r].pc = "none" \/ InFlight(act'[r])
    <3>1. CASE act'[r] = NoActivity
      BY <3>1, NothingDone
    <3>2. CASE act'[r] = act[r] /\ (InFlight(act[r]) \/ r # wf.run)
      BY <3>2 DEF InHand
    <3>3. act'[r] = NoActivity \/ (act'[r] = act[r] /\ (InFlight(act[r]) \/ r # wf.run))
      BY <2>1 DEF LeavesBehind
    <3>4. QED BY <3>1, <3>2, <3>3
  <2>3. QED BY <1>4, <2>2 DEF InHand, Over
<1>5. CASE Quits
  BY <1>1, <1>5 DEF InHand, Quits, MyActivity
<1>6. CASE Asks
  <2>1. PICK a \in Activity : a.pc = "gate" /\ a.attempt = 0 /\ Schedule(a)
    BY <1>6 DEF Asks
  <2>2. wf.run \in Run /\ wf'.run = wf.run /\ wf'.pc = "opening" /\ wf.pc = "resolve"
    BY <1>1, <1>6 DEF Asks
  <2>3. act'[wf.run] = a /\ \A r \in Run : r # wf.run => act'[r] = act[r]
    BY <1>1, <2>1, <2>2, Scheduled
  <2>4. wf.run <= wf.run
    BY <1>1
  <2>5. QED BY <2>1, <2>2, <2>3, <2>4 DEF InHand, MyActivity, Opening
<1>7. CASE Answered \/ Wrapped
  <2>1. wf.run \in Run /\ wf'.run = wf.run /\ wf'.pc \in {"body", "drain", "idle"} /\ Schedule(NoActivity) /\ wf.pc # "idle"
    BY <1>1, <1>7 DEF Answered, Wrapped, Collect
  <2>2. act'[wf.run] = NoActivity /\ \A r \in Run : r # wf.run => act'[r] = act[r]
    BY <1>1, <2>1, Scheduled
  <2>3. QED BY <2>1, <2>2, NothingDone DEF InHand, MyActivity
<1>8. CASE Wraps
  <2>1. PICK a \in Activity : a.pc = "terminal" /\ a.attempt = 0 /\ Schedule(a)
    BY <1>8 DEF Wraps
  <2>2. wf.run \in Run /\ wf'.run = wf.run /\ wf'.pc = "settling" /\ wf.pc = "body"
    BY <1>1, <1>8 DEF Wraps
  <2>3. act'[wf.run] = a /\ \A r \in Run : r # wf.run => act'[r] = act[r]
    BY <1>1, <2>1, <2>2, Scheduled
  <2>4. wf.run <= wf.run
    BY <1>1
  <2>5. QED BY <2>1, <2>2, <2>3, <2>4 DEF InHand, MyActivity, Closing
<1>9. CASE Winds
  BY <1>1, <1>9 DEF InHand, Winds, MyActivity
<1>10. QED
  BY <1>2, <1>3, <1>4, <1>5, <1>6, <1>7, <1>8, <1>9, Turns, ActivityInHand

-----------------------------------------------------------------------------
(* What the rows, the jobs and the claims say of each other.               *)

\* A row, once there, stays; an open one was open or new.
LEMMA RowsStay ==
  ASSUME SuiteInv, [SuiteNext]_suiteVars, NEW s \in Snapshot
  PROVE  /\ status[s] # "absent" => status'[s] # "absent" /\ row'[s] = row[s]
         /\ status'[s] = "processing" => status[s] \in {"processing", "absent"}
<1>1. CASE UNCHANGED suiteVars
  BY <1>1 DEF suiteVars
<1>2. ASSUME NEW x \in Snapshot, NEW b, NEW trigger, NEW head, NEW base, NEW src,
             CreateSnapshot(b, x, trigger, head, base, src)
      PROVE  /\ status[s] # "absent" => status'[s] # "absent" /\ row'[s] = row[s]
             /\ status'[s] = "processing" => status[s] \in {"processing", "absent"}
  BY <1>2 DEF CreateSnapshot, SuiteInv, SuiteTypeOK
<1>3. CASE \E x \in Snapshot : OpenAny(x)
  BY <1>2, <1>3 DEF OpenAny, OpenSnapshot, OpenEditSnapshot
<1>4. CASE \E x \in Snapshot : EditSuite(x)
  BY <1>4, EditIsAssign DEF Assign
<1>5. CASE \E x \in Snapshot : SettleSnapshot(x)
  BY <1>5 DEF SettleSnapshot, Promote, CloseSnapshot, CanClaimTerminal, SuiteInv, SuiteTypeOK
<1>6. QED BY <1>1, <1>3, <1>4, <1>5 DEF SuiteNext

\* What a terminal changes: the snapshot it settles, and the suite it replaces.
TerminalEffect(s, end) ==
    /\ status[s] = "processing" /\ pendingSnapshot[row[s].branch] = s /\ UNCHANGED row
    /\ status'[s] = end
    /\ \A x \in Snapshot \ {s} :
          \/ status'[x] = status[x]
          \/ end = "active" /\ status[x] = "active" /\ status'[x] = "superseded" /\ x = activeSnapshot[row[s].branch]
    /\ pendingSnapshot' = [pendingSnapshot EXCEPT ![row[s].branch] = NoSnapshot]
    /\ IF end = "active" THEN activeSnapshot' = [activeSnapshot EXCEPT ![row[s].branch] = s]
       ELSE UNCHANGED activeSnapshot

LEMMA Terminals ==
  ASSUME SuiteInv, NEW s \in Snapshot
  PROVE  /\ Promote(s) => TerminalEffect(s, "active")
         /\ \A outcome \in {"failed", "cancelled"} : CloseSnapshot(s, outcome) => TerminalEffect(s, outcome)
<1> USE DEF SuiteInv, SuiteTypeOK, CanClaimTerminal, TerminalEffect
<1>1. ASSUME Promote(s) PROVE TerminalEffect(s, "active")
  <2>1. row[s].branch \in Branch
    BY DEF Row
  <2>2. status[s] = "processing" /\ activeSnapshot[row[s].branch] # s
    BY <1>1, <2>1 DEF Promote, PointersAgree
  <2>3. \A x \in Snapshot : x = activeSnapshot[row[s].branch] => status[x] = "active"
    BY <2>1 DEF PointersAgree
  <2>4. QED BY <1>1, <2>2, <2>3 DEF Promote
<1>2. ASSUME NEW outcome \in {"failed", "cancelled"}, CloseSnapshot(s, outcome) PROVE TerminalEffect(s, outcome)
  BY <1>2 DEF CloseSnapshot
<1>3. QED BY <1>1, <1>2

\* The terminal of an activity's settlement.
End(a) == IF a.outcome = "succeeded" THEN "active" ELSE a.outcome

LEMMA RowSettled ==
  ASSUME PipelineInv, NEW r \in Run, NEW a \in Activity, NEW b \in Activity, Moves(r, a, b), SettlesRow(a, b)
  PROVE  a.snap \in Snapshot /\ a.outcome \in {"succeeded", "failed", "cancelled"} /\ TerminalEffect(a.snap, End(a))
<1>1. a.snap \in Snapshot /\ a.outcome \in {"succeeded", "failed", "cancelled"}
  BY DEF Moves, SettlesRow, ActivitySane, Activity, Outcome
<1>2. QED BY <1>1, Terminals DEF PipelineInv, SettlesRow, End

\* What edits do: a suite edit, a new snapshot, or the end of an edit session's own.
EditsPlans == UNCHANGED <<status, row, activeSnapshot, pendingSnapshot, edits>>
EditOpens(s) == status[s] = "absent" /\ OpenEditSnapshot(TheBranch, s) /\ edits' = edits + 1
EditSettles(s) ==
    /\ row[s].trigger = "MANUAL" /\ row[s].branch = TheBranch
    /\ Promote(s) \/ CloseSnapshot(s, "cancelled")
    /\ UNCHANGED edits

LEMMA EditKinds ==
  ASSUME PipelineInv, Edits
  PROVE  /\ UNCHANGED <<claimedBy, job, owner, wf, act, posted, producer, prHead, prLive>>
         /\ EditsPlans \/ \E s \in Snapshot : EditOpens(s) \/ EditSettles(s)
<1>1. SuiteInv /\ WorkflowSane
  BY DEF PipelineInv
<1>2. UNCHANGED <<claimedBy, job, owner, wf, act, posted, producer, prHead, prLive>>
  BY DEF Edits, EditInBody, StartEdit, EditSession, runVars, OnlyEditor
<1>3. ASSUME NEW s \in Snapshot, EditSuite(s), UNCHANGED edits PROVE EditsPlans
  BY <1>1, <1>3, EditIsAssign DEF Assign, EditsPlans
<1>4. CASE EditInBody
  BY <1>1, <1>2, <1>3, <1>4 DEF EditInBody, WorkflowSane, runVars
<1>5. CASE StartEdit
  BY <1>2, <1>5, NewSnapshotExists DEF StartEdit, EditOpens
<1>6. CASE \E s \in Snapshot : EditSession(s)
  BY <1>2, <1>3, <1>6 DEF EditSession, EditSettles
<1>7. QED BY <1>2, <1>4, <1>5, <1>6 DEF Edits

LEMMA EditSettled ==
  ASSUME PipelineInv, NEW s \in Snapshot, EditSettles(s)
  PROVE  TerminalEffect(s, "active") \/ TerminalEffect(s, "cancelled")
  BY Terminals DEF PipelineInv, EditSettles

\* A step that opens no analysis leaves the books in order, if no snapshot is owned anew.
LEMMA BooksKept ==
  ASSUME PipelineInv, Books, [SuiteNext]_suiteVars, UNCHANGED <<claimedBy, owner>>,
         \A s \in Snapshot : job'[s] = "none" <=> job[s] = "none",
         \A s \in Snapshot : status[s] = "absent" => status'[s] = "absent" \/ row'[s].trigger = "MANUAL",
         wf'.run \in Nat /\ wf.run <= wf'.run,
         wf'.pc = "resolve" => wf.run < wf'.run \/ wf.pc = "resolve"
  PROVE  Books'
<1>1. ASSUME NEW s \in Snapshot
      PROVE  /\ owner[s] <= wf'.run /\ (wf'.pc = "resolve" => owner[s] < wf'.run)
             /\ status'[s] = "absent" => owner[s] = 0 /\ job'[s] = "none"
             /\ job'[s] # "none" => row'[s].trigger = "WEBHOOK"
             /\ status'[s] = "processing" /\ row'[s].trigger = "WEBHOOK" => job'[s] # "none"
  <2>1. owner[s] \in Nat /\ wf.run \in Nat
    BY Constants DEF PipelineInv, TypeOK, Workflow
  <2>2. owner[s] <= wf'.run /\ (wf'.pc = "resolve" => owner[s] < wf'.run)
    BY <2>1 DEF Books
  <2>3. QED BY <2>2, RowsStay DEF Books, PipelineInv
<1>2. ASSUME NEW e \in Event, claimedBy[e] # NoSnapshot PROVE job'[claimedBy[e]] # "none"
  BY <1>2 DEF Books, PipelineInv, TypeOK
<1>3. QED BY <1>1, <1>2 DEF Books

\* An activity's step: a snapshot is opened with its owner, its job and its claims.
LEMMA BooksOpened ==
  ASSUME PipelineInv, Books, InHand, UNCHANGED wf, NEW r \in Run, NEW a \in Activity, NEW b \in Activity,
         a = act[r], Opens(r, a, b), [SuiteNext]_suiteVars
  PROVE  Books'
<1>1. PICK s \in Snapshot : /\ status[s] = "absent" /\ OpenSnapshot(TheBranch, s, a.head, a.src, BaselineHead)
                            /\ job' = [job EXCEPT ![s] = "running"] /\ owner' = [owner EXCEPT ![s] = r]
                            /\ claimedBy' = [e \in Event |-> IF Pending(e) THEN s ELSE claimedBy[e]]
  BY DEF Opens
<1>2. row'[s].trigger = "WEBHOOK" /\ status'[s] = "processing"
  BY <1>1 DEF OpenSnapshot, CreateSnapshot, PipelineInv, TypeOK, SuiteTypeOK
<1>3. owner' \in [Snapshot -> 0..MaxRun] /\ job' \in [Snapshot -> JobStatus] /\ r \in 0..MaxRun
  BY <1>1, Constants DEF PipelineInv, TypeOK, Run, JobStatus
<1>4. job'[s] = "running" /\ owner'[s] = r /\ \A x \in Snapshot : x # s => job'[x] = job[x] /\ owner'[x] = owner[x]
  BY <1>1, <1>3 DEF PipelineInv, TypeOK
<1>5. r <= wf.run /\ (wf.pc = "resolve" => r < wf.run)
  <2>1. a.pc = "open" /\ r \in Nat /\ wf.run \in Nat
    BY Constants DEF Opens, PipelineInv, TypeOK, Workflow, Run
  <2>2. r <= wf.run /\ (wf.pc = "resolve" => r # wf.run)
    BY <2>1 DEF InHand, MyActivity
  <2>3. QED BY <2>1, <2>2
<1>6. ASSUME NEW x \in Snapshot
      PROVE  /\ owner'[x] <= wf.run /\ (wf.pc = "resolve" => owner'[x] < wf.run)
             /\ status'[x] = "absent" => owner'[x] = 0 /\ job'[x] = "none"
             /\ job'[x] # "none" => row'[x].trigger = "WEBHOOK"
             /\ status'[x] = "processing" /\ row'[x].trigger = "WEBHOOK" => job'[x] # "none"
  <2>1. CASE x = s
    BY <1>2, <1>4, <1>5, <2>1
  <2>2. CASE x # s
    <3>1. status'[x] = status[x] /\ row'[x] = row[x] /\ owner'[x] = owner[x] /\ job'[x] = job[x]
      BY <1>1, <1>4, <2>2 DEF OpenSnapshot, CreateSnapshot, PipelineInv, TypeOK, SuiteTypeOK
    <3>2. QED BY <3>1 DEF Books
  <2>3. QED BY <2>1, <2>2
<1>7. ASSUME NEW e \in Event, claimedBy'[e] # NoSnapshot PROVE job'[claimedBy'[e]] # "none"
  <2>1. claimedBy'[e] = s \/ claimedBy'[e] = claimedBy[e]
    BY <1>1
  <2>2. CASE claimedBy'[e] = s
    BY <1>4, <2>2
  <2>3. CASE claimedBy'[e] = claimedBy[e]
    <3>1. claimedBy[e] \in Snapshot /\ job[claimedBy[e]] # "none"
      BY <1>7, <2>3 DEF Books, PipelineInv, TypeOK
    <3>2. QED BY <1>4, <2>3, <3>1
  <2>4. QED BY <2>1, <2>2, <2>3
<1>8. QED BY <1>6, <1>7 DEF Books

LEMMA BooksStep ==
  ASSUME PipelineInv, Books, InHand, [Next]_vars
  PROVE  Books'
<1>1. [SuiteNext]_suiteVars /\ wf.run \in Nat /\ SuiteInv
  BY PipelineStep, Constants DEF PipelineInv, TypeOK, Workflow
<1>2. CASE \E r \in Run : ActivityStep(r) \/ CrashActivity(r)
  <2>1. PICK r \in Run : ActivityStep(r) \/ CrashActivity(r)
    BY <1>2
  <2>2. PICK a, b \in Activity : Moves(r, a, b)
    BY <2>1, ActivityMoves
  <2>3. UNCHANGED wf
    BY <2>1, ActivityMoves
  <2>4. CASE Opens(r, a, b)
    BY <1>1, <2>2, <2>3, <2>4, BooksOpened DEF Moves
  <2>5. CASE Still \/ SettlesRow(a, b) \/ ClosesJob(a, b)
    <3>1. UNCHANGED <<claimedBy, owner>>
      BY <2>5 DEF Still, SettlesRow, ClosesJob
    <3>2. \A s \in Snapshot : job'[s] = "none" <=> job[s] = "none"
      BY <2>5 DEF Still, SettlesRow, ClosesJob, PipelineInv, TypeOK
    <3>3. \A s \in Snapshot : status[s] = "absent" => status'[s] = "absent"
      <4>1. CASE SettlesRow(a, b)
        BY <2>2, <4>1, RowSettled DEF TerminalEffect
      <4>2. CASE Still \/ ClosesJob(a, b)
        BY <4>2 DEF Still, ClosesJob, suiteVars
      <4>3. QED BY <2>5, <4>1, <4>2
    <3>4. wf'.run \in Nat /\ wf.run <= wf'.run /\ (wf'.pc = "resolve" => wf.pc = "resolve")
      BY <1>1, <2>3
    <3>5. QED BY <1>1, <3>1, <3>2, <3>3, <3>4, BooksKept
  <2>6. QED BY <2>2, <2>4, <2>5 DEF Moves
<1>3. CASE Edits
  <2>1. UNCHANGED <<claimedBy, job, owner, wf>>
    BY <1>3, EditKinds
  <2>2. \A s \in Snapshot : status[s] = "absent" => status'[s] = "absent" \/ row'[s].trigger = "MANUAL"
    <3>1. CASE EditsPlans
      BY <3>1 DEF EditsPlans
    <3>2. CASE \E s \in Snapshot : EditOpens(s)
      BY <3>2 DEF EditOpens, OpenEditSnapshot, CreateSnapshot, PipelineInv, SuiteInv, SuiteTypeOK
    <3>3. CASE \E s \in Snapshot : EditSettles(s)
      BY <3>3, EditSettled DEF TerminalEffect
    <3>4. QED BY <1>3, <3>1, <3>2, <3>3, EditKinds
  <2>3. wf'.run \in Nat /\ wf.run <= wf'.run /\ (wf'.pc = "resolve" => wf.pc = "resolve")
    BY <1>1, <2>1
  <2>4. QED BY <1>1, <2>1, <2>2, <2>3, BooksKept
<1>4. CASE Still /\ ((wf'.run = wf.run /\ (wf'.pc = "resolve" => wf.pc = "resolve")) \/ wf'.run = wf.run + 1)
  <2>1. UNCHANGED <<claimedBy, job, owner, status>>
    BY <1>4 DEF Still, suiteVars
  <2>2. /\ wf'.run \in Nat /\ wf.run <= wf'.run
        /\ wf'.pc = "resolve" => wf.run < wf'.run \/ wf.pc = "resolve"
    BY <1>1, <1>4
  <2>3. QED BY <1>1, <2>1, <2>2, BooksKept
<1>5. CASE Aside \/ (SameStage /\ Flagged) \/ NewTurn \/ Over \/ Quits \/ Asks \/ Answered \/ Wraps \/ Wrapped \/ Winds
  BY <1>4, <1>5 DEF Aside, SameStage, Flagged, NewTurn, Starts, Over, Stops, Quits, Asks, Answered, Wraps, Wrapped, Winds
<1>6. QED BY <1>2, <1>3, <1>5, Turns

-----------------------------------------------------------------------------
(* Where the live run's snapshot is.                                       *)

LEMMA OwnSnapshotByActivity ==
  ASSUME PipelineInv, InHand, Books, OwnSnapshot, NEW r \in Run, ActivityStep(r) \/ CrashActivity(r)
  PROVE  OwnSnapshot'
<1>1. PICK a, b \in Activity : Moves(r, a, b)
  BY ActivityMoves
<1>2. UNCHANGED wf /\ act \in [Run -> Activity] /\ SuiteInv /\ (wf.pc # "idle" => wf.run \in Run) /\ a = act[r]
  BY <1>1, ActivityMoves DEF PipelineInv, TypeOK, WorkflowSane, Moves
<1>3. /\ \A x \in Run : x # r => act'[x] = act[x]
      /\ r = wf.run /\ wf.pc \in {"opening", "settling"} => act'[r] = b
  BY <1>1, <1>2, BecomesAt DEF Moves
<1>4. SUFFICES ASSUME NEW s \in Snapshot, status'[s] = "processing", owner'[s] = wf.run, wf.pc # "idle"
               PROVE  \/ wf.pc = "opening" /\ (act'[wf.run].pc = "failed" \/ (act'[wf.run].pc = "opened" /\ act'[wf.run].snap = s))
                      \/ wf.pc = "body" /\ wf.snap = s
                      \/ wf.pc = "settling" /\ (act'[wf.run].pc = "failed" \/ (act'[wf.run].pc = "terminal" /\ act'[wf.run].snap = s))
  BY <1>2 DEF OwnSnapshot, MyActivity
<1>5. CASE Opens(r, a, b)
  <2>1. PICK x \in Snapshot : /\ b.snap = x /\ status[x] = "absent" /\ status' = [status EXCEPT ![x] = "processing"]
                              /\ owner' = [owner EXCEPT ![x] = r] /\ a.pc = "open" /\ b.pc = "opened"
    BY <1>5 DEF Opens, OpenSnapshot, CreateSnapshot
  <2>2. CASE s = x
    <3>1. r = wf.run
      BY <1>4, <2>1, <2>2 DEF PipelineInv, TypeOK
    <3>2. wf.pc = "opening"
      BY <1>2, <1>4, <2>1, <3>1 DEF InHand, MyActivity, Closing, PipelineInv, TypeOK, Workflow
    <3>3. QED BY <1>3, <2>1, <2>2, <3>1, <3>2
  <2>3. CASE s # x
    <3>1. status[s] = "processing" /\ owner[s] = wf.run
      BY <1>4, <2>1, <2>3 DEF PipelineInv, TypeOK, SuiteInv, SuiteTypeOK
    <3>2. CASE r = wf.run
      BY <1>2, <1>4, <2>1, <3>1, <3>2 DEF OwnSnapshot, InHand, MyActivity
    <3>3. CASE r # wf.run
      BY <1>2, <1>3, <1>4, <3>1, <3>3 DEF OwnSnapshot, MyActivity
    <3>4. QED BY <3>2, <3>3
  <2>4. QED BY <2>2, <2>3
<1>6. CASE ~Opens(r, a, b)
  <2>1. status[s] = "processing" /\ owner[s] = wf.run
    <3>1. CASE SettlesRow(a, b)
      <4>1. TerminalEffect(a.snap, End(a)) /\ End(a) # "processing" /\ UNCHANGED owner
        BY <1>1, <3>1, RowSettled DEF SettlesRow, End
      <4>2. QED BY <1>4, <4>1 DEF TerminalEffect
    <3>2. CASE Still \/ ClosesJob(a, b)
      BY <1>4, <3>2 DEF Still, ClosesJob, suiteVars
    <3>3. QED BY <1>1, <1>6, <3>1, <3>2 DEF Moves
  <2>2. CASE r # wf.run
    BY <1>2, <1>3, <1>4, <2>1, <2>2 DEF OwnSnapshot, MyActivity
  <2>3. CASE r = wf.run
    <3>1. \/ wf.pc = "opening" /\ (a.pc = "failed" \/ (a.pc = "opened" /\ a.snap = s))
          \/ wf.pc = "body" /\ wf.snap = s
          \/ wf.pc = "settling" /\ (a.pc = "failed" \/ (a.pc = "terminal" /\ a.snap = s))
      BY <1>2, <1>4, <2>1, <2>3 DEF OwnSnapshot, MyActivity
    <3>2. CASE Dies(a, b)
      BY <1>3, <2>3, <3>1, <3>2 DEF Dies
    <3>3. CASE Still /\ Reads(a, b)
      <4>1. ~(a.pc = "terminal" /\ a.snap = s /\ ~CanClaimTerminal(a.snap))
        BY <1>2, <2>1 DEF CanClaimTerminal, SuiteInv, SuiteTypeOK, Row, PointersAgree
      <4>2. QED BY <3>1, <3>3, <4>1, <1>2, <1>4, <2>3 DEF Reads, InHand, MyActivity
    <3>4. CASE SettlesRow(a, b)
      <4>1. a.snap # s /\ a.pc = "terminal"
        BY <1>1, <1>4, <3>4, RowSettled DEF TerminalEffect, End, SettlesRow
      <4>2. QED BY <1>2, <1>4, <2>3, <3>1, <4>1 DEF InHand, MyActivity
    <3>5. CASE ClosesJob(a, b)
      BY <1>2, <1>4, <2>3, <3>1, <3>5 DEF ClosesJob, InHand, MyActivity
    <3>6. QED BY <1>1, <1>6, <3>2, <3>3, <3>4, <3>5 DEF Moves
  <2>4. QED BY <2>2, <2>3
<1>7. QED BY <1>5, <1>6

LEMMA OwnSnapshotStep ==
  ASSUME PipelineInv, InHand, Books, OwnSnapshot, [Next]_vars
  PROVE  OwnSnapshot'
<1>1. /\ act \in [Run -> Activity] /\ wf.run \in Nat /\ SuiteInv
      /\ wf.pc # "idle" => wf.run \in Run
      /\ \A s \in Snapshot : owner[s] \in Nat
  BY Constants DEF PipelineInv, TypeOK, WorkflowSane, Workflow
<1>2. CASE Aside \/ (SameStage /\ Flagged)
  BY <1>2 DEF OwnSnapshot, Aside, SameStage, Flagged, Still, suiteVars, MyActivity
<1>3. CASE SameStage /\ Edits
  <2>1. UNCHANGED <<owner, act, wf>>
    BY <1>3, EditKinds
  <2>2. \A s \in Snapshot : status'[s] = "processing" => status[s] = "processing" \/ owner[s] = 0
    BY PipelineStep, RowsStay DEF Books, PipelineInv
  <2>3. wf.run = 0 => wf.pc = "idle"
    BY <1>1 DEF Run
  <2>4. QED BY <2>1, <2>2, <2>3 DEF OwnSnapshot, MyActivity
<1>4. CASE Still /\ wf'.pc = "resolve" /\ wf'.run = wf.run + 1
  <2>1. ASSUME NEW s \in Snapshot PROVE owner'[s] # wf'.run
    BY <1>1, <1>4 DEF Still, Books
  <2>2. QED BY <2>1 DEF OwnSnapshot
<1>5. CASE wf'.pc = "idle"
  BY <1>5 DEF OwnSnapshot
<1>6. CASE Asks
  <2>1. ASSUME NEW s \in Snapshot PROVE owner'[s] # wf'.run
    BY <1>1, <1>6 DEF Asks, Still, Books
  <2>2. QED BY <2>1 DEF OwnSnapshot
<1>7. CASE Answered
  BY <1>7 DEF OwnSnapshot, Answered, Still, suiteVars
<1>8. CASE Wraps
  <2>1. PICK a \in Activity : a.pc = "terminal" /\ a.snap = wf.snap /\ Schedule(a)
    BY <1>8 DEF Wraps
  <2>2. wf'.run = wf.run /\ wf'.pc = "settling" /\ wf.pc = "body" /\ UNCHANGED <<status, owner>>
    BY <1>8 DEF Wraps, Still, suiteVars
  <2>3. act'[wf.run] = a
    BY <1>1, <2>1, <2>2, Scheduled
  <2>4. QED BY <2>1, <2>2, <2>3 DEF OwnSnapshot, MyActivity
<1>9. CASE Wrapped
  BY <1>9 DEF OwnSnapshot, Wrapped, Still, suiteVars
<1>10. CASE Winds
  BY <1>10 DEF OwnSnapshot, Winds, Still, suiteVars
<1>11. QED
  BY <1>2, <1>3, <1>4, <1>5, <1>6, <1>7, <1>8, <1>9, <1>10, Turns, OwnSnapshotByActivity DEF NewTurn, Starts, Over, Stops, Quits

LEMMA OrderStep == OrderInv /\ [Next]_vars => OrderInv'
  BY PipelineStep, InHandStep, BooksStep, OwnSnapshotStep DEF OrderInv

LEMMA OrderInit == Init => OrderInv
<1> SUFFICES ASSUME Init PROVE OrderInv
  OBVIOUS
<1>1. InHand
  BY NothingDone DEF Init, InHand, NoRun, MyActivity
<1>2. Books /\ OwnSnapshot
  BY DEF Init, Books, OwnSnapshot, NoRun, BlankRow
<1>3. QED BY <1>1, <1>2, PipelineInit DEF OrderInv

LEMMA OrderInvariant == Spec => []OrderInv
  BY OrderInit, OrderStep, PTL DEF Spec

\* A run goes on to the inbox only when no snapshot it opened is still open, whoever closed
\* it: its own settlement, a run that superseded it, or nobody because it never opened one
\* (runAnalysisRunOnce's last comment).  No failure, no overlap and no cancellation breaks it.
THEOREM DrainsAfterSettling == Spec => []DrainsOnlySettled
<1>1. OrderInv => DrainsOnlySettled
  BY DEF OrderInv, OwnSnapshot, DrainsOnlySettled
<1>2. QED BY <1>1, OrderInvariant, PTL

-----------------------------------------------------------------------------
(* Activities in flight.                                                   *)

\* The workflow schedules one, of the commit it resolved or to settle its snapshot; for the
\* rest, whatever is in flight goes on and nothing else starts.
Undisturbed == \A r \in Run : InFlight(act[r]) \/ InFlight(act'[r]) => act'[r] = act[r]
Launched(a) ==
    /\ wf.run \in Run /\ act[wf.run].pc = "none" /\ act'[wf.run] = a
    /\ \A r \in Run : r # wf.run => act'[r] = act[r]
Launches(a) ==
    /\ Launched(a) /\ Still /\ wf'.run = wf.run
    /\ \/ /\ ResolveHead /\ wf.pc = "resolve" /\ wf'.pc = "opening" /\ a.pc = "gate" /\ a.attempt = 0
          /\ a.head = IF HostsPreviews THEN prHead ELSE recordedHead
       \/ /\ wf.pc = "body" /\ wf'.pc = "settling" /\ a.pc = "terminal" /\ a.attempt = 0 /\ a.snap = wf.snap
          /\ wf'.snap = wf.snap
          /\ \E outcome \in {"succeeded", "failed", "cancelled"} : SettleWith(outcome) /\ a.outcome = outcome
Rests == Aside \/ (SameStage /\ Flagged) \/ NewTurn \/ Over \/ Quits \/ Answered \/ Wrapped \/ Winds
EditsAside == SameStage /\ Edits /\ UNCHANGED <<claimedBy, job, owner, wf>>

LEMMA FlightKinds ==
  ASSUME PipelineInv, InHand, [Next]_vars
  PROVE  \/ Rests /\ Still /\ Undisturbed
         \/ EditsAside
         \/ \E a \in Activity : Launches(a)
         \/ \E r \in Run : ActivityStep(r) \/ CrashActivity(r)
<1>1. act \in [Run -> Activity] /\ (wf.pc # "idle" => wf.run \in Run)
  BY DEF PipelineInv, TypeOK, WorkflowSane
<1>2. ASSUME Aside \/ SameStage \/ Quits \/ Winds PROVE Undisturbed
  BY <1>2 DEF Aside, SameStage, Quits, Winds, Undisturbed
<1>3. ASSUME NewTurn \/ Over PROVE Undisturbed
  BY <1>1, <1>3, Abandoned, NothingDone DEF NewTurn, Over, LeavesBehind, Undisturbed
<1>4. ASSUME Answered \/ Wrapped PROVE Undisturbed
  <2>1. wf.run \in Run /\ Schedule(NoActivity) /\ ~InFlight(act[wf.run])
    BY <1>1, <1>4 DEF Answered, Wrapped, Collect, MyActivity, InFlight
  <2>2. act'[wf.run] = NoActivity /\ \A r \in Run : r # wf.run => act'[r] = act[r]
    BY <1>1, <2>1, Scheduled
  <2>3. QED BY <2>1, <2>2, NothingDone DEF Undisturbed
<1>5. CASE Asks
  <2>1. PICK a \in Activity : /\ a.pc = "gate" /\ a.attempt = 0
                              /\ a.head = (IF HostsPreviews THEN prHead ELSE recordedHead)
                              /\ Schedule(a)
    BY <1>5 DEF Asks
  <2>2. wf.run \in Run /\ act[wf.run].pc = "none"
    BY <1>1, <1>5 DEF Asks, InHand, MyActivity
  <2>3. Launched(a)
    BY <1>1, <2>1, <2>2, Scheduled DEF Launched
  <2>4. QED BY <1>5, <2>1, <2>3 DEF Asks, Launches
<1>6. CASE Wraps
  <2>1. PICK a \in Activity : /\ a.pc = "terminal" /\ a.attempt = 0 /\ a.snap = wf.snap /\ Schedule(a)
                              /\ \E outcome \in {"succeeded", "failed", "cancelled"} :
                                    SettleWith(outcome) /\ a.outcome = outcome
    BY <1>6 DEF Wraps
  <2>2. wf.run \in Run /\ act[wf.run].pc = "none"
    BY <1>1, <1>6 DEF Wraps, InHand, MyActivity
  <2>3. Launched(a)
    BY <1>1, <2>1, <2>2, Scheduled DEF Launched
  <2>4. QED BY <1>6, <2>1, <2>3 DEF Wraps, Launches
<1>7. Rests => Still
  BY DEF Rests, Aside, Flagged, NewTurn, Over, Starts, Stops, Quits, Answered, Wrapped, Winds
<1>8. QED
  BY <1>2, <1>3, <1>4, <1>5, <1>6, <1>7, Turns DEF Rests, EditsAside

\* An activity's step: what it becomes is kept while it is in flight, or waited for.
LEMMA MovesAlone ==
  ASSUME PipelineInv, NEW r \in Run, NEW a \in Activity, NEW b \in Activity, Moves(r, a, b)
  PROVE  /\ a = act[r] /\ \A x \in Run : x # r => act'[x] = act[x]
         /\ InFlight(b) => act'[r] = b
         /\ InFlight(act'[r]) => act'[r] = b
         /\ r = wf.run /\ wf.pc \in {"opening", "settling"} => act'[r] = b
         /\ act'[r] = b \/ act'[r] = NoActivity
  BY BecomesAt, NothingDone DEF Moves, PipelineInv, TypeOK

-----------------------------------------------------------------------------
(* The job of a snapshot, and the claims of a promoted run.                *)

\* A settlement that was torn stays so.
LEMMA TornStays ==
  ASSUME [Next]_vars
  PROVE  torn \subseteq torn'
<1>1. ASSUME NEW e \in Event, Occur(e) \/ Produce(e) \/ CrashProducer(e) PROVE UNCHANGED torn
  BY <1>1 DEF Occur, Produce, GateTrigger, AttachTrigger, RecordTrigger, Enqueue, Poke, CrashProducer, OnlyProducers
<1>2. ASSUME NEW r \in Run, ActivityStep(r) \/ CrashActivity(r) PROVE torn \subseteq torn'
  BY <1>2 DEF ActivityStep, OpenGate, Resolve, OpenRun, OpenBlocked, OpenMoved, SettleTerminal, CloseJob, CrashActivity,
              OnlyReads, OnlyActivity
<1>3. CASE \/ WorkflowStep \/ AttachPreview \/ EditInBody \/ BodyFails \/ BodyCancelled
           \/ StartEdit \/ \E s \in Snapshot : EditSession(s)
  BY <1>3 DEF WorkflowStep, ResolveHead, Opened, BodySucceeds, RunSettled, Drain, Exit, Cancelled, AttachPreview,
              EditInBody, BodyFails, BodyCancelled, SettleWith, OnlyWorkflow, StartEdit, EditSession, OnlyEditor, runVars
<1>4. CASE TimeOut \/ Cancel \/ ClosePullRequest \/ UNCHANGED vars
  BY <1>4 DEF TimeOut, Cancel, ClosePullRequest, vars, runVars
<1>5. QED BY <1>1, <1>2, <1>3, <1>4 DEF Next

LEMMA JobFollowsStep ==
  ASSUME OrderInv, JobFollowsSnapshot, [Next]_vars
  PROVE  JobFollowsSnapshot'
<1>1. PipelineInv /\ InHand /\ Books /\ TypeOK
  BY DEF OrderInv, PipelineInv
<1>2. SUFFICES ASSUME NEW s \in Snapshot, job'[s] = "running", status'[s] # "processing", s \notin torn'
               PROVE  \E x \in Run : act'[x].pc = "close" /\ act'[x].snap = s
  BY DEF JobFollowsSnapshot, HalfSettled, Closes
<1>0. \A x \in Snapshot : job[x] = "running" /\ status[x] # "processing" /\ x \notin torn' =>
         \E r \in Run : act[r].pc = "close" /\ act[r].snap = x
  BY TornStays DEF JobFollowsSnapshot, HalfSettled, Closes
<1>3. CASE Rests /\ Still /\ Undisturbed
  BY <1>0, <1>2, <1>3 DEF Still, suiteVars, Undisturbed, InFlight
<1>4. CASE EditsAside
  <2>1. UNCHANGED <<job, act>> /\ (EditsPlans \/ \E x \in Snapshot : EditOpens(x) \/ EditSettles(x))
    BY <1>1, <1>4, EditKinds DEF EditsAside
  <2>2. status[s] # "processing"
    <3>1. CASE EditsPlans
      BY <1>2, <3>1 DEF EditsPlans
    <3>2. CASE \E x \in Snapshot : EditOpens(x)
      BY <1>1, <1>2, <3>2 DEF EditOpens, OpenEditSnapshot, CreateSnapshot, TypeOK, SuiteTypeOK
    <3>3. ASSUME NEW x \in Snapshot, EditSettles(x) PROVE status[s] # "processing"
      <4>1. row[x].trigger # "WEBHOOK" /\ job[s] # "none"
        BY <1>2, <2>1, <3>3 DEF EditSettles
      <4>2. s # x
        BY <1>1, <4>1 DEF Books
      <4>3. status'[s] = status[s] \/ status[s] = "active"
        BY <1>1, <3>3, <4>2, EditSettled DEF TerminalEffect
      <4>4. QED BY <1>2, <4>3
    <3>4. QED BY <2>1, <3>1, <3>2, <3>3
  <2>3. QED BY <1>0, <1>2, <2>1, <2>2
<1>5. ASSUME NEW a \in Activity, Launches(a) PROVE \E x \in Run : act'[x].pc = "close" /\ act'[x].snap = s
  <2>1. job[s] = "running" /\ status[s] # "processing"
    BY <1>2, <1>5 DEF Launches, Still, suiteVars
  <2>2. PICK x \in Run : act[x].pc = "close" /\ act[x].snap = s
    BY <1>0, <1>2, <2>1
  <2>3. QED BY <1>5, <2>2 DEF Launches, Launched
<1>6. ASSUME NEW r \in Run, ActivityStep(r) \/ CrashActivity(r)
      PROVE  \E x \in Run : act'[x].pc = "close" /\ act'[x].snap = s
  <2>1. PICK a, b \in Activity : Moves(r, a, b)
    BY <1>1, <1>6, ActivityMoves
  <2>2. /\ a = act[r] /\ \A x \in Run : x # r => act'[x] = act[x]
        /\ b.pc = "close" => act'[r] = b
    BY <1>1, <2>1, MovesAlone DEF InFlight
  <2>3. ASSUME job[s] = "running", status[s] # "processing", a.pc # "close" \/ a.snap # s
        PROVE  \E x \in Run : act'[x].pc = "close" /\ act'[x].snap = s
    <3>1. PICK x \in Run : act[x].pc = "close" /\ act[x].snap = s
      BY <1>0, <1>2, <2>3
    <3>2. QED BY <2>2, <2>3, <3>1
  <2>4. CASE Still /\ Reads(a, b)
    <3>1. job[s] = "running" /\ status[s] # "processing" /\ a.pc # "close"
      BY <1>2, <2>4 DEF Still, suiteVars, Reads
    <3>2. QED BY <2>3, <3>1
  <2>5. CASE Opens(r, a, b)
    <3>1. job[s] = "running" /\ status[s] # "processing" /\ a.pc # "close"
      BY <1>1, <1>2, <2>5 DEF Opens, OpenSnapshot, CreateSnapshot, TypeOK, SuiteTypeOK
    <3>2. QED BY <2>3, <3>1
  <2>6. CASE SettlesRow(a, b)
    <3>1. /\ TerminalEffect(a.snap, End(a)) /\ UNCHANGED job /\ a.pc = "terminal"
          /\ b.pc = "close" /\ b.snap = a.snap
      BY <1>1, <2>1, <2>6, RowSettled DEF SettlesRow
    <3>2. CASE s = a.snap
      BY <2>2, <3>1, <3>2
    <3>3. CASE s # a.snap
      <4>1. job[s] = "running" /\ status[s] # "processing"
        BY <1>2, <3>1, <3>3 DEF TerminalEffect
      <4>2. QED BY <2>3, <3>1, <4>1
    <3>4. QED BY <3>2, <3>3
  <2>7. CASE ClosesJob(a, b)
    <3>1. job[s] = "running" /\ status[s] # "processing" /\ a.snap # s
      BY <1>1, <1>2, <2>7 DEF ClosesJob, suiteVars, TypeOK
    <3>2. QED BY <2>3, <3>1
  <2>8. CASE Still /\ Dies(a, b)
    <3>1. job[s] = "running" /\ status[s] # "processing" /\ (a.pc # "close" \/ a.snap # s)
      BY <1>2, <2>8 DEF Still, suiteVars, Dies
    <3>2. QED BY <2>3, <3>1
  <2>9. QED BY <2>1, <2>4, <2>5, <2>6, <2>7, <2>8 DEF Moves
<1>7. QED BY <1>1, <1>3, <1>4, <1>5, <1>6, FlightKinds

\* A settled snapshot's job is closed by the settlement that won the snapshot's terminal,
\* which is still at it even if the workflow that asked for it is gone - or died at it, for
\* which nothing makes up (settleAnalysisRunState).  However runs are displaced, cancelled,
\* timed out or lost, no other way leaves a settled snapshot with its job still running.
THEOREM JobsFollow == Spec => []JobFollowsSnapshot
<1>1. Init => JobFollowsSnapshot
  BY DEF Init, JobFollowsSnapshot
<1>2. OrderInv /\ JobFollowsSnapshot /\ [Next]_vars => JobFollowsSnapshot'
  BY JobFollowsStep
<1>3. QED BY <1>1, <1>2, OrderInvariant, PTL DEF Spec

\* A promoted snapshot's job is completed, or about to be, or its settlement died in between;
\* a failed job's snapshot, and one whose job is about to fail, was not promoted.
Outcomes ==
    /\ \A s \in Snapshot : status[s] \in {"active", "superseded"} /\ job[s] # "none" =>
          job[s] = "completed" \/ s \in torn \/ \E r \in Run : Closes(r, s) /\ act[r].outcome = "succeeded"
    /\ \A s \in Snapshot : job[s] = "failed" => status[s] \in {"failed", "cancelled"}
    /\ \A r \in Run, s \in Snapshot :
          Closes(r, s) /\ act[r].outcome # "succeeded" => status[s] \in {"failed", "cancelled"}

\* A step that starts no closing and settles no analysis keeps it.
LEMMA OutcomesKept ==
  ASSUME OrderInv, Outcomes, UNCHANGED job, torn \subseteq torn',
         \A r \in Run : act[r].pc = "close" \/ act'[r].pc = "close" => act'[r] = act[r],
         \A s \in Snapshot : job[s] # "none" =>
            \/ status'[s] = status[s]
            \/ status'[s] \notin {"active", "superseded"} /\ status[s] = "absent"
            \/ status[s] = "active" /\ status'[s] = "superseded",
         \A s \in Snapshot : status[s] \in {"failed", "cancelled"} => status'[s] = status[s]
  PROVE  Outcomes'
<1>1. ASSUME NEW s \in Snapshot, status'[s] \in {"active", "superseded"}, job[s] # "none", job[s] # "completed",
             s \notin torn'
      PROVE  \E r \in Run : act'[r].pc = "close" /\ act'[r].snap = s /\ act'[r].outcome = "succeeded"
  BY <1>1 DEF Outcomes, Closes
<1>2. ASSUME NEW s \in Snapshot, job[s] = "failed" PROVE status'[s] \in {"failed", "cancelled"}
  BY <1>2 DEF Outcomes
<1>3. ASSUME NEW r \in Run, NEW s \in Snapshot, act'[r].pc = "close", act'[r].snap = s, act'[r].outcome # "succeeded"
      PROVE  status'[s] \in {"failed", "cancelled"}
  BY <1>3 DEF Outcomes, Closes
<1>4. QED BY <1>1, <1>2, <1>3 DEF Outcomes, Closes

LEMMA OutcomesByActivity ==
  ASSUME [Next]_vars, OrderInv, Outcomes, NEW r \in Run, ActivityStep(r) \/ CrashActivity(r)
  PROVE  Outcomes'
<1>1. PipelineInv /\ InHand /\ Books /\ TypeOK /\ torn \subseteq torn'
  BY TornStays DEF OrderInv, PipelineInv
<1>2. PICK a, b \in Activity : Moves(r, a, b)
  BY <1>1, ActivityMoves
<1>3. /\ a = act[r] /\ \A x \in Run : x # r => act'[x] = act[x]
      /\ b.pc = "close" => act'[r] = b
      /\ act'[r].pc = "close" => act'[r] = b
  BY <1>1, <1>2, MovesAlone, NothingDone DEF InFlight
<1>4. CASE Still /\ Reads(a, b)
  <2>1. a.pc # "close" /\ b.pc # "close" /\ UNCHANGED <<job, status>>
    BY <1>4, RetryType DEF Reads, Still, suiteVars
  <2>2. QED BY <1>1, <1>3, <2>1, OutcomesKept
<1>5. CASE Opens(r, a, b)
  <2>1. PICK s \in Snapshot : /\ status[s] = "absent" /\ status' = [status EXCEPT ![s] = "processing"]
                              /\ job' = [job EXCEPT ![s] = "running"] /\ a.pc = "open" /\ b.pc = "opened"
    BY <1>5 DEF Opens, OpenSnapshot, CreateSnapshot
  <2>2. \A x \in Run : act'[x].pc = "close" \/ act[x].pc = "close" => act'[x] = act[x]
    BY <1>3, <2>1
  <2>3. ASSUME NEW x \in Snapshot, x # s
        PROVE  status'[x] = status[x] /\ job'[x] = job[x]
    BY <1>1, <2>1, <2>3 DEF TypeOK, SuiteTypeOK
  <2>4. status'[s] = "processing" /\ job'[s] = "running"
    BY <1>1, <2>1 DEF TypeOK, SuiteTypeOK
  <2>5. \A x \in Snapshot : status[x] \in {"failed", "cancelled"} => status'[x] = status[x]
    BY <2>1, <2>3
  <2>6. QED BY <1>1, <2>2, <2>3, <2>4, <2>5 DEF Outcomes, Closes
<1>6. CASE SettlesRow(a, b)
  <2>1. /\ a.snap \in Snapshot /\ TerminalEffect(a.snap, End(a)) /\ UNCHANGED job /\ a.pc = "terminal"
        /\ b.pc = "close" /\ b.snap = a.snap /\ b.outcome = a.outcome
        /\ a.outcome \in {"succeeded", "failed", "cancelled"}
    BY <1>1, <1>2, <1>6, RowSettled DEF SettlesRow
  <2>2. act'[r] = b
    BY <1>3, <2>1
  <2>3. ASSUME NEW s \in Snapshot, status'[s] \in {"active", "superseded"}, job[s] # "none", job[s] # "completed",
               s \notin torn'
        PROVE  \E x \in Run : act'[x].pc = "close" /\ act'[x].snap = s /\ act'[x].outcome = "succeeded"
    <3>1. CASE s = a.snap
      BY <2>1, <2>2, <2>3, <3>1 DEF TerminalEffect, End
    <3>2. CASE s # a.snap
      <4>1. status[s] \in {"active", "superseded"}
        BY <2>1, <2>3, <3>2 DEF TerminalEffect
      <4>2. PICK x \in Run : Closes(x, s) /\ act[x].outcome = "succeeded"
        BY <1>1, <2>3, <4>1 DEF Outcomes
      <4>3. QED BY <1>3, <2>1, <4>2 DEF Closes
    <3>3. QED BY <3>1, <3>2
  <2>4. ASSUME NEW s \in Snapshot, job[s] = "failed" PROVE status'[s] \in {"failed", "cancelled"}
    <3>1. status[s] \in {"failed", "cancelled"}
      BY <2>4 DEF Outcomes
    <3>2. QED BY <2>1, <3>1 DEF TerminalEffect
  <2>5. ASSUME NEW x \in Run, NEW s \in Snapshot, act'[x].pc = "close", act'[x].snap = s, act'[x].outcome # "succeeded"
        PROVE  status'[s] \in {"failed", "cancelled"}
    <3>1. CASE x = r
      BY <2>1, <2>2, <2>5, <3>1 DEF TerminalEffect, End
    <3>2. CASE x # r
      <4>1. status[s] \in {"failed", "cancelled"}
        BY <1>3, <2>5, <3>2 DEF Outcomes, Closes
      <4>2. QED BY <2>1, <4>1 DEF TerminalEffect
    <3>3. QED BY <3>1, <3>2
  <2>6. QED BY <2>1, <2>3, <2>4, <2>5 DEF Outcomes, Closes
<1>7. CASE ClosesJob(a, b)
  <2>1. /\ a.pc = "close" /\ b.pc # "close" /\ UNCHANGED status /\ a.snap \in Snapshot
        /\ job' = [job EXCEPT ![a.snap] =
              IF @ # "running" THEN @ ELSE IF a.outcome = "succeeded" THEN "completed" ELSE "failed"]
    BY <1>2, <1>7, RetryType DEF ClosesJob, suiteVars, Moves, ActivitySane
  <2>2. act'[r].pc # "close"
    BY <1>3, <2>1
  <2>3. ASSUME NEW s \in Snapshot
        PROVE  /\ job'[s] = job[s] \/ (s = a.snap /\ job[s] = "running")
               /\ job[s] = "running" /\ s = a.snap =>
                    job'[s] = IF a.outcome = "succeeded" THEN "completed" ELSE "failed"
    BY <1>1, <2>1 DEF TypeOK
  <2>4. ASSUME NEW s \in Snapshot, status[s] \in {"active", "superseded"}, job'[s] # "none", job'[s] # "completed",
               s \notin torn'
        PROVE  \E x \in Run : act'[x].pc = "close" /\ act'[x].snap = s /\ act'[x].outcome = "succeeded"
    <3>1. job[s] # "none" /\ job[s] # "completed"
      BY <2>3, <2>4
    <3>2. PICK x \in Run : Closes(x, s) /\ act[x].outcome = "succeeded"
      BY <1>1, <2>4, <3>1 DEF Outcomes
    <3>3. job[s] = "running"
      BY <1>1, <2>4, <3>1 DEF Outcomes, TypeOK, JobStatus
    <3>4. x # r
      BY <1>3, <2>3, <2>4, <3>2, <3>3 DEF Closes
    <3>5. QED BY <1>3, <3>2, <3>4 DEF Closes
  <2>5. ASSUME NEW s \in Snapshot, job'[s] = "failed" PROVE status[s] \in {"failed", "cancelled"}
    BY <1>3, <2>1, <2>3, <2>5 DEF Outcomes, Closes
  <2>6. ASSUME NEW x \in Run, NEW s \in Snapshot, act'[x].pc = "close", act'[x].snap = s, act'[x].outcome # "succeeded"
        PROVE  status[s] \in {"failed", "cancelled"}
    BY <1>3, <2>2, <2>6 DEF Outcomes, Closes
  <2>7. QED BY <2>1, <2>4, <2>5, <2>6 DEF Outcomes, Closes
<1>8. CASE Still /\ Dies(a, b)
  <2>1. /\ UNCHANGED <<job, status>> /\ b.pc = "failed" /\ act'[r].pc # "close"
        /\ a.pc = "close" => a.snap \in torn'
    BY <1>3, <1>8 DEF Still, Dies, suiteVars
  <2>2. ASSUME NEW s \in Snapshot, status[s] \in {"active", "superseded"}, job[s] # "none", job[s] # "completed",
               s \notin torn'
        PROVE  \E x \in Run : act'[x].pc = "close" /\ act'[x].snap = s /\ act'[x].outcome = "succeeded"
    <3>1. PICK x \in Run : Closes(x, s) /\ act[x].outcome = "succeeded"
      BY <1>1, <2>2 DEF Outcomes
    <3>2. x # r
      BY <1>3, <2>1, <2>2, <3>1 DEF Closes
    <3>3. QED BY <1>3, <3>1, <3>2 DEF Closes
  <2>3. ASSUME NEW x \in Run, NEW s \in Snapshot, act'[x].pc = "close", act'[x].snap = s, act'[x].outcome # "succeeded"
        PROVE  status[s] \in {"failed", "cancelled"}
    BY <1>3, <2>1, <2>3 DEF Outcomes, Closes
  <2>4. QED BY <2>1, <2>2, <2>3 DEF Outcomes, Closes
<1>9. QED BY <1>2, <1>4, <1>5, <1>6, <1>7, <1>8 DEF Moves

LEMMA OutcomesStep ==
  ASSUME OrderInv, Outcomes, [Next]_vars
  PROVE  Outcomes'
<1>1. PipelineInv /\ InHand /\ Books /\ TypeOK /\ torn \subseteq torn'
  BY TornStays DEF OrderInv, PipelineInv
<1>2. CASE Rests /\ Still /\ Undisturbed
  BY <1>1, <1>2, OutcomesKept DEF Still, suiteVars, Undisturbed, InFlight
<1>3. CASE EditsAside
  <2>1. UNCHANGED <<job, act>> /\ (EditsPlans \/ \E x \in Snapshot : EditOpens(x) \/ EditSettles(x))
    BY <1>1, <1>3, EditKinds DEF EditsAside
  <2>2. \A s \in Snapshot : status[s] \in {"failed", "cancelled"} => status'[s] = status[s]
    <3>1. ASSUME NEW s \in Snapshot, status[s] \in {"failed", "cancelled"} PROVE status'[s] = status[s]
      BY <1>1, <3>1, PipelineStep, StepKeepsSettled DEF PipelineInv, KeepsSettled, Terminal
    <3>2. QED BY <3>1
  <2>3. ASSUME NEW s \in Snapshot, job[s] # "none"
        PROVE  \/ status'[s] = status[s]
               \/ status'[s] \notin {"active", "superseded"} /\ status[s] = "absent"
               \/ status[s] = "active" /\ status'[s] = "superseded"
    <3>1. CASE EditsPlans
      BY <3>1 DEF EditsPlans
    <3>2. CASE \E x \in Snapshot : EditOpens(x)
      BY <1>1, <3>2 DEF EditOpens, OpenEditSnapshot, CreateSnapshot, TypeOK, SuiteTypeOK
    <3>3. ASSUME NEW x \in Snapshot, EditSettles(x)
          PROVE  status'[s] = status[s] \/ (status[s] = "active" /\ status'[s] = "superseded")
      <4>1. s # x
        BY <1>1, <2>3, <3>3 DEF Books, EditSettles
      <4>2. QED BY <1>1, <3>3, <4>1, EditSettled DEF TerminalEffect
    <3>4. QED BY <2>1, <3>1, <3>2, <3>3
  <2>4. QED BY <1>1, <2>1, <2>2, <2>3, OutcomesKept
<1>4. ASSUME NEW a \in Activity, Launches(a) PROVE Outcomes'
  <2>1. UNCHANGED <<job, status>>
    BY <1>4 DEF Launches, Still, suiteVars
  <2>2. \A r \in Run : act[r].pc = "close" \/ act'[r].pc = "close" => act'[r] = act[r]
    BY <1>4 DEF Launches, Launched
  <2>3. QED BY <1>1, <2>1, <2>2, OutcomesKept
<1>5. QED BY <1>1, <1>2, <1>3, <1>4, FlightKinds, OutcomesByActivity

\* What a promoted run analyzed is analyzed for good: no later run claims its events again
\* once the run's job is closed (pendingClause).  Until then a run that opens does reclaim
\* them, and so does any later run if the settlement died before it closed the job; nothing
\* else does, however runs overlap and whatever is cancelled, cut short or lost.
THEOREM HandledStays == Spec => HandledForGood
<1>1. Init => OrderInv /\ Outcomes
  BY OrderInit, Constants, NothingDone DEF Init, Outcomes, Closes
<1>2. OrderInv /\ Outcomes /\ [Next]_vars => (OrderInv /\ Outcomes)'
  BY OrderStep, OutcomesStep
<1>3. ASSUME OrderInv, Outcomes, [Next]_vars
      PROVE  \A e \in Event : Handled(e) => claimedBy'[e] = claimedBy[e] \/ HalfSettled(claimedBy[e])
  <2>1. PipelineInv /\ InHand /\ Books /\ TypeOK
    BY <1>3 DEF OrderInv, PipelineInv
  <2>2. SUFFICES ASSUME NEW e \in Event, Handled(e), claimedBy'[e] # claimedBy[e] PROVE HalfSettled(claimedBy[e])
    OBVIOUS
  <2>3. PICK r \in Run : ActivityStep(r) \/ CrashActivity(r)
    BY <1>3, <2>1, <2>2, FlightKinds DEF Still, EditsAside, Launches
  <2>4. PICK a, b \in Activity : Moves(r, a, b)
    BY <2>1, <2>3, ActivityMoves
  <2>5. Opens(r, a, b)
    BY <2>2, <2>4 DEF Moves, Still, SettlesRow, ClosesJob
  <2>6. Pending(e)
    BY <2>2, <2>5 DEF Opens
  <2>7. PICK s \in Snapshot : s = claimedBy[e] /\ status[s] \in {"active", "superseded"}
    BY <2>1, <2>2 DEF Handled, Promoted, TypeOK
  <2>8. job[s] # "completed" /\ job[s] # "none"
    BY <2>1, <2>2, <2>6, <2>7 DEF Pending, Handled, Books
  <2>9. QED BY <1>3, <2>7, <2>8 DEF Outcomes, HalfSettled
<1>4. QED BY <1>1, <1>2, <1>3, PTL DEF Spec, HandledForGood

-----------------------------------------------------------------------------
(* The commit the branch's suite was judged at.                            *)

ActiveHead == IF activeSnapshot[TheBranch] = NoSnapshot THEN NoSha ELSE row[activeSnapshot[TheBranch]].head
JudgedHead == IF ActiveHead = NoSha THEN BaselineHead ELSE ActiveHead

\* An edit session's snapshot is of the commit of the suite it edits.
EditsKeepHead ==
    \A p \in Snapshot : p = pendingSnapshot[TheBranch] /\ row[p].trigger = "MANUAL" => row[p].head = ActiveHead

\* The gate compares with it, and an open takes it for its base if its source is current.
LEMMA Judged ==
  ASSUME PipelineInv
  PROVE  /\ DeriveBaseSha(TheBranch, ResolveSource(TheBranch), BaselineHead) = JudgedHead
         /\ \A src \in Snapshot \cup {NoSnapshot} :
              SourceStillCurrent(TheBranch, src) => DeriveBaseSha(TheBranch, src, BaselineHead) = JudgedHead
<1> USE Constants DEF JudgedHead, DeriveBaseSha, OwnSource, ActiveHead, PipelineInv, SuiteInv, SuiteTypeOK
<1>1. CASE activeSnapshot[TheBranch] = NoSnapshot
  <2>1. activeSnapshot[MainBranch] # NoSnapshot => row[activeSnapshot[MainBranch]].branch # TheBranch
    BY <1>1 DEF PointersAgree
  <2>2. ResolveSource(TheBranch) = activeSnapshot[MainBranch]
    BY <1>1 DEF ResolveSource
  <2>3. JudgedHead = BaselineHead /\ DeriveBaseSha(TheBranch, ResolveSource(TheBranch), BaselineHead) = BaselineHead
    BY <1>1, <2>1, <2>2
  <2>4. \A src \in Snapshot \cup {NoSnapshot} :
           SourceStillCurrent(TheBranch, src) => DeriveBaseSha(TheBranch, src, BaselineHead) = BaselineHead
    BY <1>1 DEF SourceStillCurrent
  <2>5. QED BY <2>3, <2>4
<1>2. CASE activeSnapshot[TheBranch] # NoSnapshot
  <2>1. ResolveSource(TheBranch) = activeSnapshot[TheBranch] /\ row[activeSnapshot[TheBranch]].branch = TheBranch
    BY <1>2 DEF ResolveSource, PointersAgree
  <2>2. DeriveBaseSha(TheBranch, ResolveSource(TheBranch), BaselineHead) = JudgedHead
    BY <1>2, <2>1
  <2>3. \A src \in Snapshot \cup {NoSnapshot} : SourceStillCurrent(TheBranch, src) => src = activeSnapshot[TheBranch]
    BY <1>2 DEF SourceStillCurrent
  <2>4. QED BY <2>1, <2>2, <2>3
<1>3. QED BY <1>1, <1>2

\* Only the promotion of an analysis changes the commit the branch is judged at.
LEMMA EditKeepsActiveHead ==
  ASSUME PipelineInv, EditsKeepHead, EditsPlans \/ \E s \in Snapshot : EditOpens(s) \/ EditSettles(s)
  PROVE  ActiveHead' = ActiveHead
<1> USE Constants DEF PipelineInv, SuiteInv, SuiteTypeOK
<1>1. CASE EditsPlans
  BY <1>1 DEF EditsPlans, ActiveHead
<1>2. ASSUME NEW s \in Snapshot, EditOpens(s) PROVE ActiveHead' = ActiveHead
  <2>1. UNCHANGED activeSnapshot /\ activeSnapshot[TheBranch] # s
    BY <1>2 DEF EditOpens, OpenEditSnapshot, PointersAgree
  <2>2. \A x \in Snapshot : x # s => row'[x] = row[x]
    BY <1>2 DEF EditOpens, OpenEditSnapshot, CreateSnapshot
  <2>3. QED BY <2>1, <2>2 DEF ActiveHead
<1>3. ASSUME NEW s \in Snapshot, EditSettles(s) PROVE ActiveHead' = ActiveHead
  <2>1. row[s].head = ActiveHead /\ row[s].branch = TheBranch
    BY <1>3, EditSettled DEF EditSettles, TerminalEffect, EditsKeepHead
  <2>2. CASE TerminalEffect(s, "active")
    BY <2>1, <2>2 DEF TerminalEffect, ActiveHead
  <2>3. CASE TerminalEffect(s, "cancelled")
    BY <2>3 DEF TerminalEffect, ActiveHead
  <2>4. QED BY <1>3, <2>2, <2>3, EditSettled
<1>4. QED BY <1>1, <1>2, <1>3

LEMMA ActivityKeepsActiveHead ==
  ASSUME PipelineInv, NEW r \in Run, NEW a \in Activity, NEW b \in Activity, Moves(r, a, b)
  PROVE  \/ ActiveHead' = ActiveHead
         \/ /\ SettlesRow(a, b) /\ a.outcome = "succeeded" /\ row[a.snap].branch = TheBranch
            /\ pendingSnapshot[TheBranch] = a.snap /\ activeSnapshot' = [activeSnapshot EXCEPT ![TheBranch] = a.snap]
            /\ UNCHANGED row
<1> USE Constants DEF PipelineInv, SuiteInv, SuiteTypeOK
<1>1. CASE Opens(r, a, b)
  <2>1. PICK s \in Snapshot : OpenSnapshot(TheBranch, s, a.head, a.src, BaselineHead) /\ status[s] = "absent"
    BY <1>1 DEF Opens
  <2>2. UNCHANGED activeSnapshot /\ activeSnapshot[TheBranch] # s
    BY <2>1 DEF OpenSnapshot, PointersAgree
  <2>3. \A x \in Snapshot : x # s => row'[x] = row[x]
    BY <2>1 DEF OpenSnapshot, CreateSnapshot
  <2>4. QED BY <2>2, <2>3 DEF ActiveHead
<1>2. CASE SettlesRow(a, b)
  <2>1. a.snap \in Snapshot /\ TerminalEffect(a.snap, End(a)) /\ (End(a) = "active" => a.outcome = "succeeded")
    BY <1>2, RowSettled DEF End
  <2>2. PICK c \in Branch : c = row[a.snap].branch
    BY <2>1 DEF Row
  <2>3. CASE c = TheBranch /\ End(a) = "active"
    BY <1>2, <2>1, <2>2, <2>3 DEF TerminalEffect
  <2>4. CASE ~(c = TheBranch /\ End(a) = "active")
    <3>1. UNCHANGED row /\ activeSnapshot'[TheBranch] = activeSnapshot[TheBranch]
      BY <2>1, <2>2, <2>4 DEF TerminalEffect
    <3>2. QED BY <3>1 DEF ActiveHead
  <2>5. QED BY <2>3, <2>4
<1>3. CASE Still \/ ClosesJob(a, b)
  BY <1>3 DEF Still, ClosesJob, suiteVars, ActiveHead
<1>4. QED BY <1>1, <1>2, <1>3 DEF Moves

LEMMA EditsKeepHeadStep ==
  ASSUME PipelineInv, InHand, EditsKeepHead, [Next]_vars
  PROVE  EditsKeepHead'
<1> USE Constants DEF PipelineInv, SuiteInv, SuiteTypeOK
<1>1. CASE Still
  BY <1>1 DEF Still, suiteVars, EditsKeepHead, ActiveHead
<1>2. CASE EditsAside
  <2>1. EditsPlans \/ \E s \in Snapshot : EditOpens(s) \/ EditSettles(s)
    BY <1>2, EditKinds DEF EditsAside
  <2>2. ActiveHead' = ActiveHead
    BY <2>1, EditKeepsActiveHead
  <2>3. CASE EditsPlans
    BY <2>2, <2>3 DEF EditsPlans, EditsKeepHead
  <2>4. ASSUME NEW s \in Snapshot, EditOpens(s) PROVE EditsKeepHead'
    <3>1. row'[s].head = ActiveHead /\ pendingSnapshot'[TheBranch] = s
      BY <2>4 DEF EditOpens, OpenEditSnapshot, CreateSnapshot, ActiveHead
    <3>2. QED BY <2>2, <3>1 DEF EditsKeepHead
  <2>5. ASSUME NEW s \in Snapshot, EditSettles(s) PROVE EditsKeepHead'
    <3>1. pendingSnapshot'[TheBranch] = NoSnapshot
      BY <2>5, EditSettled DEF EditSettles, TerminalEffect
    <3>2. QED BY <3>1 DEF EditsKeepHead
  <2>6. QED BY <2>1, <2>3, <2>4, <2>5
<1>3. ASSUME NEW r \in Run, NEW a \in Activity, NEW b \in Activity, Moves(r, a, b) PROVE EditsKeepHead'
  <2>1. CASE Opens(r, a, b)
    <3>1. PICK s \in Snapshot : OpenSnapshot(TheBranch, s, a.head, a.src, BaselineHead)
      BY <2>1 DEF Opens
    <3>2. row'[s].trigger = "WEBHOOK" /\ pendingSnapshot'[TheBranch] = s
      BY <3>1 DEF OpenSnapshot, CreateSnapshot
    <3>3. QED BY <3>2 DEF EditsKeepHead
  <2>2. CASE SettlesRow(a, b)
    <3>1. a.snap \in Snapshot /\ TerminalEffect(a.snap, End(a))
      BY <1>3, <2>2, RowSettled
    <3>2. PICK c \in Branch : c = row[a.snap].branch
      BY <3>1 DEF Row
    <3>3. CASE c = TheBranch
      BY <3>1, <3>2, <3>3 DEF TerminalEffect, EditsKeepHead
    <3>4. CASE c # TheBranch
      <4>1. /\ UNCHANGED row /\ activeSnapshot'[TheBranch] = activeSnapshot[TheBranch]
            /\ pendingSnapshot'[TheBranch] = pendingSnapshot[TheBranch]
        BY <3>1, <3>2, <3>4 DEF TerminalEffect
      <4>2. QED BY <4>1 DEF EditsKeepHead, ActiveHead
    <3>5. QED BY <3>3, <3>4
  <2>3. CASE Still \/ ClosesJob(a, b)
    BY <1>1, <2>3 DEF ClosesJob, suiteVars, EditsKeepHead, ActiveHead
  <2>4. QED BY <1>3, <2>1, <2>2, <2>3 DEF Moves
<1>4. QED BY <1>1, <1>2, <1>3, FlightKinds, ActivityMoves DEF Launches

-----------------------------------------------------------------------------
(* The commits a hosted pull request's suite moves through.                *)

UpTo(h, k) == h # NoSha /\ k # NoSha => h <= k

\* A snapshot a run has in hand, from its open to the settlement of its row.  What a
\* displaced run opens, and nobody collects, never is.
InCustody(s) ==
    \/ wf.pc = "opening" /\ MyActivity.pc = "opened" /\ MyActivity.snap = s
    \/ wf.pc = "body" /\ wf.snap = s
    \/ \E r \in Run : act[r].pc = "terminal" /\ act[r].attempt = 0 /\ act[r].snap = s

\* What a run's settlement may still promote, and what the live run is about to open.
Candidate(s) == InCustody(s) /\ pendingSnapshot[TheBranch] = s
Arriving == wf.pc = "opening" /\ Opening(MyActivity)

\* No snapshot is of a later commit than the head; a candidate is of no earlier one than the
\* active suite, and what the live run opens of no earlier one than either.
Heads ==
    /\ \A s \in Snapshot : row[s].branch = TheBranch => UpTo(row[s].head, prHead)
    /\ \A r \in Run : Opening(act[r]) => act[r].head <= prHead
    /\ \A s \in Snapshot : InCustody(s) => status[s] # "absent"
    /\ \A s \in Snapshot : Candidate(s) => UpTo(ActiveHead, row[s].head)
    /\ Arriving => /\ UpTo(ActiveHead, MyActivity.head)
                   /\ \A s \in Snapshot : Candidate(s) => UpTo(row[s].head, MyActivity.head)

HeadsInv == OrderInv /\ EditsKeepHead /\ Heads

\* GitHub's head only advances.
LEMMA HeadGrows ==
  ASSUME PipelineInv, [Next]_vars
  PROVE  prHead \in Nat /\ prHead' \in Nat /\ prHead <= prHead'
<1>1. prHead \in Nat /\ Sha \subseteq Nat
  BY RunAssumption DEF PipelineInv, TypeOK
<1>2. ASSUME NEW e \in Event, Occur(e) PROVE prHead' \in Nat /\ prHead <= prHead'
  BY <1>1, <1>2 DEF Occur
<1>3. ASSUME NEW e \in Event, Produce(e) \/ CrashProducer(e) PROVE UNCHANGED prHead
  BY <1>3 DEF Produce, GateTrigger, AttachTrigger, RecordTrigger, Enqueue, Poke, CrashProducer, OnlyProducers, OnlyUpset
<1>4. ASSUME NEW r \in Run, ActivityStep(r) \/ CrashActivity(r) PROVE UNCHANGED prHead
  BY <1>4, ActivityMoves
<1>5. ASSUME \/ WorkflowStep \/ AttachPreview \/ EditInBody \/ BodyFails \/ BodyCancelled
             \/ StartEdit \/ \E s \in Snapshot : EditSession(s)
      PROVE  UNCHANGED prHead
  BY <1>5 DEF WorkflowStep, ResolveHead, Opened, BodySucceeds, RunSettled, Drain, Exit, Cancelled, AttachPreview,
              EditInBody, BodyFails, BodyCancelled, SettleWith, OnlyWorkflow, StartEdit, EditSession, OnlyEditor, runVars
<1>6. ASSUME TimeOut \/ Cancel \/ ClosePullRequest \/ UNCHANGED vars PROVE UNCHANGED prHead
  BY <1>6 DEF TimeOut, Cancel, ClosePullRequest, OnlyUpset, vars, runVars
<1>7. QED BY <1>1, <1>2, <1>3, <1>4, <1>5, <1>6 DEF Next

\* The types of the heads compared.
LEMMA HeadTypes ==
  ASSUME PipelineInv
  PROVE  /\ ActiveHead \in Nat \cup {NoSha} /\ prHead \in Nat
         /\ \A s \in Snapshot : row[s].head \in Nat \cup {NoSha} /\ row[s].branch \in Branch
         /\ \A r \in Run : act[r].head \in Nat \cup {NoSha} /\ (Opening(act[r]) => act[r].head \in Nat /\ act[r].head # NoSha)
         /\ NoSha \notin Sha /\ Sha \subseteq Nat
<1>1. NoSha \notin Sha /\ Sha \subseteq Nat /\ TheBranch \in Branch
  BY RunAssumption, NullAssumption
<1>2. \A s \in Snapshot : row[s].head \in Nat \cup {NoSha} /\ row[s].branch \in Branch
  BY <1>1 DEF PipelineInv, TypeOK, SuiteTypeOK, Row
<1>3. ActiveHead \in Nat \cup {NoSha}
  BY <1>1, <1>2 DEF ActiveHead, PipelineInv, TypeOK, SuiteTypeOK
<1>4. ASSUME NEW r \in Run
      PROVE  act[r].head \in Nat \cup {NoSha} /\ (Opening(act[r]) => act[r].head \in Nat /\ act[r].head # NoSha)
  <2>1. PICK a \in Activity : a = act[r] /\ ActivitySane(a)
    BY ActivityValue
  <2>2. a.head \in Sha \cup {NoSha} /\ (Opening(a) => a.head \in Sha)
    BY <2>1 DEF Activity, ActivitySane, Opening
  <2>3. QED BY <1>1, <2>1, <2>2
<1>5. QED BY <1>1, <1>2, <1>3, <1>4 DEF PipelineInv, TypeOK

\* The active pointer of a branch only moves by a promotion, which leaves the rows alone.
LEMMA PromotionsOnly ==
  ASSUME SuiteInv, [SuiteNext]_suiteVars, NEW b \in Branch, activeSnapshot'[b] # activeSnapshot[b]
  PROVE  activeSnapshot'[b] \in Snapshot /\ UNCHANGED row
<1>1. PICK s \in Snapshot : Promote(s)
  <2>1. ASSUME NEW s \in Snapshot, OpenAny(s) PROVE UNCHANGED activeSnapshot
    BY <2>1 DEF OpenAny, OpenSnapshot, OpenEditSnapshot
  <2>2. ASSUME NEW s \in Snapshot, EditSuite(s) PROVE UNCHANGED activeSnapshot
    BY <2>2, EditIsAssign DEF Assign
  <2>3. QED BY <2>1, <2>2 DEF SuiteNext, SettleSnapshot, CloseSnapshot, suiteVars
<1>2. QED BY <1>1, Terminals DEF TerminalEffect, SuiteInv, SuiteTypeOK

\* A row is written by an edit session's start, or by a run's open.
LEMMA NewRows ==
  ASSUME PipelineInv, InHand, [Next]_vars, NEW s \in Snapshot
  PROVE  \/ row'[s] = row[s]
         \/ row'[s].head = ActiveHead
         \/ \E r \in Run : Opening(act[r]) /\ row'[s].head = act[r].head
<1>1. SuiteInv /\ TypeOK
  BY DEF PipelineInv
<1>2. CASE Still
  BY <1>2 DEF Still, suiteVars
<1>3. CASE EditsAside
  <2>1. EditsPlans \/ \E x \in Snapshot : EditOpens(x) \/ EditSettles(x)
    BY <1>3, EditKinds DEF EditsAside
  <2>2. ASSUME NEW x \in Snapshot, EditOpens(x) PROVE row'[s] = row[s] \/ row'[s].head = ActiveHead
    BY <1>1, <2>2 DEF EditOpens, OpenEditSnapshot, CreateSnapshot, ActiveHead, TypeOK, SuiteTypeOK
  <2>3. ASSUME NEW x \in Snapshot, EditSettles(x) PROVE row'[s] = row[s]
    BY <2>3, EditSettled DEF TerminalEffect
  <2>4. QED BY <2>1, <2>2, <2>3 DEF EditsPlans
<1>4. ASSUME NEW r \in Run, NEW a \in Activity, NEW b \in Activity, Moves(r, a, b)
      PROVE  row'[s] = row[s] \/ (Opening(act[r]) /\ row'[s].head = act[r].head)
  <2>1. CASE Opens(r, a, b)
    BY <1>1, <1>4, <2>1 DEF Opens, OpenSnapshot, CreateSnapshot, TypeOK, SuiteTypeOK, Opening, Moves
  <2>2. CASE SettlesRow(a, b)
    BY <1>4, <2>2, RowSettled DEF TerminalEffect
  <2>3. CASE Still \/ ClosesJob(a, b)
    BY <2>3 DEF Still, ClosesJob, suiteVars
  <2>4. QED BY <1>4, <2>1, <2>2, <2>3 DEF Moves
<1>5. QED BY <1>2, <1>3, <1>4, FlightKinds, ActivityMoves DEF Launches

\* What is pending was, or has just been opened.
LEMMA NewPending ==
  ASSUME PipelineInv, InHand, EditsKeepHead, [Next]_vars, NEW p \in Snapshot, p = pendingSnapshot'[TheBranch]
  PROVE  /\ ActiveHead' = ActiveHead
         /\ \/ p = pendingSnapshot[TheBranch] /\ row'[p] = row[p]
            \/ status[p] = "absent"
<1>1. SuiteInv /\ TypeOK /\ NoSnapshot \notin Snapshot
  BY Constants DEF PipelineInv
<1>2. CASE Still
  BY <1>2 DEF Still, suiteVars, ActiveHead
<1>3. CASE EditsAside
  <2>1. EditsPlans \/ \E x \in Snapshot : EditOpens(x) \/ EditSettles(x)
    BY <1>3, EditKinds DEF EditsAside
  <2>2. ActiveHead' = ActiveHead
    BY <2>1, EditKeepsActiveHead
  <2>3. ASSUME NEW x \in Snapshot, EditOpens(x) PROVE status[p] = "absent"
    BY <1>1, <2>3, Constants DEF EditOpens, OpenEditSnapshot, CreateSnapshot, TypeOK, SuiteTypeOK
  <2>4. ASSUME NEW x \in Snapshot, EditSettles(x) PROVE FALSE
    BY <1>1, <2>4, EditSettled, Constants DEF EditSettles, TerminalEffect, TypeOK, SuiteTypeOK
  <2>5. QED BY <2>1, <2>2, <2>3, <2>4 DEF EditsPlans
<1>4. ASSUME NEW r \in Run, NEW a \in Activity, NEW b \in Activity, Moves(r, a, b)
      PROVE  ActiveHead' = ActiveHead /\ ((p = pendingSnapshot[TheBranch] /\ row'[p] = row[p]) \/ status[p] = "absent")
  <2>1. CASE Opens(r, a, b)
    <3>1. status[p] = "absent"
      BY <1>1, <2>1, Constants DEF Opens, OpenSnapshot, CreateSnapshot, TypeOK, SuiteTypeOK
    <3>2. ~SettlesRow(a, b)
      BY <2>1 DEF Opens, SettlesRow
    <3>3. QED BY <1>4, <3>1, <3>2, ActivityKeepsActiveHead
  <2>2. CASE SettlesRow(a, b)
    <3>1. a.snap \in Snapshot /\ TerminalEffect(a.snap, End(a))
      BY <1>4, <2>2, RowSettled
    <3>2. PICK c \in Branch : c = row[a.snap].branch
      BY <1>1, <3>1 DEF TypeOK, SuiteTypeOK, Row
    <3>3. c # TheBranch
      BY <1>1, <3>1, <3>2, Constants DEF TerminalEffect, TypeOK, SuiteTypeOK
    <3>4. p = pendingSnapshot[TheBranch] /\ row'[p] = row[p]
      BY <1>1, <3>1, <3>2, <3>3, Constants DEF TerminalEffect, TypeOK, SuiteTypeOK
    <3>5. QED BY <1>4, <3>2, <3>3, <3>4, ActivityKeepsActiveHead
  <2>3. CASE Still \/ ClosesJob(a, b)
    BY <2>3 DEF Still, ClosesJob, suiteVars, ActiveHead
  <2>4. QED BY <1>4, <2>1, <2>2, <2>3 DEF Moves
<1>5. QED BY <1>2, <1>3, <1>4, FlightKinds, ActivityMoves DEF Launches

\* The active suite is of the commit it was, or of a candidate's.
LEMMA NewActive ==
  ASSUME PipelineInv, InHand, EditsKeepHead, [Next]_vars
  PROVE  ActiveHead' = ActiveHead \/ \E s \in Snapshot : Candidate(s) /\ ActiveHead' = row[s].head
<1>1. CASE Still
  BY <1>1 DEF Still, suiteVars, ActiveHead
<1>2. CASE EditsAside
  BY <1>2, EditKinds, EditKeepsActiveHead DEF EditsAside
<1>3. ASSUME NEW r \in Run, NEW a \in Activity, NEW b \in Activity, Moves(r, a, b)
      PROVE  ActiveHead' = ActiveHead \/ \E s \in Snapshot : Candidate(s) /\ ActiveHead' = row[s].head
  <2>1. SUFFICES ASSUME SettlesRow(a, b), a.outcome = "succeeded", pendingSnapshot[TheBranch] = a.snap,
                        activeSnapshot' = [activeSnapshot EXCEPT ![TheBranch] = a.snap], UNCHANGED row
                 PROVE  Candidate(a.snap) /\ ActiveHead' = row[a.snap].head /\ a.snap \in Snapshot
    BY <1>3, ActivityKeepsActiveHead
  <2>2. a.snap \in Snapshot /\ a = act[r] /\ a.pc = "terminal"
    BY <1>3, <2>1, RowSettled DEF Moves, SettlesRow
  <2>3. a.attempt = 0
    BY <2>1, <2>2 DEF InHand, Activity
  <2>4. activeSnapshot'[TheBranch] = a.snap /\ a.snap # NoSnapshot
    BY <2>1, <2>2, Constants DEF PipelineInv, SuiteInv, SuiteTypeOK
  <2>5. QED BY <2>1, <2>2, <2>3, <2>4 DEF Candidate, InCustody, ActiveHead
<1>4. QED BY <1>1, <1>2, <1>3, FlightKinds, ActivityMoves DEF Launches

\* What is on its way to open was, or has just been scheduled by the live run.
LEMMA NewOpening ==
  ASSUME PipelineInv, InHand, [Next]_vars, NEW r \in Run, Opening(act'[r])
  PROVE  \/ Opening(act[r]) /\ act'[r].head = act[r].head /\ (Arriving' /\ r = wf'.run => Arriving /\ wf'.run = wf.run)
         \/ /\ Still /\ wf.pc = "resolve" /\ wf'.run = wf.run
            /\ act'[r].head = (IF HostsPreviews THEN prHead ELSE recordedHead)
<1>1. wf.pc # "idle" => wf.run \in Run
  BY DEF PipelineInv, WorkflowSane
<1>2. CASE Rests /\ Still /\ Undisturbed
  <2>1. act'[r] = act[r] /\ Opening(act[r])
    BY <1>2 DEF Undisturbed, Opening, InFlight
  <2>2. wf'.pc = "opening" /\ r = wf'.run => wf.pc = "opening" /\ wf'.run = wf.run
    BY <1>2 DEF Rests, Aside, SameStage, NewTurn, Over, Quits, Answered, Wrapped, Winds
  <2>3. QED BY <2>1, <2>2 DEF Arriving, MyActivity
<1>3. CASE EditsAside
  BY <1>3 DEF EditsAside, SameStage, Arriving, MyActivity
<1>4. ASSUME NEW a \in Activity, Launches(a)
      PROVE  \/ Opening(act[r]) /\ act'[r].head = act[r].head /\ r # wf'.run
             \/ /\ Still /\ wf.pc = "resolve" /\ wf'.run = wf.run
                /\ act'[r].head = (IF HostsPreviews THEN prHead ELSE recordedHead)
  <2>1. CASE r = wf.run
    BY <1>4, <2>1 DEF Launches, Launched, Opening
  <2>2. CASE r # wf.run
    BY <1>4, <2>2 DEF Launches, Launched
  <2>3. QED BY <2>1, <2>2
<1>5. ASSUME NEW q \in Run, ActivityStep(q) \/ CrashActivity(q)
      PROVE  Opening(act[r]) /\ act'[r].head = act[r].head /\ UNCHANGED wf
  <2>1. UNCHANGED wf
    BY <1>5, ActivityMoves
  <2>2. PICK a, b \in Activity : Moves(q, a, b)
    BY <1>5, ActivityMoves
  <2>3. Advances(a, b) /\ a = act[q] /\ a.attempt \in Nat
    BY <2>2, MovesAdvance, Constants DEF InHand, Moves, Activity
  <2>4. /\ \A x \in Run : x # q => act'[x] = act[x]
        /\ act'[q] = b \/ act'[q] = NoActivity
    BY <2>2, MovesAlone
  <2>5. CASE r # q
    BY <2>1, <2>4, <2>5
  <2>6. CASE r = q
    <3>1. act'[r] = b /\ b.head = a.head
      BY <2>3, <2>4, <2>6, NothingDone DEF Opening, Advances
    <3>2. Opening(a)
      BY <2>3, <3>1 DEF Advances, Retried, Opening, InHand
    <3>3. QED BY <2>1, <2>3, <2>6, <3>1, <3>2
  <2>7. QED BY <2>5, <2>6
<1>6. ASSUME Opening(act[r]), UNCHANGED wf PROVE Arriving' /\ r = wf'.run => Arriving /\ wf'.run = wf.run
  BY <1>6 DEF Arriving, MyActivity
<1>7. QED BY <1>2, <1>3, <1>4, <1>5, <1>6, FlightKinds

\* What a run has in hand it had, or the live run has just opened.
LEMMA NewCustody ==
  ASSUME PipelineInv, InHand, [Next]_vars, NEW s \in Snapshot, InCustody(s)'
  PROVE  \/ InCustody(s)
         \/ /\ Arriving /\ ~Arriving' /\ status[s] = "absent" /\ status'[s] = "processing"
            /\ row'[s].head = MyActivity.head /\ owner'[s] = wf.run
<1>1. TypeOK /\ (wf.pc # "idle" => wf.run \in Run)
  BY DEF PipelineInv, WorkflowSane
<1>2. CASE Rests /\ Still /\ Undisturbed
  <2>1. ASSUME NEW r \in Run, act'[r].pc = "terminal" PROVE act[r] = act'[r]
    BY <1>2, <2>1 DEF Undisturbed, InFlight
  <2>2. ASSUME wf'.pc = "opening" \/ wf'.pc = "body" PROVE Aside \/ SameStage \/ Answered
    BY <1>2, <2>2 DEF Rests, NewTurn, Over, Quits, Wrapped, Winds
  <2>3. CASE Aside \/ SameStage
    BY <2>1, <2>3 DEF InCustody, Aside, SameStage, MyActivity
  <2>4. CASE Answered
    BY <2>1, <2>4 DEF InCustody, Answered, MyActivity
  <2>5. CASE ~(wf'.pc = "opening" \/ wf'.pc = "body")
    BY <2>1, <2>5 DEF InCustody
  <2>6. QED BY <2>2, <2>3, <2>4, <2>5
<1>3. CASE EditsAside
  BY <1>3 DEF EditsAside, SameStage, InCustody, MyActivity
<1>4. ASSUME NEW a \in Activity, Launches(a) PROVE InCustody(s)
  <2>1. /\ act'[wf.run] = a /\ wf.run \in Run /\ wf'.run = wf.run
        /\ \A r \in Run : r # wf.run => act'[r] = act[r]
    BY <1>4 DEF Launches, Launched
  <2>2. CASE \E r \in Run : act'[r].pc = "terminal" /\ act'[r].attempt = 0 /\ act'[r].snap = s
    <3>1. PICK r \in Run : act'[r].pc = "terminal" /\ act'[r].attempt = 0 /\ act'[r].snap = s
      BY <2>2
    <3>2. CASE r = wf.run
      BY <1>4, <2>1, <3>1, <3>2 DEF Launches, InCustody
    <3>3. CASE r # wf.run
      BY <2>1, <3>1, <3>3 DEF InCustody
    <3>4. QED BY <3>2, <3>3
  <2>3. CASE ~\E r \in Run : act'[r].pc = "terminal" /\ act'[r].attempt = 0 /\ act'[r].snap = s
    BY <1>4, <2>1, <2>3 DEF Launches, InCustody, MyActivity
  <2>4. QED BY <2>2, <2>3
<1>5. ASSUME NEW q \in Run, ActivityStep(q) \/ CrashActivity(q), ~InCustody(s)
      PROVE  /\ Arriving /\ ~Arriving' /\ status[s] = "absent" /\ status'[s] = "processing"
             /\ row'[s].head = MyActivity.head /\ owner'[s] = wf.run
  <2>1. UNCHANGED wf
    BY <1>5, ActivityMoves
  <2>2. PICK a, b \in Activity : Moves(q, a, b)
    BY <1>5, ActivityMoves
  <2>3. Advances(a, b) /\ a = act[q] /\ a.attempt \in Nat
    BY <2>2, MovesAdvance, Constants DEF InHand, Moves, Activity
  <2>4. /\ \A x \in Run : x # q => act'[x] = act[x]
        /\ act'[q] = b \/ act'[q] = NoActivity
    BY <2>2, MovesAlone
  <2>5. ASSUME NEW r \in Run, act'[r].pc = "terminal", act'[r].attempt = 0 PROVE act'[r] = act[r]
    <3>1. CASE r # q
      BY <2>4, <3>1
    <3>2. CASE r = q
      <4>1. act'[q] = b
        BY <2>4, <2>5, <3>2, NothingDone
      <4>2. a.pc = "open" /\ b.attempt = a.attempt
        BY <2>3, <2>5, <3>2, <4>1 DEF Advances, Retried
      <4>3. QED BY <2>3, <2>5, <3>2, <4>1, <4>2 DEF InHand
    <3>3. QED BY <3>1, <3>2
  <2>6. wf.pc = "opening" /\ act'[wf.run].pc = "opened" /\ act'[wf.run].snap = s /\ act'[wf.run] # act[wf.run]
    BY <1>5, <2>1, <2>5 DEF InCustody, MyActivity
  <2>7. q = wf.run /\ act'[q] = b /\ b.pc = "opened" /\ b.snap = s
    BY <1>1, <2>4, <2>6, NothingDone
  <2>8. a.pc = "open"
    BY <2>3, <2>7 DEF Advances, Retried
  <2>9. b # Retry(a) /\ b # Settled(a)
    <3>1. a.attempt = 0 \/ a.attempt > 0
      BY <2>3
    <3>2. Retry(a).pc # "opened" /\ Settled(a).pc # "opened"
      BY <3>1, RetryFields DEF Retried
    <3>3. QED BY <2>7, <3>2
  <2>10. Opens(q, a, b)
    BY <2>2, <2>7, <2>8, <2>9 DEF Moves, Reads, Dies, SettlesRow, ClosesJob
  <2>11. status[s] = "absent" /\ status'[s] = "processing" /\ row'[s].head = a.head /\ owner'[s] = wf.run
    BY <1>1, <2>7, <2>10 DEF Opens, OpenSnapshot, CreateSnapshot, TypeOK, SuiteTypeOK
  <2>12. Arriving /\ ~Arriving'
    BY <2>1, <2>3, <2>6, <2>7, <2>8 DEF Arriving, Opening, MyActivity
  <2>13. QED BY <2>3, <2>7, <2>11, <2>12 DEF MyActivity
<1>6. QED BY <1>2, <1>3, <1>4, <1>5, FlightKinds

LEMMA HeadsStep ==
  ASSUME HostsPreviews = TRUE, HeadsInv, [Next]_vars
  PROVE  Heads'
<1>1. PipelineInv /\ InHand /\ TypeOK /\ EditsKeepHead /\ Heads /\ SuiteInv /\ [SuiteNext]_suiteVars
  BY PipelineStep DEF HeadsInv, OrderInv, PipelineInv
<1>2. prHead \in Nat /\ prHead' \in Nat /\ prHead <= prHead' /\ prHead # NoSha
  BY <1>1, HeadGrows, NullAssumption DEF TypeOK
<1>3. UpTo(ActiveHead, prHead) /\ ActiveHead \in Nat \cup {NoSha}
  <2>1. CASE activeSnapshot[TheBranch] = NoSnapshot
    BY <1>1, <2>1, HeadTypes DEF ActiveHead, UpTo
  <2>2. CASE activeSnapshot[TheBranch] # NoSnapshot
    BY <1>1, <2>2, HeadTypes, Constants DEF ActiveHead, Heads, TypeOK, SuiteTypeOK, SuiteInv, PointersAgree
  <2>3. QED BY <2>1, <2>2
<1>4. ASSUME NEW h \in Nat \cup {NoSha}, UpTo(h, prHead) PROVE UpTo(h, prHead')
  BY <1>2, <1>4 DEF UpTo
<1>5. Arriving => wf.run \in Run /\ MyActivity.head \in Nat /\ MyActivity.head # NoSha
  BY <1>1, HeadTypes DEF Arriving, MyActivity, PipelineInv, WorkflowSane
<1>6. ASSUME NEW s \in Snapshot, row'[s].branch = TheBranch PROVE UpTo(row'[s].head, prHead')
  <2>1. row'[s] = row[s] \/ row'[s].head = ActiveHead \/ \E r \in Run : Opening(act[r]) /\ row'[s].head = act[r].head
    BY <1>1, NewRows
  <2>2. CASE row'[s] = row[s]
    BY <1>1, <1>4, <1>6, <2>2, HeadTypes DEF Heads
  <2>3. CASE row'[s].head = ActiveHead
    BY <1>3, <1>4, <2>3
  <2>4. CASE \E r \in Run : Opening(act[r]) /\ row'[s].head = act[r].head
    <3>1. PICK r \in Run : Opening(act[r]) /\ row'[s].head = act[r].head
      BY <2>4
    <3>2. act[r].head \in Nat /\ act[r].head <= prHead
      BY <1>1, <3>1, HeadTypes DEF Heads
    <3>3. QED BY <1>2, <3>1, <3>2 DEF UpTo
  <2>5. QED BY <2>1, <2>2, <2>3, <2>4
<1>7. ASSUME NEW r \in Run, Opening(act'[r]) PROVE act'[r].head <= prHead'
  <2>1. (Opening(act[r]) /\ act'[r].head = act[r].head) \/ act'[r].head = prHead
    BY <1>1, <1>7, NewOpening
  <2>2. CASE Opening(act[r]) /\ act'[r].head = act[r].head
    <3>1. act[r].head \in Nat /\ act[r].head <= prHead
      BY <1>1, <2>2, HeadTypes DEF Heads
    <3>2. QED BY <1>2, <2>2, <3>1
  <2>3. QED BY <1>2, <2>1, <2>2
<1>8. ASSUME NEW s \in Snapshot, InCustody(s)' PROVE status'[s] # "absent"
  <2>1. status[s] # "absent" => status'[s] # "absent"
    BY <1>1, RowsStay
  <2>2. QED BY <1>1, <1>8, <2>1, NewCustody DEF Heads
\* A candidate was one, or is the snapshot the live run was about to open.
<1>9. ASSUME NEW s \in Snapshot, Candidate(s)'
      PROVE  /\ ActiveHead' = ActiveHead
             /\ \/ Candidate(s) /\ row'[s] = row[s]
                \/ Arriving /\ ~Arriving' /\ row'[s].head = MyActivity.head
  <2>1. InCustody(s)' /\ s = pendingSnapshot'[TheBranch]
    BY <1>9 DEF Candidate
  <2>2. /\ ActiveHead' = ActiveHead
        /\ (s = pendingSnapshot[TheBranch] /\ row'[s] = row[s]) \/ status[s] = "absent"
    BY <1>1, <2>1, NewPending
  <2>3. \/ InCustody(s)
        \/ Arriving /\ ~Arriving' /\ row'[s].head = MyActivity.head
    BY <1>1, <2>1, NewCustody
  <2>4. QED BY <1>1, <2>2, <2>3 DEF Heads, Candidate
<1>10. ASSUME NEW s \in Snapshot, Candidate(s)' PROVE UpTo(ActiveHead', row'[s].head)
  BY <1>1, <1>9, <1>10 DEF Heads
<1>11. ASSUME Arriving'
       PROVE  /\ UpTo(ActiveHead', MyActivity'.head)
              /\ \A s \in Snapshot : Candidate(s)' => UpTo(row'[s].head, MyActivity'.head)
  <2>1. wf'.run \in Run /\ Opening(act'[wf'.run]) /\ MyActivity' = act'[wf'.run]
    BY <1>1, <1>11, PipelineStep DEF Arriving, MyActivity, PipelineInv, WorkflowSane
  <2>2. CASE Arriving /\ MyActivity'.head = MyActivity.head
    <3>1. UpTo(ActiveHead', MyActivity.head)
      BY <1>1, <2>2, NewActive DEF Heads
    <3>2. ASSUME NEW s \in Snapshot, Candidate(s)' PROVE UpTo(row'[s].head, MyActivity.head)
      BY <1>1, <1>9, <1>11, <2>2, <3>2 DEF Heads
    <3>3. QED BY <2>2, <3>1, <3>2
  <2>3. CASE Still /\ MyActivity'.head = prHead
    <3>1. ActiveHead' = ActiveHead
      BY <2>3 DEF Still, suiteVars, ActiveHead
    <3>2. ASSUME NEW s \in Snapshot, Candidate(s)' PROVE UpTo(row'[s].head, prHead)
      <4>1. Candidate(s) /\ row'[s] = row[s]
        BY <1>9, <1>11, <3>2
      <4>2. row[s].branch = TheBranch
        BY <1>1, <4>1, Constants DEF Candidate, SuiteInv, PointersAgree
      <4>3. QED BY <1>1, <4>1, <4>2 DEF Heads
    <3>3. QED BY <1>3, <2>3, <3>1, <3>2
  <2>4. \/ Arriving /\ MyActivity'.head = MyActivity.head
        \/ Still /\ MyActivity'.head = prHead
    BY <1>1, <1>11, <2>1, NewOpening DEF MyActivity
  <2>5. QED BY <2>2, <2>3, <2>4
<1>12. QED BY <1>6, <1>7, <1>8, <1>10, <1>11 DEF Heads

\* A hosted pull request: every promotion moves the suite to an analysis of the same commit
\* or a later one, in whatever order the webhooks of its pushes arrive, whatever fails, and
\* while the activities of displaced runs still go on (resolvePreviewTarget reads the live head).
THEOREM HeadsOnlyAdvance ==
  ASSUME HostsPreviews = TRUE
  PROVE  Spec => HeadsAdvance
<1>1. Init => HeadsInv
  <2> SUFFICES ASSUME Init PROVE HeadsInv
    OBVIOUS
  <2>1. OrderInv /\ EditsKeepHead
    BY OrderInit, Constants DEF Init, EditsKeepHead
  <2>2. BaselineHead \in Nat
    BY RunAssumption
  <2>3. wf.pc = "idle" /\ \A r \in Run : act[r].pc = "none"
    BY NothingDone DEF Init, NoRun
  <2>4. Heads
    BY <2>2, <2>3, Constants DEF Init, Heads, UpTo, Opening, BlankRow, InCustody, Candidate, Arriving
  <2>5. QED BY <2>1, <2>4 DEF HeadsInv
<1>2. HeadsInv /\ [Next]_vars => HeadsInv'
  BY OrderStep, EditsKeepHeadStep, HeadsStep DEF HeadsInv, OrderInv
<1>3. ASSUME HeadsInv, [Next]_vars
      PROVE  LET old == activeSnapshot[TheBranch]
                 new == activeSnapshot'[TheBranch]
             IN  new # old /\ old # NoSnapshot /\ NoSha \notin {row[old].head, row[new].head}
                   => row[old].head <= row[new].head
  <2>1. /\ PipelineInv /\ InHand /\ EditsKeepHead /\ Heads /\ SuiteInv /\ [SuiteNext]_suiteVars
        /\ TheBranch \in Branch
    BY <1>3, PipelineStep, Constants DEF HeadsInv, OrderInv, PipelineInv
  <2>2. SUFFICES ASSUME activeSnapshot'[TheBranch] # activeSnapshot[TheBranch], activeSnapshot[TheBranch] # NoSnapshot,
                        NoSha \notin {row[activeSnapshot[TheBranch]].head, row[activeSnapshot'[TheBranch]].head}
                 PROVE  row[activeSnapshot[TheBranch]].head <= row[activeSnapshot'[TheBranch]].head
    OBVIOUS
  <2>3. activeSnapshot'[TheBranch] \in Snapshot /\ UNCHANGED row
    BY <2>1, <2>2, PromotionsOnly
  <2>4. ActiveHead = row[activeSnapshot[TheBranch]].head /\ ActiveHead' = row[activeSnapshot'[TheBranch]].head
    BY <2>2, <2>3, Constants DEF ActiveHead
  <2>5. row[activeSnapshot[TheBranch]].head \in Nat
    BY <2>1, <2>2, HeadTypes, <2>4
  <2>6. ActiveHead' = ActiveHead \/ UpTo(ActiveHead, ActiveHead')
    BY <2>1, <1>3, NewActive DEF Heads
  <2>7. QED BY <2>2, <2>4, <2>5, <2>6 DEF UpTo
<1>4. QED BY <1>1, <1>2, <1>3, PTL DEF Spec, HeadsAdvance

-----------------------------------------------------------------------------
(* The order of the promotions.                                            *)

\* What a run opened is an analysis of the branch; what a settlement may still promote comes
\* from a later run than whatever has been promoted, and so will what the live run opens.
Ranks ==
    /\ \A s \in Snapshot : owner[s] # 0 => row[s].trigger = "WEBHOOK" /\ row[s].branch = TheBranch
    /\ \A s \in Snapshot : InCustody(s) => status[s] # "absent"
    /\ \A s, x \in Snapshot : Candidate(s) /\ Promoted(x) /\ owner[x] # 0 => owner[x] < owner[s]
    /\ Arriving => \A s \in Snapshot : owner[s] < wf.run

RanksInv == OrderInv /\ EditsKeepHead /\ Ranks

\* A snapshot gets its owner when it is opened, from an activity of the live run or of an
\* earlier one; the live run then has nothing left to open.
LEMMA NewOwner ==
  ASSUME PipelineInv, InHand, [Next]_vars, NEW s \in Snapshot, owner'[s] # owner[s]
  PROVE  /\ status[s] = "absent" /\ status'[s] = "processing"
         /\ row'[s].trigger = "WEBHOOK" /\ row'[s].branch = TheBranch
         /\ UNCHANGED wf /\ owner'[s] \in Run /\ owner'[s] <= wf.run /\ (owner'[s] = wf.run => ~Arriving')
<1>1. TypeOK
  BY DEF PipelineInv
<1>2. PICK r \in Run : ActivityStep(r) \/ CrashActivity(r)
  BY FlightKinds DEF Still, EditsAside, Launches
<1>3. PICK a, b \in Activity : Moves(r, a, b)
  BY <1>2, ActivityMoves
<1>4. UNCHANGED wf
  BY <1>2, ActivityMoves
<1>5. Opens(r, a, b)
  BY <1>3 DEF Moves, Still, SettlesRow, ClosesJob
<1>6. /\ status[s] = "absent" /\ status'[s] = "processing" /\ owner'[s] = r
      /\ row'[s].trigger = "WEBHOOK" /\ row'[s].branch = TheBranch
  BY <1>1, <1>5 DEF Opens, OpenSnapshot, CreateSnapshot, TypeOK, SuiteTypeOK
<1>7. a.pc = "open" /\ b.pc = "opened" /\ a = act[r]
  BY <1>3, <1>5 DEF Opens, Moves
<1>8. r <= wf.run
  BY <1>7 DEF InHand
<1>9. r = wf.run => ~Arriving'
  BY <1>3, <1>4, <1>7, MovesAlone DEF Arriving, Opening, MyActivity
<1>10. QED BY <1>4, <1>6, <1>8, <1>9

\* Only the settlement of a candidate promotes an analysis, and it leaves nothing open.
LEMMA NewlyPromoted ==
  ASSUME PipelineInv, InHand, Ranks, [Next]_vars, NEW s \in Snapshot, owner[s] # 0, ~Promoted(s), Promoted(s)'
  PROVE  Candidate(s) /\ pendingSnapshot'[TheBranch] = NoSnapshot
<1>1. SuiteInv /\ TypeOK /\ row[s].trigger = "WEBHOOK" /\ row[s].branch = TheBranch /\ TheBranch \in Branch
  BY Constants DEF PipelineInv, Ranks
<1>2. ASSUME NEW x \in Snapshot, TerminalEffect(x, "active"), UNCHANGED row
      PROVE  x = s /\ pendingSnapshot[TheBranch] = s /\ pendingSnapshot'[TheBranch] = NoSnapshot
  <2>1. x = s
    BY <1>2 DEF TerminalEffect, Promoted
  <2>2. QED BY <1>1, <1>2, <2>1 DEF TerminalEffect, TypeOK, SuiteTypeOK
<1>3. ASSUME NEW x \in Snapshot, NEW end, TerminalEffect(x, end), end \in {"failed", "cancelled"} PROVE FALSE
  BY <1>3 DEF TerminalEffect, Promoted
<1>4. CASE Still
  BY <1>4 DEF Still, suiteVars, Promoted
<1>5. CASE EditsAside
  <2>1. EditsPlans \/ \E x \in Snapshot : EditOpens(x) \/ EditSettles(x)
    BY <1>5, EditKinds DEF EditsAside
  <2>2. ~EditsPlans
    BY DEF EditsPlans, Promoted
  <2>3. ASSUME NEW x \in Snapshot, EditOpens(x) PROVE FALSE
    BY <1>1, <2>3 DEF EditOpens, OpenEditSnapshot, CreateSnapshot, Promoted, TypeOK, SuiteTypeOK
  <2>4. ASSUME NEW x \in Snapshot, EditSettles(x) PROVE FALSE
    <3>1. TerminalEffect(x, "active") \/ TerminalEffect(x, "cancelled")
      BY <2>4, EditSettled
    <3>2. UNCHANGED row /\ row[x].trigger = "MANUAL"
      BY <2>4, <3>1 DEF EditSettles, TerminalEffect
    <3>3. QED BY <1>1, <1>2, <1>3, <3>1, <3>2
  <2>5. QED BY <2>1, <2>2, <2>3, <2>4
<1>6. ASSUME NEW r \in Run, NEW a \in Activity, NEW b \in Activity, Moves(r, a, b)
      PROVE  Candidate(s) /\ pendingSnapshot'[TheBranch] = NoSnapshot
  <2>1. ~Opens(r, a, b)
    BY <1>1 DEF Opens, OpenSnapshot, CreateSnapshot, Promoted, TypeOK, SuiteTypeOK
  <2>2. ~Still /\ ~ClosesJob(a, b)
    BY DEF Still, ClosesJob, suiteVars, Promoted
  <2>3. SettlesRow(a, b)
    BY <1>6, <2>1, <2>2 DEF Moves
  <2>4. /\ a.snap \in Snapshot /\ TerminalEffect(a.snap, End(a)) /\ UNCHANGED row
        /\ a.outcome \in {"succeeded", "failed", "cancelled"}
    BY <1>6, <2>3, RowSettled DEF TerminalEffect
  <2>5. a.outcome = "succeeded" /\ End(a) = "active"
    BY <1>3, <2>4 DEF End
  <2>6. a.snap = s /\ pendingSnapshot[TheBranch] = s /\ pendingSnapshot'[TheBranch] = NoSnapshot
    BY <1>2, <2>4, <2>5
  <2>7. a = act[r] /\ a.pc = "terminal" /\ a.attempt = 0
    BY <1>6, <2>3, <2>5 DEF Moves, SettlesRow, InHand, Activity
  <2>8. QED BY <2>6, <2>7 DEF Candidate, InCustody
<1>7. QED BY <1>4, <1>5, <1>6, FlightKinds, ActivityMoves DEF Launches

LEMMA RanksStep ==
  ASSUME RanksInv, [Next]_vars
  PROVE  Ranks'
<1>1. /\ PipelineInv /\ InHand /\ Books /\ EditsKeepHead /\ Ranks /\ SuiteInv /\ [SuiteNext]_suiteVars
      /\ NoSnapshot \notin Snapshot
  BY PipelineStep, Constants DEF RanksInv, OrderInv, PipelineInv
<1>2. wf.run \in Nat /\ \A s \in Snapshot : owner[s] \in Nat
  BY <1>1, Constants DEF PipelineInv, TypeOK, Workflow
<1>3. \A s \in Snapshot : status[s] # "absent" => owner'[s] = owner[s] /\ row'[s] = row[s] /\ status'[s] # "absent"
  BY <1>1, NewOwner, RowsStay
<1>4. ASSUME NEW s \in Snapshot, owner'[s] # 0 PROVE row'[s].trigger = "WEBHOOK" /\ row'[s].branch = TheBranch
  <2>1. CASE owner'[s] # owner[s]
    BY <1>1, <2>1, NewOwner
  <2>2. CASE owner'[s] = owner[s]
    BY <1>1, <1>3, <1>4, <2>2 DEF Books, Ranks
  <2>3. QED BY <2>1, <2>2
<1>5. ASSUME NEW s \in Snapshot, InCustody(s)' PROVE status'[s] # "absent"
  BY <1>1, <1>3, <1>5, NewCustody DEF Ranks
\* What is promoted now was, unless nothing is left to promote.
<1>6. ASSUME NEW s \in Snapshot, Candidate(s)', NEW x \in Snapshot, Promoted(x)', owner'[x] # 0
      PROVE  Promoted(x) /\ owner'[x] = owner[x]
  <2>1. owner'[x] = owner[x]
    BY <1>1, <1>6, NewOwner DEF Promoted
  <2>2. pendingSnapshot'[TheBranch] # NoSnapshot
    BY <1>1, <1>6 DEF Candidate
  <2>3. QED BY <1>1, <1>6, <2>1, <2>2, NewlyPromoted
<1>7. ASSUME NEW s \in Snapshot, Candidate(s)', NEW x \in Snapshot, Promoted(x)', owner'[x] # 0
      PROVE  owner'[x] < owner'[s]
  <2>1. Promoted(x) /\ owner'[x] = owner[x] /\ owner[x] # 0
    BY <1>6, <1>7
  <2>2. InCustody(s)' /\ s = pendingSnapshot'[TheBranch]
    BY <1>7 DEF Candidate
  <2>3. CASE InCustody(s)
    <3>1. status[s] # "absent" /\ owner'[s] = owner[s]
      BY <1>1, <1>3, <2>3 DEF Ranks
    <3>2. Candidate(s)
      BY <1>1, <2>2, <2>3, <3>1, NewPending DEF Candidate
    <3>3. QED BY <1>1, <2>1, <3>1, <3>2 DEF Ranks
  <2>4. CASE ~InCustody(s)
    <3>1. Arriving /\ owner'[s] = wf.run
      BY <1>1, <2>2, <2>4, NewCustody
    <3>2. QED BY <1>1, <2>1, <3>1 DEF Ranks
  <2>5. QED BY <2>3, <2>4
<1>8. ASSUME Arriving', NEW s \in Snapshot PROVE owner'[s] < wf'.run
  <2>1. CASE owner'[s] # owner[s]
    <3>1. /\ UNCHANGED wf /\ owner'[s] \in Run /\ owner'[s] <= wf.run /\ owner'[s] # wf.run
      BY <1>1, <1>8, <2>1, NewOwner
    <3>2. QED BY <1>2, <3>1 DEF Run
  <2>2. CASE owner'[s] = owner[s] /\ Arriving /\ wf'.run = wf.run
    BY <1>1, <2>2 DEF Ranks
  <2>3. CASE owner'[s] = owner[s] /\ wf.pc = "resolve" /\ wf'.run = wf.run
    BY <1>1, <2>3 DEF Books
  <2>4. wf'.run = wf.run /\ (Arriving \/ wf.pc = "resolve")
    <3>1. wf'.run \in Run /\ Opening(act'[wf'.run]) /\ wf'.pc = "opening"
      BY <1>1, <1>8, PipelineStep DEF Arriving, MyActivity, PipelineInv, WorkflowSane
    <3>2. QED BY <1>1, <1>8, <3>1, NewOpening
  <2>5. QED BY <2>1, <2>2, <2>3, <2>4
<1>9. QED BY <1>4, <1>5, <1>7, <1>8 DEF Ranks

\* The promotions of a branch follow the order in which its runs started, although the open
\* and the settlement of a displaced run go on while its successors open, settle and are
\* displaced in their turn: what an abandoned open leaves behind is never promoted, and a
\* settlement that comes late finds its snapshot superseded (openSuperseding, triggerAnalysisRun).
THEOREM PromotedInOrder == Spec => PromotionsInOrder
<1>1. Init => RanksInv
  <2> SUFFICES ASSUME Init PROVE RanksInv
    OBVIOUS
  <2>1. OrderInv /\ EditsKeepHead
    BY OrderInit, Constants DEF Init, EditsKeepHead
  <2>2. Ranks
    BY NothingDone, Constants DEF Init, NoRun, Ranks, InCustody, Candidate, Arriving
  <2>3. QED BY <2>1, <2>2 DEF RanksInv
<1>2. RanksInv /\ [Next]_vars => RanksInv'
  BY OrderStep, EditsKeepHeadStep, RanksStep DEF RanksInv, OrderInv
<1>3. ASSUME RanksInv, [Next]_vars
      PROVE  \A s, x \in Snapshot : ~Promoted(s) /\ Promoted(s)' /\ Promoted(x) /\ 0 \notin {owner[s], owner[x]}
                => owner[x] < owner[s]
  <2>1. PipelineInv /\ InHand /\ Ranks
    BY <1>3 DEF RanksInv, OrderInv
  <2>2. QED BY <1>3, <2>1, NewlyPromoted DEF Ranks
<1>4. QED BY <1>1, <1>2, <1>3, PTL DEF Spec, PromotionsInOrder

-----------------------------------------------------------------------------
(* The inbox, when a workflow exits.                                       *)

\* Before it exits it has found the inbox empty, and no nudge since.
LEMMA ExitsByDrain ==
  ASSUME PipelineInv, InHand, [Next]_vars, wf'.pc = "exit", ~wf'.nudged, ~(wf.pc = "exit" /\ ~wf.nudged)
  PROVE  wf.pc = "drain" /\ Still /\ ~HasPending /\ UNCHANGED <<posted, producer>>
<1>1. TypeOK /\ RunTypeOK /\ wf \in Workflow
  BY DEF PipelineInv, TypeOK, RunTypeOK
<1>2. Aside \/ (SameStage /\ Flagged) \/ (SameStage /\ UNCHANGED wf) \/ Winds
  <2>1. (\E r \in Run : ActivityStep(r) \/ CrashActivity(r)) => UNCHANGED wf
    BY <1>1, ActivityMoves
  <2>2. ~UNCHANGED wf
    OBVIOUS
  <2>3. QED BY <1>1, <2>1, <2>2, Turns DEF NewTurn, Over, Quits, Asks, Answered, Wraps, Wrapped
<1>3. ~(SameStage /\ Flagged)
  <2>1. [wf EXCEPT !.nudged = TRUE].nudged
    BY <1>1 DEF Workflow
  <2>2. [wf EXCEPT !.cancel = TRUE].nudged = wf.nudged /\ [wf EXCEPT !.cancel = TRUE].pc = wf.pc
    BY <1>1 DEF Workflow
  <2>3. QED BY <2>1, <2>2 DEF Flagged
<1>4. Winds /\ wf.pc = "drain"
  <2>1. ~(Exit /\ wf.pc = "exit")
    <3>1. Ended.pc = "idle" /\ [wf EXCEPT !.pc = "drain", !.nudged = FALSE].pc = "drain"
      BY <1>1, WorkflowFields
    <3>2. QED BY <3>1 DEF Exit
  <2>2. QED BY <1>2, <1>3, <2>1 DEF Aside, Winds
<1>5. Drain /\ Still
  BY <1>4 DEF Winds
<1>6. ~HasPending
  <2>1. ASSUME StartRun(FALSE) PROVE wf'.pc = "resolve"
    BY <1>1, <2>1, WorkflowFields DEF StartRun
  <2>2. QED BY <1>5, <2>1 DEF Drain
<1>7. QED BY <1>4, <1>5, <1>6 DEF Drain, OnlyWorkflow

\* A poke wakes the workflow.
LEMMA PokesWake ==
  ASSUME PipelineInv, [Next]_vars, NEW e \in Event, producer'[e].pc = "poked", producer[e].pc # "poked"
  PROVE  wf'.pc # "idle" /\ (wf'.pc = "exit" => wf'.nudged)
<1>1. TypeOK /\ RunTypeOK /\ wf \in Workflow /\ producer \in [Event -> [pc: ProducerPc, head: Sha \cup {NoSha}]]
  BY DEF PipelineInv, TypeOK, RunTypeOK
<1>2. CASE \E x \in Event : Poke(x)
  <2>1. PICK x \in Event : Poke(x)
    BY <1>2
  <2>2. CASE wf' = [wf EXCEPT !.nudged = TRUE] /\ wf.pc # "idle"
    BY <1>1, <2>2 DEF Workflow
  <2>3. CASE StartRun(x \in Prompt)
    BY <2>3 DEF StartRun, StartedRun, NoRun
  <2>4. QED BY <2>1, <2>2, <2>3 DEF Poke
<1>3. ASSUME NEW x \in Event, NEW pc, Step(x, pc), pc # "poked" PROVE producer'[e].pc # "poked"
  BY <1>1, <1>3 DEF Step
<1>4. ASSUME NEW x \in Event, GateTrigger(x) \/ AttachTrigger(x) \/ RecordTrigger(x) \/ Enqueue(x) \/ CrashProducer(x)
      PROVE  FALSE
  <2>1. PICK pc \in {"skipped", "attach", "record", "attached", "enqueue", "deferred", "poke", "lost"} : Step(x, pc)
    BY <1>4 DEF GateTrigger, AttachTrigger, RecordTrigger, Enqueue, CrashProducer
  <2>2. QED BY <1>3, <2>1
<1>5. ASSUME NEW x \in Event, Occur(x) PROVE FALSE
  BY <1>1, <1>5 DEF Occur
<1>6. ASSUME NEW r \in Run, ActivityStep(r) \/ CrashActivity(r) PROVE FALSE
  BY <1>6, ActivityMoves
<1>7. ASSUME WorkflowStep \/ AttachPreview \/ BodyFails \/ BodyCancelled PROVE FALSE
  BY <1>7 DEF WorkflowStep, ResolveHead, Opened, BodySucceeds, RunSettled, Drain, Exit, Cancelled, AttachPreview,
              BodyFails, BodyCancelled, SettleWith, OnlyWorkflow
<1>8. ASSUME Edits PROVE FALSE
  BY <1>8, EditKinds
<1>9. ASSUME TimeOut \/ Cancel \/ ClosePullRequest \/ UNCHANGED vars PROVE FALSE
  BY <1>9 DEF TimeOut, Cancel, ClosePullRequest, vars, runVars
<1>10. QED BY <1>2, <1>4, <1>5, <1>6, <1>7, <1>8, <1>9 DEF Next, Produce, Edits

\* An event is posted before its producer pokes.
PostsFirst == \A e \in Event : producer[e].pc \in {"poke", "poked"} => e \in posted

LEMMA PostsFirstStep ==
  ASSUME PipelineInv, PostsFirst, [Next]_vars
  PROVE  PostsFirst'
<1>1. producer \in [Event -> [pc: ProducerPc, head: Sha \cup {NoSha}]]
  BY DEF PipelineInv, TypeOK
<1>2. ASSUME NEW x \in Event, GateTrigger(x) \/ AttachTrigger(x) \/ RecordTrigger(x) \/ CrashProducer(x)
      PROVE  PostsFirst'
  <2>1. PICK pc \in {"skipped", "attach", "record", "attached", "enqueue", "lost"} : Step(x, pc) /\ UNCHANGED posted
    BY <1>2 DEF GateTrigger, AttachTrigger, RecordTrigger, CrashProducer, OnlyUpset
  <2>2. QED BY <1>1, <2>1 DEF Step, PostsFirst
<1>3. ASSUME NEW x \in Event, Enqueue(x) PROVE PostsFirst'
  <2>1. PICK pc \in {"deferred", "poke"} : Step(x, pc) /\ posted' = posted \cup {x}
    BY <1>3 DEF Enqueue
  <2>2. QED BY <1>1, <2>1 DEF Step, PostsFirst
<1>4. ASSUME NEW x \in Event, Poke(x) PROVE PostsFirst'
  BY <1>1, <1>4 DEF Poke, Step, PostsFirst
<1>5. ASSUME NEW x \in Event, Occur(x) PROVE PostsFirst'
  <2>1. PICK pc \in {"enqueue", "gate"} : producer' = [producer EXCEPT ![x] = [pc |-> pc, head |-> prHead']]
    BY <1>5 DEF Occur
  <2>2. QED BY <1>1, <1>5, <2>1 DEF Occur, PostsFirst
<1>6. ASSUME UNCHANGED <<producer, posted>> PROVE PostsFirst'
  BY <1>6 DEF PostsFirst
<1>7. ASSUME NEW r \in Run, ActivityStep(r) \/ CrashActivity(r) PROVE UNCHANGED <<producer, posted>>
  BY <1>7, ActivityMoves
<1>8. ASSUME WorkflowStep \/ AttachPreview \/ BodyFails \/ BodyCancelled PROVE UNCHANGED <<producer, posted>>
  BY <1>8 DEF WorkflowStep, ResolveHead, Opened, BodySucceeds, RunSettled, Drain, Exit, Cancelled, AttachPreview,
              BodyFails, BodyCancelled, SettleWith, OnlyWorkflow
<1>9. ASSUME Edits PROVE UNCHANGED <<producer, posted>>
  BY <1>9, EditKinds
<1>10. ASSUME TimeOut \/ Cancel \/ ClosePullRequest \/ UNCHANGED vars PROVE UNCHANGED <<producer, posted>>
  BY <1>10 DEF TimeOut, Cancel, ClosePullRequest, OnlyUpset, vars, runVars
<1>11. QED BY <1>2, <1>3, <1>4, <1>5, <1>6, <1>7, <1>8, <1>9, <1>10 DEF Next, Produce, Edits

\* A closed pull request stays closed, a claim is only passed on.
LEMMA ClosedForGood ==
  ASSUME PipelineInv, [Next]_vars
  PROVE  prLive' => prLive
<1>1. ASSUME NEW x \in Event, Occur(x) \/ Produce(x) \/ CrashProducer(x) PROVE UNCHANGED prLive
  BY <1>1 DEF Occur, Produce, GateTrigger, AttachTrigger, RecordTrigger, Enqueue, Poke, CrashProducer, OnlyProducers
<1>2. ASSUME NEW r \in Run, ActivityStep(r) \/ CrashActivity(r) PROVE UNCHANGED prLive
  BY <1>2, ActivityMoves
<1>3. ASSUME WorkflowStep \/ AttachPreview \/ BodyFails \/ BodyCancelled PROVE UNCHANGED prLive
  BY <1>3 DEF WorkflowStep, ResolveHead, Opened, BodySucceeds, RunSettled, Drain, Exit, Cancelled, AttachPreview,
              BodyFails, BodyCancelled, SettleWith, OnlyWorkflow
<1>4. ASSUME Edits PROVE UNCHANGED prLive
  BY <1>4, EditKinds
<1>5. ASSUME TimeOut \/ Cancel \/ ClosePullRequest \/ UNCHANGED vars PROVE prLive' => prLive
  BY <1>5 DEF TimeOut, Cancel, ClosePullRequest, vars, runVars
<1>6. QED BY <1>1, <1>2, <1>3, <1>4, <1>5 DEF Next, Edits

LEMMA ClaimsStay ==
  ASSUME PipelineInv, InHand, [Next]_vars, NEW e \in Event, claimedBy[e] # NoSnapshot
  PROVE  claimedBy'[e] # NoSnapshot
<1>1. TypeOK /\ NoSnapshot \notin Snapshot
  BY Constants DEF PipelineInv
<1>2. ASSUME NEW r \in Run, NEW a \in Activity, NEW b \in Activity, Moves(r, a, b) PROVE claimedBy'[e] # NoSnapshot
  BY <1>1, <1>2 DEF Moves, Still, Opens, SettlesRow, ClosesJob
<1>3. QED BY <1>2, FlightKinds, ActivityMoves DEF Still, EditsAside, Launches

\* About to exit, with no nudge to bring it back, a workflow has found every event it was
\* poked for claimed.
CaughtUp ==
    wf.pc = "exit" /\ ~wf.nudged /\ prLive =>
        \A e \in Event : producer[e].pc = "poked" => claimedBy[e] # NoSnapshot

LEMMA CaughtUpStep ==
  ASSUME PipelineInv, InHand, PostsFirst, CaughtUp, [Next]_vars
  PROVE  CaughtUp'
<1>1. SUFFICES ASSUME wf'.pc = "exit", ~wf'.nudged, prLive', NEW e \in Event, producer'[e].pc = "poked"
               PROVE  claimedBy'[e] # NoSnapshot
  BY DEF CaughtUp
<1>2. prLive /\ producer[e].pc = "poked"
  BY <1>1, ClosedForGood, PokesWake
<1>3. CASE wf.pc = "exit" /\ ~wf.nudged
  BY <1>2, <1>3, ClaimsStay DEF CaughtUp
<1>4. CASE ~(wf.pc = "exit" /\ ~wf.nudged)
  BY <1>1, <1>2, <1>4, ExitsByDrain DEF PostsFirst, HasPending, Pending, Still
<1>5. QED BY <1>3, <1>4

\* A workflow exits only when every event it was poked for is claimed, whatever fails and
\* however runs overlap: its check of the inbox and its exit are two steps, and a signal in
\* between nudges it back (analysisRunWorkflow).
THEOREM NoneOverlooked == Spec => ExitsCaughtUp
<1>1. Init => OrderInv /\ PostsFirst /\ CaughtUp
  BY OrderInit DEF Init, NoRun, PostsFirst, CaughtUp
<1>2. OrderInv /\ PostsFirst /\ CaughtUp /\ [Next]_vars => (OrderInv /\ PostsFirst /\ CaughtUp)'
  BY OrderStep, PostsFirstStep, CaughtUpStep DEF OrderInv
<1>3. ASSUME OrderInv, CaughtUp, Exit, wf'.pc = "idle", prLive
      PROVE  \A e \in Event : producer[e].pc = "poked" => claimedBy[e] # NoSnapshot
  <2>1. wf.pc = "exit" /\ wf \in Workflow
    BY <1>3 DEF Exit, OrderInv, PipelineInv, TypeOK
  <2>2. [wf EXCEPT !.pc = "drain", !.nudged = FALSE].pc = "drain"
    BY <2>1 DEF Workflow
  <2>3. QED BY <1>3, <2>1, <2>2 DEF Exit, CaughtUp
<1>4. QED BY <1>1, <1>2, <1>3, PTL DEF Spec, ExitsCaughtUp

=============================================================================
