---------------------------- MODULE AnalysisRun ----------------------------
(***************************************************************************)
(* One branch's analysis pipeline, on top of the suite lineage.            *)
(*                                                                         *)
(* Producers (webhooks, explicit requests, user prompts) put events in the *)
(* branch's inbox and poke its workflow: a push terminates the run in      *)
(* flight and starts another, a prompt signals it.  A run resolves the     *)
(* head to analyze, opens a snapshot - superseding the one in the way and  *)
(* claiming the inbox with it -, analyzes, settles the snapshot and its    *)
(* job, and starts over while the inbox is not empty.                      *)
(*                                                                         *)
(* Runs are numbered in the order they start.  The workflow, its           *)
(* activities, the producers and edit sessions are separate processes that *)
(* share the database; one step is one transaction, one read, or one       *)
(* workflow decision.                                                      *)
(***************************************************************************)
EXTENDS BranchSuite, Integers

CONSTANTS
    TheBranch,        \* the branch whose pipeline this is: a pull request's, or main
    Baseline,         \* main's active snapshot when the application went live
    BaselineHead,     \* the commit it was taken at, also the base of the pull request
    Push,             \* commits pushed (their shas are assigned in order)
    Requested,        \* explicit requests to analyze (label, comment, UI)
    Prompt,           \* user prompts
    MaxRun,           \* bound: workflow runs
    MaxUpsets,        \* bound: failures, cancellations, crashes, closed pull requests
    MaxEdits,         \* bound: edit sessions started
    MaxOpenAttempts,  \* MAX_OPEN_ATTEMPTS
    Overlap,          \* may a run open while the activity of a displaced run is still going?
    HostsPreviews,    \* does autonoma host the previews, or the customer?
    ActivationGated,  \* does the organization run on explicit requests only?
    AutoRunsOnReady   \* does a pull request ready for review run anyway?

ASSUME RunAssumption ==
    /\ TheBranch \in Branch /\ Baseline \in Snapshot /\ Sha \subseteq Nat /\ BaselineHead \in Sha
    /\ Push \cap (Requested \cup Prompt) = {} /\ Requested \cap Prompt = {}
    /\ MaxRun \in Nat /\ MaxUpsets \in Nat /\ MaxEdits \in Nat /\ MaxOpenAttempts \in Nat \ {0}
    /\ {Overlap, HostsPreviews, ActivationGated, AutoRunsOnReady} \subseteq BOOLEAN

Event == Push \cup Requested \cup Prompt
Run   == 1..MaxRun

VARIABLES
    prHead, prLive,  \* GitHub: the branch's head commit, and whether its pull request is open
    recordedHead,    \* the head of branch.deploymentId's deployment, NoSha without one
    posted,          \* the analysis_event rows
    claimedBy,       \* analysis_event.claimedBySnapshotId
    job,             \* analysis_job.status of each snapshot, "none" without a job
    producer,        \* the producer of each event: how far it got, and the head it carries
    wf,              \* the branch's analysis run workflow
    act,             \* the database activity each run has in flight: an open or a settlement
    owner,           \* (history) the run that opened each snapshot, 0 for none
    torn,            \* (history) the snapshots whose settlement died between its two transactions
    edits, upsets    \* how many edit sessions and upsets there have been

runVars == <<prHead, prLive, recordedHead, posted, claimedBy, job, producer, wf, act, owner, torn, edits, upsets>>
vars == <<suiteVars, runVars>>

NoActivity == [pc |-> "none", head |-> NoSha, attempt |-> 0, src |-> NoSnapshot, snap |-> NoSnapshot, outcome |-> "none"]
NoRun == [pc |-> "idle", run |-> 0, nudged |-> FALSE, cancel |-> FALSE, head |-> NoSha,
          snap |-> NoSnapshot, outcome |-> "none"]

JobStatus == {"none", "running", "completed", "failed"}
ProducerPc == {"none", "gate", "attach", "record", "enqueue", "poke",
               "skipped", "attached", "deferred", "poked", "lost"}
Outcome == {"none", "succeeded", "failed", "cancelled"}
Activity == [pc: {"none", "gate", "resolve", "open", "terminal", "close", "opened", "skipped", "settled", "failed"},
             head: Sha \cup {NoSha}, attempt: 0..MaxOpenAttempts, src: Snapshot \cup {NoSnapshot}, snap: Snapshot \cup {NoSnapshot},
             outcome: Outcome]
Workflow == [pc: {"idle", "resolve", "opening", "body", "settling", "drain", "exit"}, run: 0..MaxRun,
             nudged: BOOLEAN, cancel: BOOLEAN, head: Sha \cup {NoSha},
             snap: Snapshot \cup {NoSnapshot}, outcome: Outcome]

TypeOK ==
    /\ SuiteTypeOK
    /\ prHead \in Sha /\ prLive \in BOOLEAN /\ recordedHead \in Sha \cup {NoSha}
    /\ posted \subseteq Event /\ claimedBy \in [Event -> Snapshot \cup {NoSnapshot}]
    /\ job \in [Snapshot -> JobStatus]
    /\ producer \in [Event -> [pc: ProducerPc, head: Sha \cup {NoSha}]]
    /\ wf \in Workflow /\ act \in [Run -> Activity] /\ owner \in [Snapshot -> 0..MaxRun]
    /\ torn \subseteq Snapshot /\ edits \in 0..MaxEdits /\ upsets \in 0..MaxUpsets

\* The application has gone live: main has its baseline, a pull request has one commit.
Init ==
    /\ status = [s \in Snapshot |-> IF s = Baseline THEN "active" ELSE "absent"]
    /\ row = [s \in Snapshot |-> IF s = Baseline
                THEN [BlankRow EXCEPT !.head = BaselineHead, !.base = BaselineHead] ELSE BlankRow]
    /\ assignment = [s \in Snapshot |-> EmptySuite]
    /\ activeSnapshot = [b \in Branch |-> IF b = MainBranch THEN Baseline ELSE NoSnapshot]
    /\ pendingSnapshot = [b \in Branch |-> NoSnapshot]
    /\ baseSnapshot = [b \in Branch |-> NoSnapshot]
    /\ prHead = BaselineHead /\ prLive = TRUE /\ recordedHead = NoSha
    /\ posted = {} /\ claimedBy = [e \in Event |-> NoSnapshot]
    /\ job = [s \in Snapshot |-> "none"]
    /\ producer = [e \in Event |-> [pc |-> "none", head |-> NoSha]]
    /\ wf = NoRun /\ act = [r \in Run |-> NoActivity] /\ owner = [s \in Snapshot |-> 0]
    /\ torn = {} /\ edits = 0 /\ upsets = 0

-----------------------------------------------------------------------------
(* The inbox.                                                              *)

\* Mutant of Pending: superseded alone makes a claim reclaimable.
PendingOnceSuperseded(e) ==
    e \in posted /\ (claimedBy[e] = NoSnapshot \/ status[claimedBy[e]] \notin {"processing", "active"})

\* Unclaimed, or claimed by a run that was thrown away before it completed.
Pending(e) ==
    /\ e \in posted
    /\ \/ claimedBy[e] = NoSnapshot
       \/ /\ status[claimedBy[e]] \notin {"processing", "active"}
          /\ job[claimedBy[e]] # "completed"

HasPending == prLive /\ \E e \in Event : Pending(e)

\* Mutant of ShouldSkip: a run never skips.
NeverSkip(head) == FALSE

\* The already-analyzed gate, shared by the triggers and the run's own open.
ShouldSkip(head) == AlreadyAnalyzed(TheBranch, head, BaselineHead) /\ ~HasPending

-----------------------------------------------------------------------------
(* Starting and ending workflow runs.                                      *)

StartedRun(nudged) == [NoRun EXCEPT !.pc = "resolve", !.run = wf.run + 1, !.nudged = nudged]

InFlight(a) == a.pc \in {"gate", "resolve", "open", "terminal", "close"}

\* Displacing a workflow does not stop the activity it had in flight: the worker goes on,
\* and nobody collects the result.
Abandon == act' = [r \in Run |-> IF r = wf.run /\ ~InFlight(act[r]) THEN NoActivity ELSE act[r]]

StartRun(nudged) ==
    /\ wf.run < MaxRun
    /\ wf' = StartedRun(nudged)
    /\ Abandon

\* The run is over; its number is kept so that the next one gets a new one.
Ended == [NoRun EXCEPT !.run = wf.run, !.cancel = wf.cancel]

-----------------------------------------------------------------------------
(* Producers.                                                              *)

Step(e, pc) == producer' = [producer EXCEPT ![e].pc = pc]
IsPullRequest == TheBranch # MainBranch
Gated(e) == IsPullRequest /\ ActivationGated /\ e \in Push
Attaches(e) == IsPullRequest /\ (e \in Requested \/ (Gated(e) /\ AutoRunsOnReady))

\* Something happens on GitHub or in the UI, and a producer starts handling it.
Occur(e) ==
    /\ producer[e].pc = "none" /\ prLive
    /\ prHead' = IF e \in Push THEN prHead + 1 ELSE prHead
    /\ prHead' \in Sha
    /\ producer' = [producer EXCEPT ![e] = [pc |-> IF e \in Prompt THEN "enqueue" ELSE "gate", head |-> prHead']]
    /\ UNCHANGED <<suiteVars, prLive, recordedHead, posted, claimedBy, job, wf, act, owner, torn, edits, upsets>>

OnlyProducers == UNCHANGED <<suiteVars, prHead, prLive, claimedBy, job, owner, torn, edits>>

GateTrigger(e) ==
    /\ producer[e].pc = "gate"
    /\ Step(e, IF ShouldSkip(producer[e].head) THEN "skipped"
               ELSE IF Attaches(e) THEN "attach" ELSE "record")
    /\ OnlyProducers /\ UNCHANGED <<recordedHead, posted, wf, act, upsets>>

\* findInFlightRunForHead: attach to the branch's open snapshot when it is for this head.
InFlightForHead(head) ==
    LET s == pendingSnapshot[TheBranch]
    IN  s # NoSnapshot /\ status[s] = "processing" /\ row[s].head = head /\ recordedHead # NoSha

AttachTrigger(e) ==
    /\ producer[e].pc = "attach"
    /\ Step(e, IF InFlightForHead(producer[e].head) THEN "attached" ELSE "record")
    /\ OnlyProducers /\ UNCHANGED <<recordedHead, posted, wf, act, upsets>>

\* A customer's deployment arrives with the trigger; a hosted preview has none yet.
RecordTrigger(e) ==
    /\ producer[e].pc = "record"
    /\ recordedHead' = IF ~HostsPreviews /\ e \in Push THEN producer[e].head ELSE recordedHead
    /\ Step(e, "enqueue")
    /\ OnlyProducers /\ UNCHANGED <<posted, wf, act, upsets>>

\* The event is persisted whatever the poke gate says; a deferred one wakes nobody.
Enqueue(e) ==
    /\ producer[e].pc = "enqueue"
    /\ posted' = posted \cup {e}
    /\ \/ /\ Gated(e) /\ ~AutoRunsOnReady
          /\ Step(e, "deferred") /\ UNCHANGED upsets
       \/ /\ ~Gated(e) \/ AutoRunsOnReady
          /\ Step(e, "poke") /\ UNCHANGED upsets
       \/ /\ ~Gated(e) \/ AutoRunsOnReady
          /\ IsPullRequest /\ upsets < MaxUpsets    \* out of credits
          /\ Step(e, "deferred") /\ upsets' = upsets + 1
    /\ OnlyProducers /\ UNCHANGED <<recordedHead, wf, act>>

\* A push or a request terminates the run in flight; a prompt signals it, or starts one.
Poke(e) ==
    /\ producer[e].pc = "poke"
    /\ IF e \in Prompt /\ wf.pc # "idle"
         THEN wf' = [wf EXCEPT !.nudged = TRUE] /\ UNCHANGED act
         ELSE StartRun(e \in Prompt)
    /\ Step(e, "poked")
    /\ OnlyProducers /\ UNCHANGED <<recordedHead, posted, upsets>>

Produce(e) == GateTrigger(e) \/ AttachTrigger(e) \/ RecordTrigger(e) \/ Enqueue(e) \/ Poke(e)

-----------------------------------------------------------------------------
(* The activity that opens a run (openAnalysisRun, openSuperseding).       *)

NewSnapshot == CHOOSE s \in Snapshot : status[s] = "absent"
CanOpen == \E s \in Snapshot : status[s] = "absent"     \* bound: snapshots opened

\* An activity moves on; the result of an abandoned one is dropped.
Becomes(r, a) ==
    act' = [act EXCEPT ![r] = IF InFlight(a) \/ (r = wf.run /\ wf.pc \in {"opening", "settling"})
                              THEN a ELSE NoActivity]
OnlyActivity == UNCHANGED <<prHead, prLive, recordedHead, posted, producer, wf, torn, edits, upsets>>
OnlyReads == OnlyActivity /\ UNCHANGED <<suiteVars, claimedBy, job, owner>>

OpenGate(r) ==
    LET a == act[r] IN
    /\ a.pc = "gate"
    /\ Becomes(r, [a EXCEPT !.pc = IF ShouldSkip(a.head) THEN "skipped"
                                   ELSE IF ResolveSource(TheBranch) = NoSnapshot THEN "failed"
                                   ELSE "resolve",
                            !.attempt = 1])
    /\ OnlyReads

Resolve(r) ==
    /\ act[r].pc = "resolve"
    /\ Becomes(r, [act[r] EXCEPT !.src = ResolveSource(TheBranch),
                                 !.pc = IF ResolveSource(TheBranch) = NoSnapshot THEN "failed" ELSE "open"])
    /\ OnlyReads

\* The next attempt, if there is one left.
Retry(a) == IF a.attempt < MaxOpenAttempts THEN [a EXCEPT !.pc = "resolve", !.attempt = @ + 1]
            ELSE [a EXCEPT !.pc = "failed"]

\* The snapshot, its job and the claims of the whole inbox commit together.
OpenRun(r) ==
    LET a == act[r]
        s == NewSnapshot
    IN  /\ a.pc = "open" /\ CanOpen
        /\ OpenSnapshot(TheBranch, s, a.head, a.src, BaselineHead)
        /\ job' = [job EXCEPT ![s] = "running"]
        /\ claimedBy' = [e \in Event |-> IF Pending(e) THEN s ELSE claimedBy[e]]
        /\ owner' = [owner EXCEPT ![s] = r]
        /\ Becomes(r, [a EXCEPT !.pc = "opened", !.snap = s])
        /\ OnlyActivity

\* BranchAlreadyOpenError: whatever is open is superseded first.
OpenBlocked(r) ==
    /\ act[r].pc = "open" /\ pendingSnapshot[TheBranch] # NoSnapshot
    /\ Becomes(r, [act[r] EXCEPT !.pc = "terminal", !.snap = pendingSnapshot[TheBranch],
                                 !.outcome = "cancelled"])
    /\ OnlyReads

\* SourceMovedError: something was promoted since the source was resolved.
OpenMoved(r) ==
    /\ act[r].pc = "open" /\ pendingSnapshot[TheBranch] = NoSnapshot
    /\ ~SourceStillCurrent(TheBranch, act[r].src)
    /\ Becomes(r, Retry(act[r]))
    /\ OnlyReads

-----------------------------------------------------------------------------
(* Settling a snapshot (settleAnalysisRunState): of the run itself, or, in *)
(* an open (attempt > 0), of the run it supersedes.  The snapshot's        *)
(* terminal and the job's are two transactions.                            *)

Settled(a) == IF a.attempt > 0 THEN Retry(a) ELSE [a EXCEPT !.pc = "settled"]

\* Mutant of SettleTerminal: the job is not settled with the snapshot.
SettleSnapshotOnly(r) ==
    LET a == act[r] IN
    /\ a.pc = "terminal"
    /\ IF CanClaimTerminal(a.snap)
         THEN IF a.outcome = "succeeded" THEN Promote(a.snap) ELSE CloseSnapshot(a.snap, a.outcome)
         ELSE UNCHANGED suiteVars
    /\ Becomes(r, Settled(a))
    /\ OnlyActivity /\ UNCHANGED <<claimedBy, job, owner>>

\* Mutant of SettleTerminal: whether the terminal was won is not looked at.
SettleWhoeverWon(r) ==
    LET a == act[r] IN
    /\ a.pc = "terminal"
    /\ IF ~CanClaimTerminal(a.snap) THEN UNCHANGED suiteVars
       ELSE IF a.outcome = "succeeded" THEN Promote(a.snap) ELSE CloseSnapshot(a.snap, a.outcome)
    /\ Becomes(r, [a EXCEPT !.pc = "close"])
    /\ OnlyActivity /\ UNCHANGED <<claimedBy, job, owner>>

\* Mutant of SettleTerminal: a success is promoted although the run was superseded.
SettleSuperseded(r) ==
    LET a == act[r] IN
    /\ a.pc = "terminal"
    /\ \/ a.outcome = "succeeded" /\ PromoteClosed(a.snap) /\ Becomes(r, [a EXCEPT !.pc = "close"])
       \/ a.outcome # "succeeded" /\ CloseSnapshot(a.snap, a.outcome) /\ Becomes(r, [a EXCEPT !.pc = "close"])
       \/ ~CanClaimTerminal(a.snap) /\ UNCHANGED suiteVars /\ Becomes(r, Settled(a))
    /\ OnlyActivity /\ UNCHANGED <<claimedBy, job, owner>>

\* Mutant of SettleTerminal: the status is written by id, without the compare-and-swap.
SettleById(r) ==
    LET a == act[r] IN
    /\ a.pc = "terminal"
    /\ status' = [status EXCEPT ![a.snap] = IF a.outcome = "succeeded" THEN "active" ELSE a.outcome]
    /\ Becomes(r, [a EXCEPT !.pc = "close"])
    /\ OnlyActivity
    /\ UNCHANGED <<row, assignment, activeSnapshot, pendingSnapshot, baseSnapshot, claimedBy, job, owner>>

SettleTerminal(r) ==
    LET a == act[r] IN
    /\ a.pc = "terminal"
    /\ IF CanClaimTerminal(a.snap)
         THEN /\ IF a.outcome = "succeeded" THEN Promote(a.snap) ELSE CloseSnapshot(a.snap, a.outcome)
              /\ Becomes(r, [a EXCEPT !.pc = "close"])
         ELSE UNCHANGED suiteVars /\ Becomes(r, Settled(a))    \* lost the race
    /\ OnlyActivity /\ UNCHANGED <<claimedBy, job, owner>>

\* Mutant of CloseJob: the job takes the run's outcome for its status.
CloseJobAsOutcome(r) ==
    LET a == act[r] IN
    /\ a.pc = "close"
    /\ job' = [job EXCEPT ![a.snap] = IF @ = "running" THEN a.outcome ELSE @]
    /\ Becomes(r, Settled(a))
    /\ OnlyActivity /\ UNCHANGED <<suiteVars, claimedBy, owner>>

CloseJob(r) ==
    LET a == act[r] IN
    /\ a.pc = "close"
    /\ job' = [job EXCEPT ![a.snap] =
                  IF @ # "running" THEN @ ELSE IF a.outcome = "succeeded" THEN "completed" ELSE "failed"]
    /\ Becomes(r, Settled(a))
    /\ OnlyActivity /\ UNCHANGED <<suiteVars, claimedBy, owner>>

ActivityStep(r) ==
    \/ OpenGate(r) \/ Resolve(r) \/ OpenRun(r) \/ OpenBlocked(r) \/ OpenMoved(r)
    \/ SettleTerminal(r) \/ CloseJob(r)

-----------------------------------------------------------------------------
(* The workflow (analysisRunWorkflow, withAnalysisRunSettlement).          *)

MyActivity == act[wf.run]
Schedule(a) == act' = [act EXCEPT ![wf.run] = a]
Collect == Schedule(NoActivity)
OnlyWorkflow == UNCHANGED <<suiteVars, prHead, prLive, posted, claimedBy, job, producer, owner, torn, edits>>

\* Mutant of ResolveHead: the head is the one a trigger carried.
ResolveTriggerHead ==
    /\ wf.pc = "resolve"
    /\ Overlap \/ \A r \in Run : r # wf.run => ~InFlight(act[r])
    /\ \E e \in Event :
          /\ producer[e].pc = "poked"
          /\ wf' = [wf EXCEPT !.pc = "opening", !.head = producer[e].head]
          /\ Schedule([NoActivity EXCEPT !.pc = "gate", !.head = producer[e].head])
    /\ OnlyWorkflow /\ UNCHANGED <<recordedHead, upsets>>

\* The live head of a hosted preview, the deployed head of a customer's.  Without a
\* recorded deployment there is nothing to analyze against: exit without draining.
ResolveHead ==
    LET head == IF HostsPreviews THEN prHead ELSE recordedHead IN
    /\ wf.pc = "resolve"
    /\ Overlap \/ \A r \in Run : r # wf.run => ~InFlight(act[r])
    /\ IF head = NoSha THEN wf' = Ended /\ UNCHANGED act
       ELSE /\ wf' = [wf EXCEPT !.pc = "opening", !.head = head]
            /\ Schedule([NoActivity EXCEPT !.pc = "gate", !.head = head])
    /\ OnlyWorkflow /\ UNCHANGED <<recordedHead, upsets>>

\* Opened, skipped as already analyzed, or failed - which ends the workflow.
Opened ==
    /\ wf.pc = "opening"
    /\ \/ MyActivity.pc = "opened" /\ wf' = [wf EXCEPT !.pc = "body", !.snap = MyActivity.snap]
       \/ MyActivity.pc = "skipped" /\ wf' = [wf EXCEPT !.pc = "drain"]
       \/ MyActivity.pc = "failed" /\ wf' = Ended
    /\ Collect
    /\ OnlyWorkflow /\ UNCHANGED <<recordedHead, upsets>>

\* The hosted preview is built, and becomes the branch's deployment.
AttachPreview ==
    /\ wf.pc = "body" /\ HostsPreviews
    /\ recordedHead' = wf.head
    /\ OnlyWorkflow /\ UNCHANGED <<wf, act, upsets>>

\* Impact analysis and the investigators edit the suite, while the snapshot is open.
EditInBody ==
    /\ wf.pc = "body" /\ EditSuite(wf.snap)
    /\ UNCHANGED runVars

SettleWith(outcome) ==
    /\ wf.pc = "body"
    /\ wf' = [wf EXCEPT !.pc = "settling", !.outcome = outcome]
    /\ Schedule([NoActivity EXCEPT !.pc = "terminal", !.snap = wf.snap, !.outcome = outcome])
    /\ OnlyWorkflow /\ UNCHANGED recordedHead

\* A body that finds its snapshot closed under it fails; any other failure is an upset.
\* A cancellation reaches the body, and so does an unlinked application (an upset too).
BodySucceeds == SettleWith("succeeded") /\ UNCHANGED upsets
BodyFails ==
    /\ SettleWith("failed")
    /\ \/ status[wf.snap] # "processing" /\ UNCHANGED upsets
       \/ upsets < MaxUpsets /\ upsets' = upsets + 1
BodyCancelled ==
    /\ SettleWith("cancelled")
    /\ \/ wf.cancel /\ UNCHANGED upsets
       \/ upsets < MaxUpsets /\ upsets' = upsets + 1

\* Mutant of RunSettled: the settlement is not awaited.
RunSettledUnawaited ==
    /\ wf.pc = "settling"
    /\ wf' = IF wf.outcome = "failed" \/ wf.cancel THEN Ended ELSE [wf EXCEPT !.pc = "drain"]
    /\ OnlyWorkflow /\ UNCHANGED <<recordedHead, act, upsets>>

\* Settled.  A failure or a cancellation is rethrown and ends the workflow.
RunSettled ==
    /\ wf.pc = "settling" /\ MyActivity.pc \in {"settled", "failed"}
    /\ wf' = IF MyActivity.pc = "failed" \/ wf.outcome = "failed" \/ wf.cancel THEN Ended
             ELSE [wf EXCEPT !.pc = "drain"]
    /\ Collect
    /\ OnlyWorkflow /\ UNCHANGED <<recordedHead, upsets>>

\* Mutant of Drain: one pass only.
DrainNothing ==
    /\ wf.pc = "drain" /\ ~wf.cancel /\ wf' = [wf EXCEPT !.pc = "exit"]
    /\ OnlyWorkflow /\ UNCHANGED <<recordedHead, act, upsets>>

\* While the inbox is not empty, continue as new.
Drain ==
    /\ wf.pc = "drain" /\ ~wf.cancel
    /\ IF HasPending THEN StartRun(FALSE)
       ELSE wf' = [wf EXCEPT !.pc = "exit"] /\ UNCHANGED act
    /\ OnlyWorkflow /\ UNCHANGED <<recordedHead, upsets>>

\* Mutant of Exit: the nudge flag is not re-checked.
ExitDespiteNudge ==
    /\ wf.pc = "exit" /\ wf' = Ended
    /\ OnlyWorkflow /\ UNCHANGED <<recordedHead, act, upsets>>

\* Exit, unless a nudge raced the check.
Exit ==
    /\ wf.pc = "exit"
    /\ wf' = IF wf.nudged THEN [wf EXCEPT !.pc = "drain", !.nudged = FALSE] ELSE Ended
    /\ OnlyWorkflow /\ UNCHANGED <<recordedHead, act, upsets>>

\* Outside the body and its settlement a cancellation ends the workflow at once; the
\* activity it was waiting for is not stopped by that.
Cancelled ==
    /\ wf.cancel /\ wf.pc \in {"resolve", "opening", "drain"}
    /\ wf' = Ended /\ Abandon
    /\ OnlyWorkflow /\ UNCHANGED <<recordedHead, upsets>>

WorkflowStep ==
    \/ ResolveHead \/ Opened \/ BodySucceeds \/ RunSettled \/ Drain \/ Exit \/ Cancelled

-----------------------------------------------------------------------------
(* Edit sessions, on the same branch.                                      *)

OnlyEditor == UNCHANGED <<prHead, prLive, recordedHead, posted, claimedBy, job, producer, wf, act, owner, torn, upsets>>

StartEdit ==
    /\ edits < MaxEdits /\ CanOpen
    /\ OpenEditSnapshot(TheBranch, NewSnapshot)
    /\ edits' = edits + 1
    /\ OnlyEditor

EditSession(s) ==
    /\ row[s].trigger = "MANUAL" /\ row[s].branch = TheBranch
    /\ EditSuite(s) \/ Promote(s) \/ CloseSnapshot(s, "cancelled")
    /\ UNCHANGED edits /\ OnlyEditor

-----------------------------------------------------------------------------
(* Upsets.                                                                 *)

Upset == upsets < MaxUpsets /\ upsets' = upsets + 1
OnlyUpset == UNCHANGED <<suiteVars, prHead, recordedHead, posted, claimedBy, job, owner, edits>>

\* A worker dies in the middle of an activity, or before its result is recorded.
CrashActivity(r) ==
    /\ Upset /\ act[r].pc \notin {"none", "failed"}
    /\ Becomes(r, [act[r] EXCEPT !.pc = "failed"])
    /\ torn' = IF act[r].pc = "close" THEN torn \cup {act[r].snap} ELSE torn
    /\ UNCHANGED <<prLive, producer, wf>> /\ OnlyUpset

\* A producer dies before it is done: its webhook is not redelivered.
CrashProducer(e) ==
    /\ Upset /\ producer[e].pc \in {"gate", "attach", "record", "enqueue", "poke"}
    /\ Step(e, "lost")
    /\ UNCHANGED <<prLive, wf, act, torn>> /\ OnlyUpset

\* The workflow's execution timeout: like a termination, it runs no workflow code.
TimeOut ==
    /\ Upset /\ wf.pc # "idle"
    /\ wf' = Ended /\ Abandon
    /\ UNCHANGED <<prLive, producer, torn>> /\ OnlyUpset

\* cancelInFlightAnalysisRuns: the branch has a running job, so its workflow is cancelled.
Cancel ==
    /\ Upset /\ \E s \in Snapshot : job[s] = "running"
    /\ wf.pc # "idle" /\ wf' = [wf EXCEPT !.cancel = TRUE]
    /\ UNCHANGED <<prLive, producer, act, torn>> /\ OnlyUpset

ClosePullRequest ==
    /\ Upset /\ IsPullRequest /\ prLive /\ prLive' = FALSE
    /\ UNCHANGED <<producer, wf, act, torn>> /\ OnlyUpset

-----------------------------------------------------------------------------
Next ==
    \/ \E e \in Event : Occur(e) \/ Produce(e) \/ CrashProducer(e)
    \/ \E r \in Run : ActivityStep(r) \/ CrashActivity(r)
    \/ WorkflowStep \/ AttachPreview \/ EditInBody \/ BodyFails \/ BodyCancelled
    \/ StartEdit \/ \E s \in Snapshot : EditSession(s)
    \/ TimeOut \/ Cancel \/ ClosePullRequest

Spec == Init /\ [][Next]_vars

\* Temporal keeps scheduling a workflow and its activities, the API finishes a request.
Fairness ==
    /\ \A e \in Event : WF_vars(Produce(e))
    /\ \A r \in Run : WF_vars(ActivityStep(r))
    /\ WF_vars(WorkflowStep)

FairSpec == Spec /\ Fairness

-----------------------------------------------------------------------------
(* Properties *)

\* Everything the pipeline and the edit sessions do to the branch's snapshots, whatever
\* fails or overlaps, is a step the suite module allows - with what that module
\* guarantees (openSuperseding resolves per attempt, settlements race on the terminal).
SuiteSteps == [][suiteVars' # suiteVars => SuiteNext]_suiteVars

\* A job is completed only for a snapshot that was promoted: a run that lost the race for
\* its snapshot's terminal never reports the analysis done (settleAnalysisRunState).
CompletedMeansPromoted ==
    \A s \in Snapshot : job[s] = "completed" => status[s] \in {"active", "superseded"}

\* The workflow re-opens the inbox "only after this snapshot is promoted/closed", whoever
\* closed it (runAnalysisRunOnce's last comment).
DrainsOnlySettled ==
    \A s \in Snapshot : wf.pc \in {"drain", "exit"} /\ owner[s] = wf.run => status[s] # "processing"

\* An older run's suite never goes live after a newer one's, also when the older run was
\* displaced and its open or its settlement is still going on in a worker: "the newest
\* commit cancels whatever was in flight" (triggerAnalysisRun, openSuperseding).
Promoted(s) == status[s] \in {"active", "superseded"}
PromotionsInOrder ==
    [][\A s, x \in Snapshot : ~Promoted(s) /\ Promoted(s)' /\ Promoted(x) /\ 0 \notin {owner[s], owner[x]}
           => owner[x] < owner[s]]_vars

\* A promoted run handled its events for good: no later run claims them again, except
\* before the run's job is closed - or if a crash kept it from ever being closed
\* (pendingClause; the comment on RECLAIMABLE_CLAIM_STATUSES).
Closes(r, s) == act[r].pc = "close" /\ act[r].snap = s
HalfSettled(s) == s \in torn \/ \E r \in Run : Closes(r, s)
Handled(e) == claimedBy[e] # NoSnapshot /\ Promoted(claimedBy[e])
HandledForGood ==
    [][\A e \in Event : Handled(e) => claimedBy'[e] = claimedBy[e] \/ HalfSettled(claimedBy[e])]_vars

\* No settled snapshot keeps a running job, except while its settlement is in between, or
\* if a worker died there: every other way to lose a run closes its job.
JobFollowsSnapshot ==
    \A s \in Snapshot : job[s] = "running" /\ status[s] # "processing" => HalfSettled(s)

\* A workflow that exits leaves no event behind that it was poked for and no run claimed,
\* whatever was posted, signalled, cancelled or lost since it checked the inbox: "a nudge
\* arriving between the final inbox check and the workflow's exit must not be lost".
ExitsCaughtUp ==
    [][Exit /\ wf'.pc = "idle" /\ prLive =>
           \A e \in Event : producer[e].pc = "poked" => claimedBy[e] # NoSnapshot]_vars

\* "exiting only once the inbox is empty": an event whose producer poked the branch is
\* not left pending by a workflow that is gone (analysisRunWorkflow's drain and nudge).
NothingStranded ==
    wf.pc = "idle" /\ prLive => \A e \in Event : producer[e].pc = "poked" => ~Pending(e)

\* A hosted pull request's suite only moves to analyses of newer commits, however the
\* webhooks of its pushes are reordered (resolvePreviewTarget reads the live head).
HeadsAdvance ==
    [][LET old == activeSnapshot[TheBranch]
           new == activeSnapshot'[TheBranch]
       IN  new # old /\ old # NoSnapshot /\ NoSha \notin {row[old].head, row[new].head}
             => row[old].head <= row[new].head]_vars

\* A run that analyzes a commit already judged has events to analyze: the head and the
\* inbox it was gated on still hold when its snapshot opens, attempts later.
ReasonToRun ==
    [][\A s \in Snapshot : owner'[s] # owner[s] /\ row'[s].head = row'[s].base =>
           \E e \in Event : claimedBy'[e] = s]_vars

\* A cancelled run leaves no job running: cancelAnalysisRun says that cancelling "settles
\* the run `cancelled`" where terminating would leave the job "dangling `running` forever".
CancelledRunIsSettled ==
    wf.pc = "idle" /\ wf.cancel /\ (\A r \in Run : ~InFlight(act[r]))
        => \A s \in Snapshot : job[s] # "running"

\* Every event that was poked is eventually part of a promoted suite.
PokedIsHandled == \A e \in Event : producer[e].pc = "poked" ~> Handled(e)

\* Every analysis snapshot is eventually settled, and its job with it.
EveryRunSettles ==
    \A s \in Snapshot : job[s] = "running" ~> job[s] # "running" /\ status[s] # "processing"
=============================================================================
