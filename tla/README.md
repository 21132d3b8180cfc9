# Autonoma: a verification of its suites, analysis pipeline, investigators, merge gate, preview builds and credits

Autonoma keeps an application's end-to-end tests as *suites* on branches, analyzes every push to a pull
request with a durable workflow that edits a copy of the branch's suite, deploys previews for it, posts its verdict as a
check that gates the merge, and charges organizations for what that consumes. This directory holds TLA+ modules of the parts whose correctness depends on interleaving,
ordering and failure; TLC configurations that check them; and proofs, checked by TLAPS, of the results that
matter most. The code is the reference: `PROJECT.json` ("map") names, for every definition that models code, the
lines it models.

## 1. Inventory

### The parts that keep state under concurrency

| part | state | operations | what is hard | what makes it correct |
|---|---|---|---|---|
| Suite store (`packages/test-suite`) | snapshots: status, lineage (`prev`), head and base commit, trigger, plan assignments; per branch the active and pending pointers and the pinned fork point | open, open an edit session, edit, promote, fail, cancel | a source is resolved before the branch is locked; any actor holds a handle opened long ago; two actors settle one snapshot | pointers and statuses agree; no promotion is lost; a settled snapshot never changes |
| Analysis pipeline (`packages/workflow`, `packages/analysis`, `apps/workers/diffs`, `apps/api/src/analysis`) | per branch: an inbox of events with their claims, one workflow, its activities, a job per snapshot | deliver an event, start or nudge the workflow, open and supersede, settle, drain, cancel | terminating runs no code; the activities of a displaced run go on; webhooks reorder; a settlement is two transactions; retries | a poked event is handled once; the newest run prevails; nothing stays open or running |
| Edit sessions (`snapshot-edit.service.ts`) | an open snapshot that a user edits | start, edit, start runs, finalize, discard | race the pipeline for the branch's one open snapshot; start and charge runs one by one | a session never overwrites a promotion; a refused request charges nothing |
| Credit wallet (`packages/billing`) | balance, the plan's part of it, sub-credit carry, floor, exemption; the ledger | gate, charge a run / usage / a proxy request, refund, grant, revoke, administer | gate and charge are apart; webhooks late, repeated, reordered; clamps; state consulted at refund that changed since the charge | metered usage at true cost; never below the floor; the ledger accounts for every credit |
| Auto top-up and spend cap (`packages/billing`) | monthly total per organization, the last failure; charges at Stripe | reserve, charge, release, check out, record, grant, revoke, reconcile | two deductions below the threshold, one idempotency key per five minutes; lost answers; the month turns in between | charges stay under the cap; an organization that is due is recharged without anything else happening |
| Vercel billing (`packages/billing`) | purchases, their invoices here and at Vercel | look, reserve, grant, raise, link, retry, paid, refunded | four separate steps of which any may be the last; two submitters; webhooks that outrun the link | credit is extended once; every sale is invoiced |
| Investigators and report (`investigator.workflow.ts`, `packages/analysis`) | per test: the plan the snapshot pins, its runs, findings, classifications, containment | fan out, run, classify, file, rewrite, restore, drop, contain, settle | activities tried once that may fail after they took effect; an engine that outlives its attempt; a child that dies between filing and acting; coverage is a count at the end | no plan is edited without a verdict, none known to fail promotes, no target is dropped in silence |
| Merge gate (`merge-gate.service.ts`) | one check run per head at GitHub, one row per head here, one advisory lock per head | pending, request, open, conclude, decline, skip | webhook, request, run and skip command race for the check; the lock lives in a transaction that may expire under the work | one check per head; the row tells what GitHub shows; a block stands; no check is left in progress |
| Preview builds (`preview-build.workflow.ts`, `apps/previewkit`) | a workflow and a Kubernetes Job per commit, a row per pull request and one per commit | launch, supersede, poll, cancel; claim, build, deploy, fail, drain; tear down, redeploy an app; sweep when the account runs dry; expire | the workflow sees rows and Jobs, never the pod; deleted Jobs' pods go on; the row is whoever claimed it last; other parts of the system delete Jobs too | a build is called ready or dead only when it is, and its Job vanishes only for a reason of its own |
| Build circuit (`build-circuit-breaker.ts`) | per app: consecutive failures, state | evaluate, record, probe, reset | off by default; advisory by design | not modelled |
| Scenario manager (`packages/scenario`) | scenario instances | up, down | failed and repeated teardowns | what is brought up is taken down |

Everything else the repository holds - clients of external services, LLM agents and engines, rendering, the web
UI, the CLI, documentation, evaluations - is listed in `PROJECT.json` ("components") with the reason it is not modelled.

### How they interact

Producers (GitHub webhooks, explicit requests, user prompts) insert an `analysis_event` and start or signal the
branch's Temporal workflow. The workflow's open activity forks the branch's active snapshot into a pending one,
superseding the run or edit session in the way and claiming the inbox in the same transaction. The body edits the snapshot;
settlement promotes or closes it, then closes the job. Edit sessions fork and promote the same snapshots without a workflow.
Both start work that billing gates first and charges later; Stripe's webhooks and the administrator change the
wallet at any time, and a charge that leaves it low starts a recharge. A hosted pull request's run begins when its preview build reports the
environment ready, fans out a child workflow per selected test, waits for all of them before the report settles, and ends by concluding the check that the gate posted on its head. The database row locks are the only synchronisation: one step of a module is one
transaction, one read whose result is used later, or one workflow decision.

## 2. Modules

| module | models | its state in the code |
|---|---|---|
| `SuiteTransactions` | what the suite store promises: transactions on each branch's live suite, one at a time, no lost update | abstract |
| `BranchSuite` | the suite store of one application: any number of branches, snapshots, tests and plans | `status`, `row`, `assignment` are the `branch_snapshot` and `test_case_assignment` rows; the three pointers are columns of `branch`; `resolved` is history: sources any actor ever resolved and may still hold |
| `AnalysisRun` | one branch's pipeline and its edit sessions, on top of `BranchSuite` (`EXTENDS`: the same variables) | `posted`, `claimedBy`, `job` are rows; `producer`, `wf`, `act` are where each request, the workflow and each run's database activity are; `owner` (the run that opened a snapshot) and `torn` (snapshots whose settlement died between its two transactions) are history |
| `Credits` | one organization's wallet and ledger | `balance` ... `unlimited` are `billing_customer`, `ledger` is `credit_transaction` (a row's deterministic id is its type and what it is for), `run` is `test_generation.status`; `taken` is history |
| `SpendCap` | what both payment rails share: clock, month, cap, monthly total, wallet | `charged` is `billing_topup_spend_period`, `cap` and `balance` are columns of `billing_customer`; `ceiling` and `strays` are history |
| `StripeTopUps` | recharges, Checkout and Stripe's webhooks (`EXTENDS SpendCap`) | `recharge` is where each run of `maybeTriggerAutoTopUp` is, `intent` is Stripe's side, `granted`, `revoked` are ledger rows; `bookedIn` is history |
| `VercelPurchases` | purchases on Vercel, their invoices and webhooks (`EXTENDS SpendCap`) | `sale`, `raising` are where each call is, `atVercel` is Vercel's side, `linked`, `status` are `vercel_invoice` rows |
| `Recharge` | the two rails composed on one wallet: an organization is on one of them | `provider` is `billing_customer.provider` |
| `MergeGate` | the check of every head of one pull request | `checks` is GitHub's side, `row`, `rows` are `github_check_run`, `lock` the advisory locks, `op` the handlers at work, `run` the pull request's run; `verdict`, `abandoned`, `faults` are history |
| `PreviewBuild` | the builds, the teardown and the redeployments of one pull request, and what the credits watcher does to it | `flow`, `outcome` are the workflows, `job`, `pod`, `retried` is Kubernetes, `row` is `previewkit_environment`, `built` is `previewkit_build`, `watcher` is where the watcher is in its sweep; `claimed`, `deployed`, `strayed`, `followed`, `killed`, `collected` are history |
| `Investigator` | the fan-out of one run over its selected tests, each child's self-heal loop, and the settlement of the report | `child` is where each child workflow is, `pinned` is `test_case_assignment.plan`, `runs` are `test_generation` rows and the engine behind each, `filed`, `current`, `failure` are the finding, its classifications and its containment; `unrestored`, `unmarked`, `faults` are history |
| `BranchSuite_proofs`, `AnalysisRun_proofs`, `AnalysisRunOrder_proofs`, `Credits_proofs`, `Recharge_proofs`, `MergeGate_proofs`, `PreviewBuild_proofs`, `Investigator_proofs` | theorems and proofs | |
| `MCBranchSuite`, `MCAnalysisRun`, `MCCredits`, `MCRecharge`, `MCMergeGate`, `MCPreviewBuild`, `MCInvestigator` | the values TLC gives the constants | |

`BranchSuite` refines `SuiteTransactions` (property `ImplementsTransactions`, an `INSTANCE ... WITH` mapping pointers to
transactions), and `AnalysisRun` takes only steps of `BranchSuite` on the suite's variables (property `SuiteSteps`), so
what is checked and proved of the lineage holds of the pipeline.

Each module also holds the operators named "Mutant of ...": a plausible bug in one definition, never used by `Next`, kept next to the
definition it alters; for every property of a passing run, one of them is known to violate it.

### Correspondences worth knowing

* **A transaction is a step; a read that is used later is a step of its own.** `ResolveSource` is remembered in `resolved` and used by
  any later open; the open activity has the steps gate, resolve, open, per attempt; a producer has gate, attach, record,
  enqueue and poke.
* **Termination** (`triggerAnalysisRun` with terminate-existing) replaces the workflow at once and leaves its activity running in the worker. With `Overlap`
  FALSE a new run's open waits for it, with TRUE it does not: the code does not order them, so the first is an assumption,
  of the runs `analysis_run` and `analysis_inbox` only; `analysis_faults` and every theorem do without it.
* **Temporal** delivers a signal to a running workflow before it may complete, retries nothing that the code does not ask to retry,
  and ends a cancelled scope through the code's own handlers (`SettleWith`).
* **A charge is one statement** (lock, insert on conflict do nothing, update if inserted), hence one step; a retry of
  a recorded charge is not a step because it changes nothing. The run's row (its own transaction just
  before) is merged with its charge: nothing else reads it in between.
* **A webhook** is a step that may happen at any time after its event. Re-delivery of one that is recorded is a
  stutter, and so is one that finds nothing to do; re-delivery of a refund that did nothing may do something later.
* **An idempotency key** is the five-minute bucket, so a recharge's PaymentIntent *is* the bucket: the first call of a bucket is carried
  out by Stripe, every later one in it is answered with the same result.
* **The gate's lock** is a `pg_advisory_xact_lock` held around calls to GitHub. A handler is therefore read (`Enter`), call (`Call`) and persist (`Write`),
  with a fault possible at each; `LockExpires` is the transaction's 30 s limit, after which the work under it goes on unprotected.
* **A pod** is where it is between two looks at its abort signal. Deleting a Job is a step of the launcher; hearing of it (`Drain`) is a step of the pod, any time later
  or never. `backoffLimit` gives a Job one second pod.
* **An investigator's activity is tried once** (`maximumAttempts: 1`): `Tried` lets it answer, fail without effect, or take effect and lose its answer. What a failure leads to - the end of the child, or
  a handler that contains it - is written where the activity is. The engine is a process of its own: it can report, throw after it reported, or go on when its attempt is cut off; `markGenerationFailed` is a read and a write,
  because nothing locks the row in between.

## 3. What the runs check

| run | instance | result |
|---|---|---|
| `branch_suite` | 2 branches, 4 snapshots, 1 test with 2 plans; any actor, any source ever resolved | `PointersAgree`, `ForkedFromCurrent`, `TerminalImmutable`, and the implementation of `SuiteTransactions` |
| `analysis_run` | 2 pushes in either order, 1 prompt, 1 edit session, 5 runs, no failure | types (the suite's included), `NothingStranded`, `HeadsAdvance`, `ReasonToRun` |
| `analysis_faults` | 1 push, 1 explicit request, 1 edit session, 1 upset of any kind, 3 runs, overlapping activities, real edits | `CompletedMeansPromoted`, `DrainsOnlySettled`, `JobFollowsSnapshot`, `SuiteSteps`, `PromotionsInOrder`, `HandledForGood` |
| `analysis_inbox` | 1 push, 2 prompts, 4 runs, fairness | `ExitsCaughtUp`; every poked event is eventually handled (`PokedIsHandled`) and every run settles (`EveryRunSettles`) |
| `credits` | 1 run, 2 usages, 1 proxy request, 1 purchase and its refund, 1 cycle, 2 administrator's changes, floors 0 and -2, exemptions granted and withdrawn | types, `UsageAtTrueCost`, `LedgerCoversWallet`, `ClampedAtFloor`, `RefundRestoresBalance` |
| `prepaid_credits` | 2 runs in one request, 2 usages, 1 proxy request, 1 purchase and its refund, 2 cycles; floor 0, no exemption | `SubscriptionIsPart`, `ExhaustedStaysBlocked` |
| `recharge` | 2 rechargers and 1 Checkout session, or 2 calls of purchase; 2 buckets of one month; caps 15 and 20, a package of 10 | `ChargesWithinCap`, `OneUnpaidPurchase` |
| `recharge_live` | the sweep alone, or 1 purchase; 3 buckets, the month turns after the first; fairness | `EverySaleIsInvoiced`, `DueIsRecharged` |
| `merge_gate` | 2 heads, 2 handlers at once, one push or fault, every activation policy | `OneCheckPerHead`, `RowTellsCheck`, `BlockStands`, `InProgressHasRun` |
| `preview_build` | 2 commits and the closing of the pull request or the redeployment of an app, 1 failure, redeployment, sweep or expired Job | `ReadyIsReal`, `GoneIsAccounted`, `DeadHasNotLived` |
| `superseded_claim` | 2 commits, no failure | **violated**: a pod told to stop while it prepares takes the row from its successor |
| `investigator` | 2 tests in one wave, 2 failures anywhere | `EditFollowsVerdict`, `VerdictDecidesPlan` (`RewriteIsUndone` and `PassedPlanPromotes`), `SilenceTakesTwoFaults`, `NothingLeftPending`, `RemovalStands` |

The violated run states what a comment of the repository says; `PROJECT.json` ("findings") quotes it. Every other run passes.

The type invariants of `Recharge`, `MergeGate`, `PreviewBuild` and `Investigator` are proved for every instance (section 4), so no run repeats them; so is `ChargesWithinCap` across the turn of a month.

Five more statements of comments and documents are written in the modules, each with its words quoted, because the code does not keep them; a reader can check any of them by naming it in a copy of the run's configuration:

| statement | module | what happens |
|---|---|---|
| `PaymentEntitlesToNothingMore` | `Recharge` | the payment of a package whose invoice is not linked yet is taken for the plan's and grants a month of the plan |
| `SettledRunStands` | `Investigator` | a run that its engine settles between the read and the write of `markGenerationFailed` is overwritten with `failed` |
| `KnownFailingNeverPromotes` | `Investigator` | filing the second verdict fails, the child dies before it restores the plan, and the report settles over a rewrite that just failed |
| `ReportCoversQueued` | `Investigator` | the coverage check compares two counts: a test contained before it queued a run makes up for a queued one without a record (three failures) |
| `BlockLiftedOnlyBySkip` | `MergeGate` | a request that starts nothing restores a failing check to neutral |

More behaviours that the models have, and that a reader of the code's comments may not expect; no run is spent on them.
Of the pipeline:

* A trigger enqueues its event and then starts its run with terminate-existing (`enqueue-and-start-analysis-run.ts:96`). In between, the run in flight may settle, drain,
  continue as new and claim the event; it is then terminated, and its replacement, finding the head analyzed, skips: the snapshot stays open, the job running, the event unhandled.
  `EveryRunSettles` and `PokedIsHandled` hold for one push and two prompts, and fail for two pushes and a prompt. `ExitsCaughtUp` holds for any number of either, since the event was *claimed*.
* The open of a displaced run may commit after the newer run's (`open-analysis-run.ts:106`), since nothing orders activities of two executions, and supersede it: the newest run does not always finish. What
  does hold with every overlap is `PromotionsInOrder`: the displaced run has nobody to settle it, so what it opened is never promoted over the newer run's suite.
* The same open may also come between the gate of a later run and its open, which then analyzes a commit already judged for no event: `ReasonToRun` is checked without overlap and fails with it.
* A crash between the two transactions of a settlement (`settle-analysis-run-state.ts:48`) leaves a promoted snapshot with an open job for good; its events count as discarded
  and are claimed again. `HandledForGood` and `JobFollowsSnapshot` except exactly the snapshots this happened to (`torn`), and those whose settlement is between the two.
* A cancellation during the open (`analysis-run.workflow.ts:172`) is outside the settlement wrapper: the snapshot stays open and the job running (`CancelledRunIsSettled` states what fails).
* The fork point is pinned by the first open (`test-suite-store.ts:117`), even when that run fails and the suite the branch later
  promotes was copied from a newer snapshot of main; onboarding promotes whatever snapshot main has pending when setup completes (`onboarding-manager.ts:1566`).
* An explicit request attaches to a `processing` snapshot of its head (`analysis-trigger.ts:405`) although the workflow behind it may have
  timed out.

Of the wallet and its refills:

* The zero clamp of a proxy charge (`credits.service.ts:587`) raises a balance that usage had taken below zero, and with it
  re-opens the floor gate; `ExhaustedStaysBlocked` holds without an overdraft only.
* A refund consults the exemption of now (`credits.service.ts:797`): a run charged before it is not given back under it, a run recorded under it is
  paid out after it; `RefundRestoresBalance` speaks of refunds under the exemption of the charge, and `LedgerCoversWallet` counts those that were not given back (`Swallowed`).
* A refunded run's credits go to the plan's part first (`credits.service.ts:803`), whatever paid for them; the next cycle forfeits them.
* A refund webhook handled before its purchase's (`credits.service.ts:1156`) is acknowledged and never revokes anything.
* A refund of credits partly spent takes back what is left, and the clamped row is what later decides whether the organization ever paid: it keeps its overdraft (`OverdraftFollowsPayment` states what fails).
* The gate of a request and the charges of its runs are separate transactions (`snapshot-edit.service.ts:192`): of two requests with credits for one, the refused one is charged for the
  runs it started (`RefusedChargesNothing` states what fails), and a request repeated after a timeout has new run ids and is charged again (`snapshot-edit.service.ts:187`).
* A card charge whose answer is lost stands while its reservation is released; a process that dies leaves a reservation without a charge. Both last until the month ends.
* The reconciler finds organizations by their Stripe customer, so one that is billed by Vercel only is never swept.

Of the gate and the previews:

* A request that starts no run restores the check to neutral (`merge-gate.service.ts:556`), also where a failing verdict stood: `BlockStands` excepts it, and `BlockLiftedOnlyBySkip` states what the summary of the
  failing check promises.
* A worker that dies after a run is settled in the database and before its check is concluded leaves the check in progress; the retry finds the run settled and skips GitHub.
* Statuses of a preview are written by namespace: a pod past its last look at the signal, or the redeployment of an app, overwrites the status of whichever commit has the row (`strayed`, which `ReadyIsReal` excepts).
* The credits watcher deletes the Jobs of the environments it listed, whatever became of the account and of the commits since: a build launched after a top-up may be killed by the sweep before it.
* A deployment that succeeds leaves its build row `building`. Once another commit claims the environment, a workflow that has not polled since reads `missing`, and tells its caller that the build declined, or polls until its budget ends.
* A pull request that is reopened at the commit it was closed at reads its old `torn_down` or `failed` row; the Jobs in flight are deleted before a create that may fail; a pod that dies twice after claiming leaves the row
  `building` for the workflow to time out on.

Of the investigators:

* An engine that is cut off and goes on may overwrite the `failed` that was recorded for it with `success`, after its run was classified from what the child knew; one that was cut off before it marked the run does so afterwards
  (`generation-persister.ts:63` asks for no status), and if it then dies the run stays `running`: `NothingLeftPending` counts a run as looked after while its engine is at it.
* The recording is uploaded after the run is reported (`web` activities): an upload that throws turns a `success` into `failed`.
* The second iteration of a child that dies - for any reason, not only while it files its verdict - leaves its rewrite pinned, unverified, and the settled report promotes it.
* Two failures, one of a child and one of recording that, leave a target with neither verdict nor containment; if it never queued a run the report settles without it.

### Bounds

* *Snapshots* bound opens: with all rows used an open is disabled. In `analysis_run` and `analysis_inbox` there is a row for every open the events, runs and edit sessions can cause. In `analysis_faults` rows and runs can run out, which cuts
  behaviours off; its properties are invariants and step properties, so what is cut off is unexplored, never wrongly accepted as stopped; each is also proved for every instance.
* *Runs* (`MaxRun`) bound starts and continue-as-new: five cover two pushes, a prompt, a displacement and a drain.
* *Open attempts* are the code's own three. *Upsets* and *edit sessions* are one each: the hazards listed need one crash,
  one cancellation or one session at the wrong moment.
* Two branches are enough for the lineage: a branch only ever reads its own rows and the main branch's active snapshot.
* *Credits* are small numbers around the boundaries: a run costs the initial balance, usage costs fractions of a credit that add up across a
  whole with and without a rest (in sixths; the code uses millionths), a purchase equals one run. What each property needs to be at
  risk - a clamp, a carry, a balance at the floor, a partly spent purchase - occurs within two or three of each operation.
* *The clock* (`Horizon`) ends after two or three buckets: one bucket is shared by two rechargers, two separate a failed attempt from the next, and three put the turn of a month
  after a reservation and before its release. At the last tick the organization's life simply goes on in that bucket.
* *Caps* of 15 and 20 with a package of 10: at the lower one a second package does not fit, at the higher it does, and neither is a multiple of it by accident of the arithmetic.
* *Mishaps* (`MaxMishaps`) are one in `merge_gate` - a push away from a head, a failed call, a death or an expired lock - and one in `preview_build`, where the redeployment of an app, a sweep of a dry account and a Job whose time is up count among them. Two commits are what superseding takes: a third would be superseded in the same way.
* Two *handlers* at once are what a race for a lock takes; they are reused, so any number act in turn.
* *Tests* are two in `investigator`: children share only the report and its count, so a second one is all a count needs. They run side by side (`Concurrency` 2); waves only order them. *Failures* are two, what a silent target costs.
  Iterations are the code's own two.
* Model values for snapshots are symmetric in `branch_suite`, handlers and heads in `merge_gate`, builds in `preview_build` (no liveness is checked there); commits of the pipeline are numbers and are not.

`CHECK_DEADLOCK FALSE` is set everywhere because every one of these systems stops when the bounded supply of events is used up.

### Fairness

`analysis_inbox` assumes weak fairness of each producer's next step (an API request that is being handled goes on), of each activity's
next step (a worker picks it up) and of the workflow's next decision (Temporal keeps scheduling it). Nothing is
assumed of the body's length beyond its end, of webhooks being sent, of edit sessions ending or of upsets. There are no upsets and no second push in that
run: with a crash or a displaced run both liveness properties fail, as described above.

`recharge_live` assumes that the reconciler's sweep keeps coming (strong fairness of its check and of its charge getting through, weak of its reservation and its release), that a failure's backoff ends, and that the daily job retries every unbilled purchase
with a call to Vercel that does not fail for ever. Strong fairness is what a periodic job gives: it is not enabled all the time (a dead process, a failed attempt, a month without room), but again and again. Nothing is assumed
of the customer, of deductions, of Checkout, of webhooks or of the call that made the sale: the sweep and the job alone have to do it.

`MergeGate`, `PreviewBuild` and `Investigator` are checked for safety and state no fairness.

## 4. What is proved

For every value of the constants (any number of branches, snapshots, events, runs, prices, purchases...), from the named assumptions
`NullAssumption`, `BranchAssumption`, `RunAssumption`, `CreditsAssumption`, `SpendCapAssumption`, `StripeAssumption`, `VercelAssumption`, `MergeGateAssumption`, `PreviewBuildAssumption` and `InvestigatorAssumption`, which TLC evaluates on every instance:

* **`BranchSuite_proofs`.** The invariant is `SuiteInv`: types, `PointersAgree`, `ForkedFromCurrent` and `PrevExists` (a row's predecessor is a row).
  `PointersAgree` alone is not inductive in what a fork needs: superseding the live suite must leave no open fork of it, which takes
  `ForkedFromCurrent`. From it: `SuiteInvariant`, `PointersAlwaysAgree`, `AlwaysForkedFromCurrent`, `SettledIsImmutable`, and the refinement
  `SuiteImplementsTransactions` - the initial state maps to the initial state, and each open, edit, promotion and close maps to a begin, write, commit,
  abort or stutter of the abstract transactions.
* **`AnalysisRun_proofs`.** `PipelineInv` adds to `SuiteInv` what the fields of an activity and of the workflow mean while
  they are in flight (`ActivitySane`, `WorkflowSane`: an attempt under way carries a resolvable source, a closing settlement that succeeded has promoted its snapshot) and
  `CompletedMeansPromoted`. The central theorem is `PipelineTakesSuiteSteps`: every step of producers, activities, workflow, users and
  upsets is a step of `BranchSuite` or leaves the suite alone; `PipelineKeepsLineage` and `PipelineKeepsSettled` follow from it, and
  `PipelineTypes` and `CompletedIsPromoted` from the invariant. Overlapping activities, crashes and cancellations are all included.
* **`AnalysisRunOrder_proofs`.** Who works on which snapshot. `OrderInv` adds to `PipelineInv` what the workflow waits for at each stage and what displaced runs may still have going (`InHand`), what a snapshot's row, job and
  claims say of each other (`Books`), and where the live run's own open snapshot is (`OwnSnapshot`); it needs no restriction. `FlightKinds` sorts the steps into those that leave the activities in flight alone, edits, launches of an
  activity and steps of one, and `ActivityMoves` says what such a step reads and writes; every later invariant is one more conjunct shown to survive these four kinds.

  | theorem | states | where | what it adds to `OrderInv` |
  |---|---|---|---|
  | `DrainsAfterSettling` | `DrainsOnlySettled` | always | nothing: `OwnSnapshot` at the drain |
  | `JobsFollow` | `JobFollowsSnapshot` | always | the property itself is inductive on top of it: whoever won the snapshot's terminal is still closing the job, or died at it (`torn`) |
  | `HandledStays` | `HandledForGood` | always | `Outcomes`: a promoted snapshot's job is completed, being completed, or torn; a failed job's snapshot was not promoted |
  | `PromotedInOrder` | `PromotionsInOrder` | always | `EditsKeepHead` and `Ranks`: whatever a settlement may still promote is of a later run than everything promoted, and what the live run is about to open of a later one still |
  | `HeadsOnlyAdvance` | `HeadsAdvance` | hosted previews | `EditsKeepHead` (an edit session's snapshot is of the active suite's commit) and `Heads`: the snapshot a run has in hand (`InCustody`) is no older than the active suite, and what the live run is about to open no older than either |
  | `NoneOverlooked` | `ExitsCaughtUp` | always | `PostsFirst` (an event is posted before its producer pokes) and `CaughtUp`: a workflow that is about to exit un-nudged found every poked event claimed |

  *Always* means with any number of events, runs, edit sessions and upsets, and with overlapping activities. `HeadsOnlyAdvance` needs hosted previews because a customer's deployments may be recorded out of order.

* **`Credits_proofs`.** `WalletInv` is the types plus `ChargedRunsExist` (a run is charged once its row exists), without which a charge might find its
  own row and the ledger's uniqueness is not inductive. Every operation is `Sound`: it keeps the invariant, takes the wallet down to its floor at most, and, without an
  overdraft, keeps `0 <= subBalance <= balance`. From it: `WalletTypes`, `WalletClampedAtFloor` and, for floors of zero, `PlanStaysPart`.
  Two of the wallet's properties sum over the ledger, with a fold that picks its elements by `CHOOSE`. `SumUnique` and `SumTakesOut` show, by a smallest exception among the finite subsets, that the order does not matter; `AmountGrows` and `CostGrows` are then all that
  a step needs, since it adds one row at most. With them: `UsageAlwaysAtTrueCost` (the fractions carried and the credits booked add up to what usage cost, always).
  `RefundAlwaysRestores` is a case analysis of one run's two rows and what the wallet has given for it (`Balanced`): a refund consults the exemption of now, so a run has either been given back what was taken, or was refunded under an exemption it was not charged under.
  `WalletAlwaysCovered` adds these up (`CoveredInv`): the balance falls short of the ledger's sum by the price of the swallowed refunds at most, and while a run is charged and not refunded (`Unpaid`) there is that much slack for its refund to be swallowed. Neither has a hypothesis.
  `ExhaustedWalletStaysBlocked` asks for floors of zero: under an overdraft a proxy charge clamps a negative balance *up* to zero and re-opens the gate. TLC finds this behaviour when the hypothesis is dropped.

* **`Recharge_proofs`.** `OneUnpaidPurchase` needs `OwedInv`: an invoice id is in one submitter's hands at a time, and until it is linked its purchase is outstanding, so that linking never makes a paid purchase owed again.
  `ChargesWithinCap` needs `CapInv`: for every month, the price of all reservations held and all charges made under it is covered by the month's total plus what it lost track of, and that of reservations and *automatic* charges is under the
  ceiling plus the same. The second alone is not inductive - a reservation is admitted against the total, which manual purchases also fill - and the first alone does not bound anything. Every step changes a month in one of five
  ways (`Quiet`, `Draws`, `Strays`, `Frees`, `Drifts`), and `CoveredKeeps` shows that each keeps both; the rest of the proof classifies the actions.
* **`MergeGate_proofs`.** `GateInv` says who holds a lock without a fault (`LockInv`), what a handler knows at each of its stages of the row and the check (`OpFacts`), which rows are listed
  (`ListedInv`), what a run's gate was opened for (`RunInv`), who is behind a check in progress (`ProgressInv`), when row and check agree (`SyncInv`), where a block is (`BlockInv`) and how many checks there are (`CountInv`, a count of the handlers
  that may still create one). From it: `GateTypes`, `OneCheckPerHeadAlways`, `RowTellsCheckAlways`, `BlockStandsAlways`, `InProgressHasRunAlways`, for any number of heads, handlers and faults.
* **`PreviewBuild_proofs`.** `PreviewInv` ties the three observers together: a Job that is gone was deleted by a later launch, the watcher or its own workflow's cancellation, or had ended and lived out its time, a pod is alive only under a launched Job, a Job that ended without a claim has no pod that could still make one unless
  it was deleted, and a row's status is its commit's own but for a stray write. From it: `PreviewTypes`, `ReadyIsRealAlways`, `GoneIsAccountedAlways` and the step property `DeadHasNotLivedAlways`.
* **`Investigator_proofs`.** `InvestigatorInv` says what a child's stage implies: how many runs, verdicts and plans there are in its iteration and which run is of which plan (`Numbered`, `AtPace`), what verdict an act is done for (`ActsFor`), and which plan a child leaves
  when it is done (`Leaves`) or dies (`LeftDead`). The plan alone says nothing without the last two: a rewrite that took effect and lost its answer is told from an edit without a reason only by the verdict it was made for. From it, for any number of tests, waves and
  failures: `InvestigatorTypes`, `EditsFollowVerdicts`, `VerdictsDecidePlan`, `RemovalsStand`. `SilenceCosts` charges two failures to every silent target, a sum over the set of targets that one step moves by one;
  `NothingStaysPending` needs to know who has a run that is unfinished (`InGoodHands`): its engine, the child that is at it, a child that died of creating it - or nobody, because it could not be marked. An engine that was
  cut off may mark its run at any later time without breaking this: from then on the run is in its hands.

Every safety and step property of every passing run is stated by a theorem, but two, which are only model-checked: `NothingStranded`, which a failed run breaks (it ends its workflow with events pending, section 5), and `ReasonToRun`, which a displaced run's open breaks
(section 3). `PlanStaysPart` and `ExhaustedWalletStaysBlocked` ask for floors of zero. Only model-checked, too, are the liveness properties (`PokedIsHandled`, `EveryRunSettles`, `EverySaleIsInvoiced`, `DueIsRecharged`), because fairness is out of the prover's reach.
`ExitsCaughtUp` is the safety half of `PokedIsHandled`: it says that a workflow that exits has left no poked event *unclaimed*, not that the event is handled; one that a terminated run claimed is claimed while the snapshot it left stays open (first behaviour listed in section 3).

## 5. What is not modelled, and what the models leave out

* In `AnalysisRun`, `ResolveHead` leaves out the fallback to the trigger's head when none is resolved (`analysis-run.workflow.ts:135`), which serves runs in flight across a deployment of the code, deployments recorded without a commit, and applications unlinked between
  trigger and resolution; `ShouldSkip` takes the gate's two reads as one step.
* In `AnalysisRun` the body of a run - impact analysis, previews, investigators, report - is a sequence of arbitrary suite edits between the open and the settlement. `Investigator` models the fan-out by itself, on a snapshot that stays open: that it may be
  settled meanwhile is `AnalysisRun`'s, and a settled snapshot takes no edits (`TerminalImmutable`).
* Of the investigators: what the classifier bases its verdict on (any verdict may come), the Reporter's reconciliation of issues, tests pinned without a plan, scenario instances, and a late effect of an activity that timed out, other than the engine's. An engine that dies when nobody awaits it is one that takes no further step.
* Notifications, comments, logging, analytics; `test_generation` rows beyond their status.
* A failed run ends its workflow even when events are pending (`analysisRunWorkflow` throws before the drain): the
  comment on `claimPending` documents it, the events stay reclaimable, and the model does the same; `NothingStranded` is checked without failures for that reason.
* Of billing: grace period, promo and free-start grants (the initial balance), `balance_after`; the kill switch on exhaustion is in `PreviewBuild`, whose account may run dry at any time; of refills, the choice
  of a package (there is one), alerts at thresholds of the cap, Vercel's overage invoice of a cycle and its not-paid webhook. A Stripe intent is refunded once and in full (`credits.service.ts:1165` adds partial refunds up); the status of an invoice and the grant it brings are one step (`vercel-webhook-handlers.ts:35` awaits them in turn);
  the daily retry takes any unbilled purchase (`vercel-credit-purchase.service.ts:195` takes the oldest, up to a limit, so that many stuck ones could starve a later one: `EverySaleIsInvoiced` speaks of fewer than that). `Credits` and `Recharge` are not composed: the first has purchases as webhooks of any kind, the second has a wallet
  that is drawn on arbitrarily (`Consume`). Prices are constants. The gate of usage stands for both floor gates; one admission leads to one charge.
* Of the gate: merge facts and the detection of bypasses, labels, comments, branch protection. A verdict is chosen when a run settles; how it is computed from the branch's results is left out.
* Of previews: a Job's own deadline, a rebuild of a commit that was built before, the reaper, the order of deployment over the service graph, the environments of main branches. More is allowed than the code does in two places: the watcher may delete any subset of the
  Jobs there are (some deletions fail, none happens after a teardown), and a redeployment may leave either status.
* The build circuit: it is off unless configured, and its comments make it advisory - concurrent evaluations may both probe, a reset may race one - so there is nothing it promises that could be checked.
* The fixed-point rounding of prices to millionths of a credit, and integer widths: amounts stay far below `int4`.

## 6. Plan

Done: the suite store, the pipeline with edit sessions, the wallet, its refills on both rails, the merge gate, the preview builds, the investigators, and proofs about each. Next, in order of importance:

1. `IssueLedger` - the Reporter's reconciliation of the branch's open issues with a run's findings, from which the verdict of the gate is computed.
2. `Investigator` as the body of `AnalysisRun`, in place of arbitrary edits, and `MergeGate` composed with it: the gate's run is an abstraction of the pipeline (start, open, settle, cancel), which a refinement mapping would show.
3. The reaper, and rebuilds of a commit, in `PreviewBuild`.
4. `ScenarioInstances` - what is brought up is taken down.

Theorems to come: `InProgressHasRun` carried over to the pipeline once 2. is done; what the modules above will promise.
