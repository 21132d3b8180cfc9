------------------------------- MODULE MergeGate -------------------------------
(***************************************************************************)
(* The `Autonoma` check of a pull request.                                 *)
(*                                                                         *)
(* Webhooks, requests, skips and the workers of a run all read, call       *)
(* GitHub and persist in turn, on the one check of a head commit; an       *)
(* advisory lock per head keeps them apart.  The lock lives in a           *)
(* transaction that times out while the work under it goes on, a call to   *)
(* GitHub may fail, and a process may die.                                 *)
(***************************************************************************)
EXTENDS Integers, Sequences, FiniteSets

CONSTANTS
    Heads,      \* head commits of the pull request
    Op,         \* handlers and activities at work
    None,       \* no head, nobody
    Verdicts,   \* conclusions a run may come to
    MaxMishaps  \* bound: pushes and faults per behaviour

ASSUME MergeGateAssumption ==
    /\ None \notin Heads \cup Op /\ IsFiniteSet(Op)
    /\ Verdicts \subseteq {"success", "failure", "neutral"} /\ MaxMishaps \in Nat

Says == {"in_progress", "neutral", "success", "failure"}
Kind == {"pending", "request", "open", "conclude", "skip"}

VARIABLES
    runs,       \* what starts a run: a push; under activationEnabled a request, or autoRunOnReadyForReview too
    head,       \* (GitHub) the pull request's head
    checks,     \* (GitHub) the checks posted on each head
    row,        \* github_check_run of each head: which check, and its conclusion (check 0: no row)
    mishaps,    \* (bound) pushes and faults so far
    rows,       \* heads with a row, in the order the rows were created
    skipped,    \* heads with a SkipRecord
    lock,       \* who holds each head's advisory lock
    op,         \* each handler: what it does, to which head, where it is, what it will post, on which check
    run,        \* the head the pull request's run is on, and whether it has opened its gate
    verdict,    \* (history) of each head: its last verdict blocks, and whether a request was declined since
    abandoned,  \* (history) heads the pull request moved off, or whose run was cancelled
    faults      \* (history) faults in the handling of each head

history == <<verdict, abandoned, faults>>
vars == <<runs, mishaps, head, checks, row, rows, skipped, lock, op, run, history>>

Idle == [kind |-> "pending", head |-> None, at |-> "idle", says |-> "neutral", check |-> 0]

TypeOK ==
    /\ runs \in {"on push", "on request", "when ready"} /\ head \in Heads /\ mishaps \in 0..MaxMishaps
    /\ checks \in [Heads -> Seq(Says)]
    /\ row \in [Heads -> [check : Nat, conclusion : Says]] /\ rows \in Seq(Heads)
    /\ skipped \subseteq Heads /\ lock \in [Heads -> Op \cup {None}]
    /\ op \in [Op -> [kind : Kind, head : Heads, says : Says, check : Nat,
                      at : {"waiting", "calling", "writing", "firing", "recording"}] \cup {Idle}]
    /\ run \in [head : Heads \cup {None}, opened : BOOLEAN]
    /\ verdict \in [Heads -> {"none", "blocks", "declined"}]
    /\ abandoned \subseteq Heads /\ faults \in [Heads -> Nat]

Init ==
    /\ runs \in {"on push", "on request", "when ready"} /\ head \in Heads /\ mishaps = 0
    /\ checks = [h \in Heads |-> <<>>] /\ row = [h \in Heads |-> [check |-> 0, conclusion |-> "in_progress"]]
    /\ rows = <<>> /\ skipped = {}
    /\ lock = [h \in Heads |-> None] /\ op = [p \in Op |-> Idle]
    /\ run = [head |-> None, opened |-> FALSE]
    /\ verdict = [h \in Heads |-> "none"] /\ abandoned = {}
    /\ faults = [h \in Heads |-> 0]

-----------------------------------------------------------------------------
(* The pull request and its run.                                           *)

OnlyRun == UNCHANGED <<runs, checks, row, rows, skipped, lock, verdict, faults>>

Mishap == mishaps < MaxMishaps /\ mishaps' = mishaps + 1

\* A push; a force push may bring an earlier head back.
Push ==
    /\ Mishap
    /\ \E h \in Heads \ {head} : head' = h
    /\ abandoned' = abandoned \cup {head}
    /\ UNCHANGED <<op, run>> /\ OnlyRun

On(h) == [head |-> h, opened |-> FALSE]

\* A run nobody asked the gate for (the preview is ready, a prompt): it displaces whatever runs.
StartRun ==
    /\ run' = On(head)
    /\ UNCHANGED <<head, mishaps, op, abandoned>> /\ OnlyRun

CancelRun ==
    /\ run.head # None /\ run' = On(None) /\ abandoned' = abandoned \cup {run.head}
    /\ UNCHANGED <<head, mishaps, op>> /\ OnlyRun

OpensGate == runs = "when ready"

Begin(p, kind, h, says, check) ==
    /\ op[p] = Idle
    /\ op' = [op EXCEPT ![p] = [kind |-> kind, head |-> h, at |-> "waiting", says |-> says, check |-> check]]

\* openMergeGate, a run's first stage.
OpenMergeGate(p) ==
    /\ OpensGate /\ run.head # None /\ ~run.opened
    /\ Begin(p, "open", run.head, "in_progress", 0)
    /\ run' = [run EXCEPT !.opened = TRUE]
    /\ UNCHANGED <<head, mishaps, abandoned>> /\ OnlyRun

\* A run settles, completed or failed, and goes on to conclude the gate with the branch's verdict.
SettleRun(p) ==
    /\ run.head # None /\ (OpensGate => run.opened)
    /\ \A q \in Op : op[q].kind = "open" => op[q].head # run.head
    /\ \E says \in Verdicts : Begin(p, "conclude", run.head, says, 0)
    /\ run' = On(None)
    /\ UNCHANGED <<head, mishaps, abandoned>> /\ OnlyRun

-----------------------------------------------------------------------------
(* The handlers: how each begins.                                          *)

OnlyOp == UNCHANGED <<runs, head, mishaps, checks, row, rows, skipped, lock, run, history>>

\* postPending: a webhook of a head the pull request has, or had.
PostPending(p) ==
    /\ \E h \in {head} \cup abandoned :
         Begin(p, "pending", h, IF runs = "on push" THEN "in_progress" ELSE "neutral", 0)
    /\ OnlyOp

\* requestAnalysisRun, on the head the pull request has now.  (A label asks first whether a run is in flight.)
RequestAnalysisRun(p) ==
    /\ runs # "on push" /\ Begin(p, "request", head, "in_progress", 0)
    /\ OnlyOp

\* applySkip: the newest row of the pull request, read without the lock, is blocking.
ApplySkip(p) ==
    /\ rows # <<>>
    /\ LET h == rows[Len(rows)] IN
         row[h].conclusion = "failure" /\ Begin(p, "skip", h, "neutral", row[h].check)
    /\ OnlyOp

-----------------------------------------------------------------------------
(* Under the lock: read, call GitHub, persist.                             *)

OnlyLocked == UNCHANGED <<runs, head, mishaps, abandoned, faults>>

Done(p) == op' = [op EXCEPT ![p] = Idle]
Unlock(p) == lock' = [h \in Heads |-> IF lock[h] = p THEN None ELSE lock[h]]
Goes(p, at) == op' = [op EXCEPT ![p].at = at]

\* Mutant of Acts: a check is posted whether there is one or not.
ActsAlways(o) == o.kind = "open" => row[o.head].check = 0 \/ row[o.head].conclusion = "neutral"

\* Whether the row leaves the handler anything to do.
Acts(o) ==
    /\ o.kind = "pending" => row[o.head].check = 0
    /\ o.kind = "open" => row[o.head].check = 0 \/ row[o.head].conclusion = "neutral"

\* Mutant of Enter: the row is read without the lock.
EnterUnlocked(p) ==
    LET o == op[p] IN
    /\ o.at = "waiting"
    /\ IF Acts(o)
         THEN /\ lock' = [lock EXCEPT ![o.head] = p]
              /\ op' = [op EXCEPT ![p].at = "calling", ![p].check = IF o.kind = "skip" THEN @ ELSE row[o.head].check]
         ELSE Done(p) /\ UNCHANGED lock
    /\ UNCHANGED <<checks, row, rows, skipped, run, verdict>> /\ OnlyLocked

\* The lock is taken, and the row read.
Enter(p) ==
    LET o == op[p] IN
    /\ o.at = "waiting" /\ lock[o.head] = None
    /\ IF Acts(o)
         THEN /\ lock' = [lock EXCEPT ![o.head] = p]
              /\ op' = [op EXCEPT ![p].at = "calling", ![p].check = IF o.kind = "skip" THEN @ ELSE row[o.head].check]
         ELSE Done(p) /\ UNCHANGED lock
    /\ UNCHANGED <<checks, row, rows, skipped, run, verdict>> /\ OnlyLocked

\* GitHub creates the check, or updates it.
Posted(o) ==
    /\ checks' = [checks EXCEPT ![o.head] =
                    IF o.check = 0 THEN Append(@, o.says) ELSE [@ EXCEPT ![o.check] = o.says]]
    /\ verdict' = [verdict EXCEPT ![o.head] =
                     CASE o.kind = "conclude" -> IF o.says = "failure" THEN "blocks" ELSE "none"
                       [] o.kind = "request" /\ o.says = "neutral" /\ @ = "blocks" -> "declined"
                       [] OTHER -> @]

Call(p) ==
    LET o == op[p] IN
    /\ o.at = "calling"
    /\ Posted(o)
    /\ op' = [op EXCEPT ![p].at = "writing", ![p].check = IF @ = 0 THEN Len(checks'[o.head]) ELSE @]
    /\ UNCHANGED <<row, rows, skipped, lock, run>> /\ OnlyLocked

\* What follows the row: a request fires its run, a skip is recorded, the rest is finished.
Written(p) ==
    LET o == op[p] IN
    IF o.kind = "request" /\ o.says = "in_progress" THEN Goes(p, "firing") /\ UNCHANGED lock
    ELSE IF o.kind = "skip" THEN Goes(p, "recording") /\ UNCHANGED lock
    ELSE Done(p) /\ Unlock(p)

\* Mutant of Write: a row that is there is not updated.
WriteNewRow(p) ==
    LET o == op[p] IN
    /\ o.at = "writing"
    /\ row' = [row EXCEPT ![o.head] = IF @.check # 0 THEN @ ELSE [check |-> o.check, conclusion |-> o.says]]
    /\ rows' = IF row[o.head].check = 0 THEN Append(rows, o.head) ELSE rows
    /\ Written(p)
    /\ UNCHANGED <<checks, skipped, run, verdict>> /\ OnlyLocked

\* upsert of the row, or setConclusion where a verdict or a skip updated its check.
Write(p) ==
    LET o == op[p] IN
    /\ o.at = "writing"
    /\ row' = [row EXCEPT ![o.head] =
                [check |-> IF o.kind \in {"conclude", "skip"} /\ @.check # 0 THEN @.check ELSE o.check,
                 conclusion |-> o.says]]
    /\ rows' = IF row[o.head].check = 0 THEN Append(rows, o.head) ELSE rows
    /\ Written(p)
    /\ UNCHANGED <<checks, skipped, run, verdict>> /\ OnlyLocked

\* The request's run is started, or the one whose snapshot is open is joined: on the head there is by now.
Fire(p) ==
    /\ op[p].at = "firing"
    /\ run' = On(head) \/ (run.head = head /\ run' = run)
    /\ Done(p) /\ Unlock(p)
    /\ UNCHANGED <<checks, row, rows, skipped, verdict>> /\ OnlyLocked

\* Mutant of Decline: the check is not restored.
DeclineOnly(p) ==
    /\ op[p].at = "firing" /\ Done(p) /\ Unlock(p)
    /\ UNCHANGED <<checks, row, rows, skipped, run, verdict>> /\ OnlyLocked

\* No run starts: that head is analyzed already, or the trigger refuses, defers or throws - which it
\* may do after the run has started.  The check is restored (restoreUnrequestedCheck).
Decline(p) ==
    /\ op[p].at = "firing"
    /\ run' \in {run, On(head)}
    /\ op' = [op EXCEPT ![p].at = "calling", ![p].says = "neutral"]
    /\ UNCHANGED <<checks, row, rows, skipped, lock, verdict>> /\ OnlyLocked

RecordSkip(p) ==
    /\ op[p].at = "recording"
    /\ skipped' = skipped \cup {op[p].head}
    /\ Done(p) /\ Unlock(p)
    /\ UNCHANGED <<checks, row, rows, run, verdict>> /\ OnlyLocked

-----------------------------------------------------------------------------
(* Faults.                                                                 *)

Fault(h) ==
    /\ Mishap /\ faults' = [faults EXCEPT ![h] = @ + 1]
    /\ UNCHANGED <<runs, head, row, rows, skipped, run, abandoned>>

\* A call fails, perhaps after GitHub has done it, and ends the handler.
CallFails(p) ==
    /\ op[p].at = "calling" /\ Fault(op[p].head)
    /\ Posted(op[p]) \/ UNCHANGED <<checks, verdict>>
    /\ Done(p) /\ Unlock(p)

\* The handler's process dies, or a statement fails.
Crash(p) ==
    /\ op[p] # Idle /\ Fault(op[p].head)
    /\ Done(p) /\ Unlock(p)
    /\ UNCHANGED <<checks, verdict>>

\* The transaction that holds the lock times out; the work under it goes on.
LockExpires(p) ==
    /\ \E h \in Heads : lock[h] = p /\ Fault(h)
    /\ Unlock(p)
    /\ UNCHANGED <<checks, op, verdict>>

Next ==
    \/ Push \/ StartRun \/ CancelRun
    \/ \E p \in Op :
         \/ OpenMergeGate(p) \/ SettleRun(p) \/ PostPending(p) \/ RequestAnalysisRun(p) \/ ApplySkip(p)
         \/ Enter(p) \/ Call(p) \/ Write(p) \/ Fire(p) \/ Decline(p) \/ RecordSkip(p)
         \/ CallFails(p) \/ Crash(p) \/ LockExpires(p)

Spec == Init /\ [][Next]_vars

-----------------------------------------------------------------------------
(* Properties.                                                             *)

\* A head nobody is at work on under the lock, and none of whose handlers met a fault.
Quiet(h) == lock[h] = None /\ faults[h] = 0

\* One check per head (runExclusive "cannot both create a GitHub check run for the same head"),
\* whatever webhooks, requests and verdicts race for it; each fault costs at most one more.
OneCheckPerHead == \A h \in Heads : Len(checks[h]) <= 1 + faults[h]

\* What the skip command and the bypass detection read is what GitHub shows: between handlers the row
\* of a head agrees with its check.
RowTellsCheck ==
    \A h \in Heads : Quiet(h) =>
        IF row[h].check = 0 THEN checks[h] = <<>> ELSE checks[h] = <<row[h].conclusion>>

\* A verdict blocks until it is lifted: no late webhook, re-run or second handler turns a head's failing
\* check into a mergeable one, but a recorded skip - or a request that started nothing.
BlockStands ==
    \A h \in Heads : Quiet(h) /\ verdict[h] = "blocks" =>
        h \in skipped \/ \A i \in 1..Len(checks[h]) : checks[h][i] \in {"failure", "in_progress"}

\* A required check never wedges the merge (requestAnalysisRun, restoreUnrequestedCheck): where nothing
\* runs unasked, a check in progress has a run behind it or a handler on its way - unless the pull
\* request moved off that head, or its run was cancelled.
InProgressHasRun ==
    \A h \in Heads \ abandoned : runs # "on push" /\ Quiet(h) /\ row[h].check # 0 /\ row[h].conclusion = "in_progress" =>
        run.head = h \/ \E p \in Op : op[p].head = h

\* What the summary of a failing check says of it: "Fix them, or comment `/autonoma-skip <reason>` on
\* the PR to merge anyway".
BlockLiftedOnlyBySkip ==
    \A h \in Heads : Quiet(h) /\ verdict[h] # "none" /\ checks[h] = <<"neutral">> => h \in skipped

=============================================================================
