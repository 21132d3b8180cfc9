---------------------------- MODULE BranchSuite ----------------------------
(***************************************************************************)
(* The suite lineage of an application's branches                          *)
(* (packages/test-suite).                                                  *)
(*                                                                         *)
(* A branch's test suite evolves through snapshots.  At most one snapshot  *)
(* of a branch is open (`processing`) and can be written; it ends in one   *)
(* of three terminals, and each terminal IS the compare-and-swap that      *)
(* decides which of several actors settled it.  Actors - analysis runs,    *)
(* edit sessions, superseding runs - hold nothing but a snapshot id and a  *)
(* source resolved some time ago, so SuiteNext lets any of them act with   *)
(* any snapshot and any source that was ever resolvable.                   *)
(*                                                                         *)
(* One step is one database transaction of the code.                       *)
(***************************************************************************)
EXTENDS FiniteSets

CONSTANTS
    Branch,      \* the branches of one application
    MainBranch,  \* application.mainBranchId
    Snapshot,    \* identities branch_snapshot rows can take (bounds how many are opened)
    Sha,         \* commits
    Test,        \* test cases
    Plan,        \* test plan records
    NoSnapshot, NoSha, NoPlan

ASSUME BranchAssumption == MainBranch \in Branch
ASSUME NullAssumption   == NoSnapshot \notin Snapshot /\ NoSha \notin Sha /\ NoPlan \notin Plan

VARIABLES
    status,           \* branch_snapshot.status, "absent" before the row exists
    row,              \* the columns of a snapshot that are written once, when it is opened
    assignment,       \* test_case_assignment: the plan a snapshot pins for each test
    activeSnapshot,   \* branch.activeSnapshotId
    pendingSnapshot,  \* branch.pendingSnapshotId
    baseSnapshot      \* branch.baseSnapshotId

suiteVars == <<status, row, assignment, activeSnapshot, pendingSnapshot, baseSnapshot>>

SnapshotStatus == {"absent", "processing", "active", "superseded", "failed", "cancelled"}
TriggerSource  == {"WEBHOOK", "MANUAL"}
Terminal       == {"active", "superseded", "failed", "cancelled"}

Suite == [Test -> Plan \cup {NoPlan}]
EmptySuite == [t \in Test |-> NoPlan]

Row == [branch: Branch, trigger: TriggerSource, head: Sha \cup {NoSha},
        base: Sha \cup {NoSha}, prev: Snapshot \cup {NoSnapshot}]
BlankRow == [branch |-> MainBranch, trigger |-> "MANUAL", head |-> NoSha,
             base |-> NoSha, prev |-> NoSnapshot]

SuiteTypeOK ==
    /\ status \in [Snapshot -> SnapshotStatus]
    /\ row \in [Snapshot -> Row]
    /\ assignment \in [Snapshot -> Suite]
    /\ activeSnapshot \in [Branch -> Snapshot \cup {NoSnapshot}]
    /\ pendingSnapshot \in [Branch -> Snapshot \cup {NoSnapshot}]
    /\ baseSnapshot \in [Branch -> Snapshot \cup {NoSnapshot}]

SuiteInit ==
    /\ status = [s \in Snapshot |-> "absent"]
    /\ row = [s \in Snapshot |-> BlankRow]
    /\ assignment = [s \in Snapshot |-> EmptySuite]
    /\ activeSnapshot = [b \in Branch |-> NoSnapshot]
    /\ pendingSnapshot = [b \in Branch |-> NoSnapshot]
    /\ baseSnapshot = [b \in Branch |-> NoSnapshot]

-----------------------------------------------------------------------------
(* Resolving what a snapshot would fork from: a read, outside any lock.    *)

OwnSource(b, src) == src # NoSnapshot /\ row[src].branch = b

\* The branch's own active snapshot, else the main branch's, else nothing.
ResolveSource(b) ==
    IF activeSnapshot[b] # NoSnapshot THEN activeSnapshot[b] ELSE activeSnapshot[MainBranch]

DeriveBaseSha(b, src, fallback) ==
    IF OwnSource(b, src) /\ row[src].head # NoSha THEN row[src].head ELSE fallback

AlreadyAnalyzed(b, head, fallback) ==
    /\ DeriveBaseSha(b, ResolveSource(b), fallback) # NoSha
    /\ DeriveBaseSha(b, ResolveSource(b), fallback) = head

\* The compare half of an open: the source still names the branch's active snapshot.
SourceStillCurrent(b, src) ==
    activeSnapshot[b] = IF OwnSource(b, src) THEN src ELSE NoSnapshot

-----------------------------------------------------------------------------
(* The two ways a snapshot is opened, under the branch row's lock.         *)

CreateSnapshot(b, s, trigger, head, base, src) ==
    /\ status[s] = "absent"
    /\ pendingSnapshot[b] = NoSnapshot          \* else BranchAlreadyOpenError
    /\ status' = [status EXCEPT ![s] = "processing"]
    /\ row' = [row EXCEPT ![s] = [branch |-> b, trigger |-> trigger, head |-> head,
                                  base |-> base, prev |-> src]]
    /\ assignment' = [assignment EXCEPT ![s] = IF src = NoSnapshot THEN EmptySuite ELSE assignment[src]]
    /\ pendingSnapshot' = [pendingSnapshot EXCEPT ![b] = s]

\* Mutant of OpenSnapshot: the source is trusted as it was resolved.
OpenFromStaleSource(b, s, head, src, fallback) ==
    /\ DeriveBaseSha(b, src, fallback) # NoSha
    /\ CreateSnapshot(b, s, "WEBHOOK", head, DeriveBaseSha(b, src, fallback), src)
    /\ baseSnapshot' = [baseSnapshot EXCEPT ![b] =
                          IF @ = NoSnapshot /\ src # NoSnapshot /\ ~OwnSource(b, src) THEN src ELSE @]
    /\ UNCHANGED activeSnapshot

OpenSnapshot(b, s, head, src, fallback) ==
    /\ SourceStillCurrent(b, src)               \* else SourceMovedError
    /\ DeriveBaseSha(b, src, fallback) # NoSha  \* else NoSnapshotBaseError
    /\ CreateSnapshot(b, s, "WEBHOOK", head, DeriveBaseSha(b, src, fallback), src)
    /\ baseSnapshot' = [baseSnapshot EXCEPT ![b] =
                          IF @ = NoSnapshot /\ src # NoSnapshot /\ ~OwnSource(b, src) THEN src ELSE @]
    /\ UNCHANGED activeSnapshot

OpenEditSnapshot(b, s) ==
    LET src == activeSnapshot[b]
        head == IF src = NoSnapshot THEN NoSha ELSE row[src].head
    IN  /\ CreateSnapshot(b, s, "MANUAL", head, head, src)
        /\ UNCHANGED <<activeSnapshot, baseSnapshot>>

-----------------------------------------------------------------------------
(* Suite edits.  Each asserts, inside its own transaction, that the        *)
(* snapshot its handle names is still open.                                *)

\* Mutant of Assign: a handle's snapshot is assumed to be open still.
AssignUnchecked(s, t, p) ==
    /\ status[s] # "absent"
    /\ assignment' = [assignment EXCEPT ![s][t] = p]
    /\ UNCHANGED <<status, row, activeSnapshot, pendingSnapshot, baseSnapshot>>

Assign(s, t, p) ==
    /\ status[s] = "processing"
    /\ assignment' = [assignment EXCEPT ![s][t] = p]
    /\ UNCHANGED <<status, row, activeSnapshot, pendingSnapshot, baseSnapshot>>

\* addTest and adoptTest: the test joins the suite with a first plan.
AddTest(s, t, p) == assignment[s][t] = NoPlan /\ Assign(s, t, p)

\* revisePlan mints a plan, restorePlan repoints at an earlier one.
RevisePlan(s, t, p) == assignment[s][t] # NoPlan /\ Assign(s, t, p)

DropTest(s, t) == Assign(s, t, NoPlan)

DiscardTest(s, t) ==
    Assign(s, t, IF row[s].prev = NoSnapshot THEN NoPlan ELSE assignment[row[s].prev][t])

-----------------------------------------------------------------------------
(* The terminals.                                                          *)

\* The compare-and-swap: still open, and still the branch's pending snapshot.
CanClaimTerminal(s) ==
    /\ status[s] = "processing"
    /\ pendingSnapshot[row[s].branch] = s

\* Mutant of Promote: only the status is compared, and only loosely.
PromoteClosed(s) ==
    LET b == row[s].branch IN
    /\ status[s] \in {"processing", "cancelled"}
    /\ status' = [x \in Snapshot |-> IF x = activeSnapshot[b] THEN "superseded"
                                     ELSE IF x = s THEN "active" ELSE status[x]]
    /\ activeSnapshot' = [activeSnapshot EXCEPT ![b] = s]
    /\ pendingSnapshot' = [pendingSnapshot EXCEPT ![b] = NoSnapshot]
    /\ UNCHANGED <<row, assignment, baseSnapshot>>

Promote(s) ==
    LET b == row[s].branch
        previous == activeSnapshot[b]
    IN  /\ CanClaimTerminal(s)
        /\ status' = [x \in Snapshot |-> IF x = previous THEN "superseded"
                                         ELSE IF x = s THEN "active" ELSE status[x]]
        /\ activeSnapshot' = [activeSnapshot EXCEPT ![b] = s]
        /\ pendingSnapshot' = [pendingSnapshot EXCEPT ![b] = NoSnapshot]
        /\ UNCHANGED <<row, assignment, baseSnapshot>>

\* Mutant of CloseSnapshot: the branch's pointer is left behind.
CloseStatusOnly(s, outcome) ==
    /\ CanClaimTerminal(s)
    /\ status' = [status EXCEPT ![s] = outcome]
    /\ UNCHANGED <<row, assignment, activeSnapshot, pendingSnapshot, baseSnapshot>>

CloseSnapshot(s, outcome) ==
    /\ CanClaimTerminal(s)
    /\ status' = [status EXCEPT ![s] = outcome]
    /\ pendingSnapshot' = [pendingSnapshot EXCEPT ![row[s].branch] = NoSnapshot]
    /\ UNCHANGED <<row, assignment, activeSnapshot, baseSnapshot>>

-----------------------------------------------------------------------------
\* Sources an actor may still be holding: snapshots that are, or once were, active.
OnceResolvable(b) ==
    {NoSnapshot} \cup {s \in Snapshot : /\ status[s] \in {"active", "superseded"}
                                        /\ row[s].branch \in {b, MainBranch}}

EditSuite(s) ==
    \E t \in Test :
        \/ \E p \in Plan : AddTest(s, t, p) \/ RevisePlan(s, t, p)
        \/ DropTest(s, t)
        \/ DiscardTest(s, t)

SettleSnapshot(s) == Promote(s) \/ \E outcome \in {"failed", "cancelled"} : CloseSnapshot(s, outcome)

OpenAny(s) ==
    \E b \in Branch :
        \/ \E head \in Sha, src \in OnceResolvable(b), fallback \in Sha \cup {NoSha} :
              OpenSnapshot(b, s, head, src, fallback)
        \/ OpenEditSnapshot(b, s)

SuiteNext == \E s \in Snapshot : OpenAny(s) \/ EditSuite(s) \/ SettleSnapshot(s)

SuiteSpec == SuiteInit /\ [][SuiteNext]_suiteVars

-----------------------------------------------------------------------------
(* Properties *)

\* A branch's pointers and its snapshots' statuses never disagree: the pending
\* pointer names the one open snapshot and the active pointer the one live suite,
\* whatever order opens, supersedes, promotions and edit sessions happen in
\* (openSnapshot, promote and close each write a status and a pointer).
PointersAgree ==
    \A s \in Snapshot, b \in Branch :
        /\ pendingSnapshot[b] = s <=> (status[s] = "processing" /\ row[s].branch = b)
        /\ activeSnapshot[b] = s <=> (status[s] = "active" /\ row[s].branch = b)

\* The open snapshot of a branch was forked from the suite that is active NOW, so
\* promoting it cannot drop what a promotion in between carried; a branch with no
\* suite of its own can only be open on main's suite or on nothing
\* (assertSourceStillCurrent, test-suite-store.ts).
ForkedFromCurrent ==
    \A b \in Branch : pendingSnapshot[b] # NoSnapshot =>
        LET prev == row[pendingSnapshot[b]].prev
        IN  IF activeSnapshot[b] # NoSnapshot THEN prev = activeSnapshot[b]
            ELSE prev # NoSnapshot => row[prev].branch # b

\* A settled snapshot is immutable: no handle held across a settlement writes through
\* it, and the only later change is a live suite being superseded by the promotion
\* that replaces it (assertOpen and claimTerminal, open-snapshot.ts).
TerminalImmutable ==
    [][\A s \in Snapshot : status[s] \in Terminal =>
          /\ assignment'[s] = assignment[s] /\ row'[s] = row[s]
          /\ status'[s] # status[s] =>
                /\ status[s] = "active" /\ status'[s] = "superseded"
                /\ activeSnapshot'[row[s].branch] \notin {s, NoSnapshot}]_suiteVars

\* The detailed module implements the abstract one: a branch's live suite is what its
\* active snapshot assigns, its transaction is its open snapshot.
LiveSuite(b) == IF activeSnapshot[b] = NoSnapshot THEN EmptySuite ELSE assignment[activeSnapshot[b]]
DraftSuite(b) == IF pendingSnapshot[b] = NoSnapshot THEN EmptySuite ELSE assignment[pendingSnapshot[b]]

Transactions == INSTANCE SuiteTransactions WITH
    live <- {b \in Branch : activeSnapshot[b] # NoSnapshot},
    suite <- [b \in Branch |-> LiveSuite(b)],
    open <- {b \in Branch : pendingSnapshot[b] # NoSnapshot},
    draft <- [b \in Branch |-> DraftSuite(b)],
    published <- {assignment[s] : s \in {x \in Snapshot : /\ status[x] \in {"active", "superseded"}
                                                         /\ row[x].branch = MainBranch}}

\* Every open, edit and terminal of a snapshot is a begin, write, commit or abort of a
\* transaction on the branch's suite: no promotion is ever lost to a concurrent one,
\* and a closed snapshot leaves the live suite as it was.
ImplementsTransactions == Transactions!TxSpec
=============================================================================
