------------------------- MODULE BranchSuite_proofs -------------------------
(***************************************************************************)
(* The suite lineage is correct for any number of branches, snapshots,     *)
(* commits and tests: types, pointer agreement, forking from the current   *)
(* suite, and the implementation of SuiteTransactions.                     *)
(***************************************************************************)
EXTENDS BranchSuite, TLAPS

\* A source, once recorded as a predecessor, is a row that exists - so its branch never
\* changes again.
PrevExists ==
    \A s \in Snapshot : row[s].prev # NoSnapshot => status[row[s].prev] # "absent"

\* The inductive invariant: the two properties and what their induction rests on.
SuiteInv == SuiteTypeOK /\ PointersAgree /\ ForkedFromCurrent /\ PrevExists

\* An application with no snapshot satisfies the invariant.
LEMMA SuiteInitInv == SuiteInit => SuiteInv
  BY NullAssumption, BranchAssumption
  DEF SuiteInit, SuiteInv, SuiteTypeOK, PointersAgree, ForkedFromCurrent, PrevExists, SnapshotStatus,
      Row, BlankRow, Suite, EmptySuite, TriggerSource

\* Inserting the row and pointing the branch at it, from a source that is the branch's
\* active snapshot or, without one, another branch's (reopen under the branch lock).
LEMMA CreateInv ==
  ASSUME SuiteInv, NEW b \in Branch, NEW s \in Snapshot, NEW trigger \in TriggerSource,
         NEW head \in Sha \cup {NoSha}, NEW base \in Sha \cup {NoSha},
         NEW src \in Snapshot \cup {NoSnapshot},
         src # NoSnapshot => status[src] # "absent",
         IF activeSnapshot[b] # NoSnapshot THEN src = activeSnapshot[b]
            ELSE src # NoSnapshot => row[src].branch # b,
         CreateSnapshot(b, s, trigger, head, base, src),
         UNCHANGED activeSnapshot,
         baseSnapshot' \in [Branch -> Snapshot \cup {NoSnapshot}]
  PROVE  SuiteInv'
<1> USE NullAssumption DEF SuiteInv, CreateSnapshot
<1>1. SuiteTypeOK'
  BY DEF SuiteTypeOK, SnapshotStatus, Row, Suite, EmptySuite
<1>2. PointersAgree'
  BY DEF PointersAgree, SuiteTypeOK, Row
<1>3. ForkedFromCurrent'
  BY DEF ForkedFromCurrent, PointersAgree, PrevExists, SuiteTypeOK, Row
<1>4. PrevExists'
  BY DEF PrevExists, SuiteTypeOK, Row
<1>5. QED BY <1>1, <1>2, <1>3, <1>4

\* Both ways of opening a snapshot (openSnapshot, openEditSnapshot) are such an insert.
LEMMA OpenInv ==
  ASSUME SuiteInv, NEW s \in Snapshot, OpenAny(s)
  PROVE  SuiteInv'
<1>1. ASSUME NEW b \in Branch, NEW head \in Sha, NEW src \in OnceResolvable(b),
             NEW fallback \in Sha \cup {NoSha}, OpenSnapshot(b, s, head, src, fallback)
      PROVE  SuiteInv'
  <2>1. src \in Snapshot \cup {NoSnapshot} /\ (src # NoSnapshot => status[src] # "absent")
    BY <1>1 DEF OnceResolvable
  <2>2. IF activeSnapshot[b] # NoSnapshot THEN src = activeSnapshot[b]
        ELSE src # NoSnapshot => row[src].branch # b
    BY <1>1, <2>1 DEF OpenSnapshot, SourceStillCurrent, OwnSource
  <2>3. DeriveBaseSha(b, src, fallback) \in Sha \cup {NoSha}
    BY <2>1, <1>1, NullAssumption DEF DeriveBaseSha, OwnSource, SuiteInv, SuiteTypeOK, Row
  <2>4. baseSnapshot' \in [Branch -> Snapshot \cup {NoSnapshot}]
    BY <1>1, <2>1 DEF OpenSnapshot, SuiteInv, SuiteTypeOK
  <2>5. CreateSnapshot(b, s, "WEBHOOK", head, DeriveBaseSha(b, src, fallback), src) /\ UNCHANGED activeSnapshot
    BY <1>1 DEF OpenSnapshot
  <2>6. QED BY <2>1, <2>2, <2>3, <2>4, <2>5, CreateInv DEF TriggerSource
<1>2. ASSUME NEW b \in Branch, OpenEditSnapshot(b, s)
      PROVE  SuiteInv'
  <2> DEFINE src == activeSnapshot[b]
             head == IF src = NoSnapshot THEN NoSha ELSE row[src].head
  <2>1. src \in Snapshot \cup {NoSnapshot} /\ (src # NoSnapshot => status[src] # "absent")
    BY DEF SuiteInv, SuiteTypeOK, PointersAgree
  <2>2. head \in Sha \cup {NoSha}
    BY <2>1 DEF SuiteInv, SuiteTypeOK, Row
  <2>3. CreateSnapshot(b, s, "MANUAL", head, head, src) /\ UNCHANGED <<activeSnapshot, baseSnapshot>>
    BY <1>2 DEF OpenEditSnapshot
  <2>4. baseSnapshot' \in [Branch -> Snapshot \cup {NoSnapshot}]
    BY <2>3 DEF SuiteInv, SuiteTypeOK
  <2> HIDE DEF src, head
  <2>5. IF activeSnapshot[b] # NoSnapshot THEN src = activeSnapshot[b]
        ELSE src # NoSnapshot => row[src].branch # b
    BY DEF src
  <2>6. QED BY <2>1, <2>2, <2>3, <2>4, <2>5, CreateInv DEF TriggerSource
<1>3. QED BY <1>1, <1>2 DEF OpenAny

\* The suite edits all have this shape.
LEMMA AssignInv ==
  ASSUME SuiteInv, NEW s \in Snapshot, NEW t \in Test, NEW p \in Plan \cup {NoPlan}, Assign(s, t, p)
  PROVE  SuiteInv'
  BY DEF Assign, SuiteInv, SuiteTypeOK, Suite, PointersAgree, ForkedFromCurrent, PrevExists

\* Whatever an edit writes is a plan or the absence of one.
LEMMA EditIsAssign ==
  ASSUME SuiteInv, NEW s \in Snapshot, EditSuite(s)
  PROVE  \E t \in Test, p \in Plan \cup {NoPlan} : Assign(s, t, p)
<1>1. ASSUME NEW t \in Test, DiscardTest(s, t)
      PROVE  \E p \in Plan \cup {NoPlan} : Assign(s, t, p)
  <2>1. (IF row[s].prev = NoSnapshot THEN NoPlan ELSE assignment[row[s].prev][t]) \in Plan \cup {NoPlan}
    BY DEF SuiteInv, SuiteTypeOK, Row, Suite
  <2>2. QED BY <1>1, <2>1 DEF DiscardTest
<1>2. QED BY <1>1 DEF EditSuite, AddTest, RevisePlan, DropTest

\* No suite edit (addTest, revisePlan, restorePlan, dropTest, discardTest) disturbs it.
LEMMA EditInv ==
  ASSUME SuiteInv, NEW s \in Snapshot, EditSuite(s)
  PROVE  SuiteInv'
  BY EditIsAssign, AssignInv

\* Neither does a terminal (promote, fail, cancel): the pointer is cleared with the status.
LEMMA SettleInv ==
  ASSUME SuiteInv, NEW s \in Snapshot, SettleSnapshot(s)
  PROVE  SuiteInv'
<1> USE NullAssumption DEF SuiteInv
<1>1. CASE Promote(s)
  <2> USE <1>1 DEF Promote, CanClaimTerminal
  <2>1. SuiteTypeOK'   BY DEF SuiteTypeOK, SnapshotStatus, Row
  <2>2. PointersAgree' BY DEF SuiteTypeOK, PointersAgree, Row
  <2>3. ForkedFromCurrent' BY DEF SuiteTypeOK, ForkedFromCurrent, PointersAgree, Row
  <2>4. PrevExists'    BY DEF SuiteTypeOK, PrevExists, Row
  <2>5. QED BY <2>1, <2>2, <2>3, <2>4
<1>2. ASSUME NEW outcome \in {"failed", "cancelled"}, CloseSnapshot(s, outcome)
      PROVE  SuiteInv'
  <2> USE <1>2 DEF CloseSnapshot, CanClaimTerminal
  <2>1. SuiteTypeOK'   BY DEF SuiteTypeOK, SnapshotStatus, Row
  <2>2. PointersAgree' BY DEF SuiteTypeOK, PointersAgree, Row
  <2>3. ForkedFromCurrent' BY DEF SuiteTypeOK, ForkedFromCurrent, Row
  <2>4. PrevExists'    BY DEF SuiteTypeOK, PrevExists, Row
  <2>5. QED BY <2>1, <2>2, <2>3, <2>4
<1>3. QED BY <1>1, <1>2 DEF SettleSnapshot

\* The induction step over every action.
LEMMA SuiteStepInv == SuiteInv /\ [SuiteNext]_suiteVars => SuiteInv'
<1> SUFFICES ASSUME SuiteInv, [SuiteNext]_suiteVars PROVE SuiteInv'
  OBVIOUS
<1>1. CASE UNCHANGED suiteVars
  BY <1>1 DEF suiteVars, SuiteInv, SuiteTypeOK, PointersAgree, ForkedFromCurrent, PrevExists
<1>2. CASE SuiteNext
  BY <1>2, OpenInv, EditInv, SettleInv DEF SuiteNext
<1>3. QED BY <1>1, <1>2

\* For any number of branches, snapshots and tests, every interleaving of opens, edits
\* and terminals (test-suite-store.ts, open-snapshot.ts) keeps the inductive invariant.
THEOREM SuiteInvariant == SuiteSpec => []SuiteInv
  BY SuiteInitInv, SuiteStepInv, PTL DEF SuiteSpec

-----------------------------------------------------------------------------
(* What the invariant is for.                                              *)

\* Every row of the suite store keeps its type, whatever the interleaving.
THEOREM SuiteTypes == SuiteSpec => []SuiteTypeOK
  BY SuiteInvariant, PTL DEF SuiteInv

\* Pointers and statuses agree in every reachable state.
THEOREM PointersAlwaysAgree == SuiteSpec => []PointersAgree
  BY SuiteInvariant, PTL DEF SuiteInv

\* The open snapshot is always a fork of the suite that is active now, so a promotion
\* never discards what another one carried (assertSourceStillCurrent).
THEOREM AlwaysForkedFromCurrent == SuiteSpec => []ForkedFromCurrent
  BY SuiteInvariant, PTL DEF SuiteInv

\* The action of TerminalImmutable.
KeepsSettled ==
    \A s \in Snapshot : status[s] \in Terminal =>
        /\ assignment'[s] = assignment[s] /\ row'[s] = row[s]
        /\ status'[s] # status[s] =>
              /\ status[s] = "active" /\ status'[s] = "superseded"
              /\ activeSnapshot'[row[s].branch] \notin {s, NoSnapshot}

\* Opens insert a row that did not exist; edits and terminals need an open snapshot.
LEMMA StepKeepsSettled == SuiteInv /\ [SuiteNext]_suiteVars => KeepsSettled
<1> SUFFICES ASSUME SuiteInv, [SuiteNext]_suiteVars, NEW s \in Snapshot, status[s] \in Terminal
             PROVE  /\ assignment'[s] = assignment[s] /\ row'[s] = row[s]
                    /\ status'[s] # status[s] =>
                         /\ status[s] = "active" /\ status'[s] = "superseded"
                         /\ activeSnapshot'[row[s].branch] \notin {s, NoSnapshot}
  BY DEF KeepsSettled
<1> USE NullAssumption DEF SuiteInv, SuiteTypeOK, Terminal
<1>1. CASE UNCHANGED suiteVars
  BY <1>1 DEF suiteVars
<1>2. ASSUME NEW x \in Snapshot, OpenAny(x) PROVE status[x] = "absent" /\ assignment'[s] = assignment[s]
                                                    /\ row'[s] = row[s] /\ status'[s] = status[s]
  BY <1>2 DEF OpenAny, OpenSnapshot, OpenEditSnapshot, CreateSnapshot
<1>3. ASSUME NEW x \in Snapshot, EditSuite(x) PROVE assignment'[s] = assignment[s]
                                                    /\ row'[s] = row[s] /\ status'[s] = status[s]
  BY <1>3, EditIsAssign DEF Assign
<1>4. ASSUME NEW x \in Snapshot, Promote(x)
      PROVE  /\ assignment' = assignment /\ row' = row
             /\ status'[s] # status[s] =>
                  /\ status[s] = "active" /\ status'[s] = "superseded"
                  /\ activeSnapshot'[row[s].branch] \notin {s, NoSnapshot}
  BY <1>4 DEF Promote, CanClaimTerminal, PointersAgree, Row
<1>5. ASSUME NEW x \in Snapshot, NEW outcome, CloseSnapshot(x, outcome)
      PROVE  assignment' = assignment /\ row' = row /\ status'[s] = status[s]
  BY <1>5 DEF CloseSnapshot, CanClaimTerminal
<1>6. QED BY <1>1, <1>2, <1>3, <1>4, <1>5 DEF SuiteNext, SettleSnapshot

\* No handle held across a settlement can write through it (assertOpen, claimTerminal).
THEOREM SettledIsImmutable == SuiteSpec => TerminalImmutable
<1>1. SuiteSpec => [][SuiteInv /\ SuiteInv' /\ [SuiteNext]_suiteVars]_suiteVars
  BY SuiteInvariant, PTL DEF SuiteSpec
<1>2. [SuiteInv /\ SuiteInv' /\ [SuiteNext]_suiteVars]_suiteVars => [KeepsSettled]_suiteVars
  BY StepKeepsSettled
<1>3. QED BY <1>1, <1>2, PTL DEF TerminalImmutable, KeepsSettled

-----------------------------------------------------------------------------
(* The refinement of SuiteTransactions.  Each lemma maps one kind of step. *)

\* The suites the main branch has published, as the refinement maps them.
Published == {assignment[s] : s \in {x \in Snapshot : /\ status[x] \in {"active", "superseded"}
                                                       /\ row[x].branch = MainBranch}}

\* Opening a snapshot begins a transaction on the branch's live suite, or, for a branch
\* with no suite, on nothing or on a suite main has published.
LEMMA CreateBegins ==
  ASSUME SuiteInv, SuiteInv', NEW b \in Branch, NEW s \in Snapshot, NEW trigger, NEW head, NEW base,
         NEW src \in OnceResolvable(b),
         IF activeSnapshot[b] # NoSnapshot THEN src = activeSnapshot[b]
            ELSE src # NoSnapshot => row[src].branch # b,
         CreateSnapshot(b, s, trigger, head, base, src),
         UNCHANGED activeSnapshot
  PROVE  Transactions!Begin(b)
<1> USE NullAssumption DEF SuiteInv, SuiteTypeOK
<1>1. /\ status[s] = "absent" /\ pendingSnapshot[b] = NoSnapshot
      /\ src # NoSnapshot => src # s /\ src \in Snapshot
      /\ pendingSnapshot' = [pendingSnapshot EXCEPT ![b] = s]
      /\ assignment' = [assignment EXCEPT ![s] = IF src = NoSnapshot THEN EmptySuite ELSE assignment[src]]
  BY DEF CreateSnapshot, OnceResolvable
<1>2. \A x \in Snapshot : x # s => /\ status'[x] = status[x] /\ row'[x] = row[x]
                                   /\ assignment'[x] = assignment[x]
  BY DEF CreateSnapshot
<1>3. status'[s] = "processing"
  BY DEF CreateSnapshot
<1>4. \A c \in Branch : LiveSuite(c)' = LiveSuite(c)
  <2>1. \A c \in Branch : activeSnapshot[c] # s
    BY <1>1 DEF PointersAgree
  <2>2. QED BY <2>1, <1>2 DEF LiveSuite
<1>5. Published' = Published
  BY <1>1, <1>2, <1>3 DEF Published
<1>6. DraftSuite(b)' = (IF src = NoSnapshot THEN EmptySuite ELSE assignment[src])
  BY <1>1 DEF DraftSuite
<1>7. \A c \in Branch : c # b => DraftSuite(c)' = DraftSuite(c)
  <2>1. \A c \in Branch : pendingSnapshot[c] # s
    BY <1>1 DEF PointersAgree
  <2>2. QED BY <2>1, <1>1, <1>2 DEF DraftSuite
<1>8. [c \in Branch |-> DraftSuite(c)]' =
        [[c \in Branch |-> DraftSuite(c)] EXCEPT ![b] = IF src = NoSnapshot THEN EmptySuite ELSE assignment[src]]
  BY <1>6, <1>7
<1>9. (IF src = NoSnapshot THEN EmptySuite ELSE assignment[src])
        \in IF activeSnapshot[b] # NoSnapshot THEN {LiveSuite(b)} ELSE {EmptySuite} \cup Published
  BY <1>1, BranchAssumption DEF LiveSuite, Published, OnceResolvable
<1>10. {c \in Branch : pendingSnapshot[c] # NoSnapshot}' = {c \in Branch : pendingSnapshot[c] # NoSnapshot} \cup {b}
  BY <1>1
<1>11. [c \in Branch |-> LiveSuite(c)]' = [c \in Branch |-> LiveSuite(c)]
  BY <1>4
<1>12. {c \in Branch : activeSnapshot[c] # NoSnapshot}' = {c \in Branch : activeSnapshot[c] # NoSnapshot}
  OBVIOUS
<1>13. b \notin {c \in Branch : pendingSnapshot[c] # NoSnapshot}
  BY <1>1
<1>14. b \in {c \in Branch : activeSnapshot[c] # NoSnapshot} <=> activeSnapshot[b] # NoSnapshot
  OBVIOUS
<1>15. [c \in Branch |-> LiveSuite(c)][b] = LiveSuite(b)
  OBVIOUS
<1> HIDE DEF SuiteInv, SuiteTypeOK
<1>16. QED
  BY <1>5, <1>8, <1>9, <1>10, <1>11, <1>12, <1>13, <1>14, <1>15
  DEF Transactions!Begin, Transactions!Empty, EmptySuite, Published

\* A suite edit writes the draft of the branch its snapshot belongs to, and nothing else.
LEMMA AssignWrites ==
  ASSUME SuiteInv, NEW s \in Snapshot, NEW t \in Test, NEW p \in Plan \cup {NoPlan}, Assign(s, t, p),
         NEW b \in Branch, b = row[s].branch
  PROVE  Transactions!Write(b, t, p)
<1> USE NullAssumption DEF SuiteInv, SuiteTypeOK
<1>1. /\ b \in Branch /\ pendingSnapshot[b] = s /\ status[s] = "processing"
      /\ assignment' = [assignment EXCEPT ![s][t] = p]
      /\ UNCHANGED <<status, row, activeSnapshot, pendingSnapshot, baseSnapshot>>
  BY DEF Assign, PointersAgree, Row
<1>2. \A c \in Branch : activeSnapshot[c] # s
  BY <1>1 DEF PointersAgree
<1>3. [c \in Branch |-> LiveSuite(c)]' = [c \in Branch |-> LiveSuite(c)]
  BY <1>1, <1>2 DEF LiveSuite
<1>4. Published' = Published
  BY <1>1 DEF Published
<1>5. \A c \in Branch : c # b => pendingSnapshot[c] # s
  BY <1>1 DEF PointersAgree
<1>6. \A c \in Branch : c # b => DraftSuite(c)' = DraftSuite(c)
  BY <1>1, <1>5 DEF DraftSuite
<1>7. DraftSuite(b)' = [DraftSuite(b) EXCEPT ![t] = p]
  <2>1. DraftSuite(b) = assignment[s] /\ DraftSuite(b)' = assignment'[s]
    BY <1>1 DEF DraftSuite
  <2>2. assignment'[s] = [assignment[s] EXCEPT ![t] = p]
    BY <1>1
  <2>3. QED BY <2>1, <2>2
<1>8. [c \in Branch |-> DraftSuite(c)]' = [[c \in Branch |-> DraftSuite(c)] EXCEPT ![b][t] = p]
  <2> DEFINE D == [c \in Branch |-> DraftSuite(c)]
  <2>1. [D EXCEPT ![b][t] = p] = [c \in Branch |-> IF c = b THEN [DraftSuite(b) EXCEPT ![t] = p] ELSE DraftSuite(c)]
    BY <1>1
  <2>2. D' = [c \in Branch |-> DraftSuite(c)']
    OBVIOUS
  <2>3. \A c \in Branch : DraftSuite(c)' = IF c = b THEN [DraftSuite(b) EXCEPT ![t] = p] ELSE DraftSuite(c)
    BY <1>6, <1>7
  <2> HIDE DEF SuiteInv, SuiteTypeOK
  <2>4. QED BY <2>1, <2>2, <2>3
<1>9. b \in {c \in Branch : pendingSnapshot[c] # NoSnapshot}
  BY <1>1
<1> HIDE DEF SuiteInv, SuiteTypeOK
<1>10. QED BY <1>1, <1>3, <1>4, <1>8, <1>9 DEF Transactions!Write, Published

\* A promotion commits: the draft of its branch becomes the live suite.
LEMMA PromoteCommits ==
  ASSUME SuiteInv, NEW s \in Snapshot, Promote(s), NEW b \in Branch, b = row[s].branch
  PROVE  Transactions!Commit(b)
<1> DEFINE Open == {c \in Branch : pendingSnapshot[c] # NoSnapshot}
           Live == {c \in Branch : activeSnapshot[c] # NoSnapshot}
<1> USE NullAssumption DEF SuiteInv, SuiteTypeOK
<1>1. /\ b \in Branch /\ status[s] = "processing" /\ pendingSnapshot[b] = s
      /\ status' = [x \in Snapshot |-> IF x = activeSnapshot[b] THEN "superseded"
                                        ELSE IF x = s THEN "active" ELSE status[x]]
      /\ activeSnapshot' = [activeSnapshot EXCEPT ![b] = s]
      /\ pendingSnapshot' = [pendingSnapshot EXCEPT ![b] = NoSnapshot]
      /\ UNCHANGED <<row, assignment, baseSnapshot>>
  BY DEF Promote, CanClaimTerminal, Row
<1>2. activeSnapshot[b] # s /\ DraftSuite(b) = assignment[s]
      /\ (activeSnapshot[b] # NoSnapshot => status[activeSnapshot[b]] = "active")
  BY <1>1 DEF PointersAgree, DraftSuite
<1>3. [c \in Branch |-> LiveSuite(c)]' = [[c \in Branch |-> LiveSuite(c)] EXCEPT ![b] = assignment[s]]
  BY <1>1 DEF LiveSuite
<1>4. [c \in Branch |-> DraftSuite(c)]' = [[c \in Branch |-> DraftSuite(c)] EXCEPT ![b] = EmptySuite]
  BY <1>1 DEF DraftSuite
<1>5. Open' = Open \ {b} /\ b \in Open /\ Live' = Live \cup {b}
  BY <1>1
<1>6. Published' = IF b = MainBranch THEN Published \cup {assignment[s]} ELSE Published
  <2>1. \A x \in Snapshot : x # s => (status'[x] \in {"active", "superseded"} <=> status[x] \in {"active", "superseded"})
    BY <1>1, <1>2
  <2>2. status'[s] \in {"active", "superseded"} /\ status[s] \notin {"active", "superseded"}
    BY <1>1, <1>2
  <2>3. row' = row /\ assignment' = assignment /\ (row[s].branch = MainBranch <=> b = MainBranch)
    BY <1>1
  <2>4. {x \in Snapshot : status'[x] \in {"active", "superseded"} /\ row[x].branch = MainBranch}
          = IF b = MainBranch
            THEN {x \in Snapshot : status[x] \in {"active", "superseded"} /\ row[x].branch = MainBranch} \cup {s}
            ELSE {x \in Snapshot : status[x] \in {"active", "superseded"} /\ row[x].branch = MainBranch}
    BY <2>1, <2>2, <2>3
  <2>5. QED BY <2>3, <2>4 DEF Published
<1>7. [c \in Branch |-> DraftSuite(c)][b] = assignment[s]
  BY <1>1, <1>2
<1> HIDE DEF SuiteInv, SuiteTypeOK
<1>8. QED
  BY <1>3, <1>4, <1>5, <1>6, <1>7 DEF Transactions!Commit, Transactions!Empty, EmptySuite, Published

\* A failed or cancelled snapshot aborts: nothing but the branch's draft changes.
LEMMA CloseAborts ==
  ASSUME SuiteInv, NEW s \in Snapshot, NEW outcome \in {"failed", "cancelled"}, CloseSnapshot(s, outcome),
         NEW b \in Branch, b = row[s].branch
  PROVE  Transactions!Abort(b)
<1> DEFINE Open == {c \in Branch : pendingSnapshot[c] # NoSnapshot}
<1> USE NullAssumption DEF SuiteInv, SuiteTypeOK
<1>1. /\ b \in Branch /\ status[s] = "processing" /\ pendingSnapshot[b] = s
      /\ status' = [status EXCEPT ![s] = outcome]
      /\ pendingSnapshot' = [pendingSnapshot EXCEPT ![b] = NoSnapshot]
      /\ UNCHANGED <<row, assignment, activeSnapshot, baseSnapshot>>
  BY DEF CloseSnapshot, CanClaimTerminal, Row
<1>2. [c \in Branch |-> LiveSuite(c)]' = [c \in Branch |-> LiveSuite(c)]
  BY <1>1 DEF LiveSuite
<1>3. [c \in Branch |-> DraftSuite(c)]' = [[c \in Branch |-> DraftSuite(c)] EXCEPT ![b] = EmptySuite]
  BY <1>1 DEF DraftSuite
<1>4. Open' = Open \ {b} /\ b \in Open
  BY <1>1
<1>5. Published' = Published
  <2>1. \A x \in Snapshot : status'[x] \in {"active", "superseded"} <=> status[x] \in {"active", "superseded"}
    BY <1>1
  <2>2. QED BY <2>1, <1>1 DEF Published
<1> HIDE DEF SuiteInv, SuiteTypeOK
<1>6. QED
  BY <1>1, <1>2, <1>3, <1>4, <1>5 DEF Transactions!Abort, Transactions!Empty, EmptySuite, Published

\* Every step of the suite lineage is a step of the abstract transactions, or a stutter.
LEMMA StepRefines ==
  SuiteInv /\ SuiteInv' /\ [SuiteNext]_suiteVars => [Transactions!TxNext]_(Transactions!txVars)
<1> SUFFICES ASSUME SuiteInv, SuiteInv', [SuiteNext]_suiteVars
             PROVE  [Transactions!TxNext]_(Transactions!txVars)
  OBVIOUS
<1> USE DEF Transactions!TxNext
<1>1. CASE UNCHANGED suiteVars
  BY <1>1 DEF suiteVars, Transactions!txVars, LiveSuite, DraftSuite
<1>2. ASSUME NEW b \in Branch, NEW s \in Snapshot, NEW head \in Sha, NEW src \in OnceResolvable(b),
             NEW fallback \in Sha \cup {NoSha}, OpenSnapshot(b, s, head, src, fallback)
      PROVE  Transactions!TxNext
  <2>1. IF activeSnapshot[b] # NoSnapshot THEN src = activeSnapshot[b]
        ELSE src # NoSnapshot => row[src].branch # b
    BY <1>2 DEF OpenSnapshot, SourceStillCurrent, OwnSource
  <2>2. Transactions!Begin(b)
    BY <1>2, <2>1, CreateBegins DEF OpenSnapshot
  <2>3. QED BY <2>2
<1>3. ASSUME NEW b \in Branch, NEW s \in Snapshot, OpenEditSnapshot(b, s)
      PROVE  Transactions!TxNext
  <2> DEFINE src == activeSnapshot[b]
             head == IF src = NoSnapshot THEN NoSha ELSE row[src].head
  <2>1. CreateSnapshot(b, s, "MANUAL", head, head, src) /\ UNCHANGED activeSnapshot
    BY <1>3 DEF OpenEditSnapshot
  <2>2. src \in OnceResolvable(b)
    BY DEF OnceResolvable, SuiteInv, SuiteTypeOK, PointersAgree
  <2> HIDE DEF head
  <2>3. Transactions!Begin(b)
    BY <2>1, <2>2, CreateBegins
  <2>4. QED BY <2>3
<1>4. ASSUME NEW s \in Snapshot, EditSuite(s) \/ SettleSnapshot(s) PROVE Transactions!TxNext
  <2>1. PICK b \in Branch : b = row[s].branch
    BY DEF SuiteInv, SuiteTypeOK, Row
  <2>2. CASE EditSuite(s)
    BY <2>1, <2>2, EditIsAssign, AssignWrites
  <2>3. CASE Promote(s)
    BY <2>1, <2>3, PromoteCommits
  <2>4. ASSUME NEW outcome \in {"failed", "cancelled"}, CloseSnapshot(s, outcome) PROVE Transactions!TxNext
    BY <2>1, <2>4, CloseAborts
  <2>5. QED BY <1>4, <2>2, <2>3, <2>4 DEF SettleSnapshot
<1>5. QED BY <1>1, <1>2, <1>3, <1>4 DEF SuiteNext, OpenAny

\* Opens, edits and terminals implement transactions on each branch's live suite: no
\* promotion is lost to a concurrent one, and a run that fails leaves no trace.
THEOREM SuiteImplementsTransactions == SuiteSpec => ImplementsTransactions
<1>1. SuiteInit => Transactions!TxInit
  BY DEF SuiteInit, Transactions!TxInit, Transactions!Empty, LiveSuite, DraftSuite, EmptySuite
<1>2. QED
  BY <1>1, SuiteInvariant, StepRefines, PTL DEF SuiteSpec, ImplementsTransactions, Transactions!TxSpec
=============================================================================
