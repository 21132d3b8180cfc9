------------------------- MODULE Investigator_proofs -------------------------
(***************************************************************************)
(* The investigation of a snapshot's tests, for any number of tests, waves *)
(* and failures: types; that plans are edited on verdicts, rewrites undone *)
(* and removals final; that silence costs two failures; and that no run is *)
(* left behind that nobody will end.                                       *)
(***************************************************************************)
EXTENDS Investigator, SequenceTheorems, FiniteSetTheorems, TLAPS

-----------------------------------------------------------------------------
(* What a child knows at each of its stages.                               *)

Preparing == {"waiting", "starting"}
Running == {"provisioning", "running", "marking", "writing", "classifying", "filing"}
Acting == {"healing", "updating", "dropping", "restoring", "done"}
Dead == {"crashed", "contained"}

\* The n-th run is of plan n; a second iteration has a rewrite behind it.
Numbered(t) ==
    /\ \A n \in 1..Len(runs[t]) : runs[t][n].plan = n
    /\ child[t].before = child[t].iteration - 1
    /\ child[t].iteration = 2 => filed[t][1] = "plan_mismatch"
    /\ child[t].iteration = 1 => filed[t][2] = "none"

\* Runs, verdicts and the plan keep pace with the iteration.
AtPace(t) ==
    /\ child[t].at \in Preparing => Len(runs[t]) = child[t].iteration - 1
    /\ child[t].at \in Running \cup Acting => Len(runs[t]) = child[t].iteration
    /\ child[t].at \in Preparing \cup Running => current[t] = child[t].iteration - 1 /\ pinned[t] = child[t].iteration
    /\ child[t].at \in Acting => current[t] = child[t].iteration /\ filed[t][child[t].iteration] = child[t].says

\* What each act is done for.
ActsFor(t) ==
    /\ child[t].at = "healing" => child[t].iteration = 1 /\ child[t].says = "plan_mismatch"
    /\ child[t].at = "updating" => child[t].says = "passed"
    /\ child[t].at = "dropping" => child[t].says = "invalid_test"
    /\ child[t].at \in {"healing", "updating", "dropping"} => pinned[t] = child[t].iteration
    /\ child[t].at = "restoring" => child[t].iteration = 2 /\ child[t].says \in {"plan_mismatch", "invalid_test"}

\* The plan a finished child leaves.
Leaves(t) ==
    /\ child[t].at \in {"restoring", "done"} /\ pinned[t] = 0 => child[t].says = "invalid_test"
    /\ child[t].at = "restoring" => pinned[t] \in {0, 2}
    /\ child[t].at = "done" =>
            /\ pinned[t] <= child[t].iteration + 1
            /\ pinned[t] = child[t].iteration + 1 => child[t].says = "passed"
            /\ child[t].says = "passed" => pinned[t] >= child[t].iteration
            /\ child[t].iteration = 2 /\ child[t].says \in {"plan_mismatch", "invalid_test"} =>
                    pinned[t] \in {0, 1} \/ t \in unrestored

\* The plan a dead one leaves: the one of its iteration, or a rewrite that its verdict asked for.
LeftDead(t) == child[t].at \in Dead =>
    /\ Len(runs[t]) \in {child[t].iteration - 1, child[t].iteration}
    /\ current[t] \in {child[t].iteration - 1, child[t].iteration}
    /\ pinned[t] = child[t].iteration
        \/ /\ pinned[t] = child[t].iteration + 1
           /\ Len(runs[t]) = child[t].iteration /\ current[t] = child[t].iteration
           /\ filed[t][child[t].iteration] \in {"plan_mismatch", "passed"}

Stage(t) == Numbered(t) /\ AtPace(t) /\ ActsFor(t) /\ Leaves(t) /\ LeftDead(t)

InvestigatorInv == TypeOK /\ \A t \in Test : Stage(t)

\* What belongs to a test is as it was.
Same(u) ==
    /\ child'[u] = child[u] /\ pinned'[u] = pinned[u] /\ runs'[u] = runs[u]
    /\ filed'[u] = filed[u] /\ current'[u] = current[u]
    /\ u \in unrestored => u \in unrestored'

LEMMA SameStage == ASSUME NEW u \in Test, Stage(u), Same(u) PROVE Stage(u)'
  BY DEF Same, Stage, Numbered, AtPace, ActsFor, Leaves, LeftDead

\* A step of one test keeps what it keeps of that test.
LEMMA Others ==
  ASSUME NEW t \in Test, \A u \in Test : Stage(u), \A u \in Test \ {t} : Same(u), Stage(t)'
  PROVE  \A u \in Test : Stage(u)'
  BY SameStage

-----------------------------------------------------------------------------
(* Steps.                                                                  *)

\* A test's own records.
LEMMA OwnTyped ==
  ASSUME TypeOK, NEW t \in Test
  PROVE  /\ child[t] \in Child /\ child[t].iteration \in 1..2 /\ child[t].at \in At
         /\ child[t].says \in Verdict \cup {"none"} /\ child[t].before \in Nat
         /\ current[t] \in 0..2 /\ pinned[t] \in Nat /\ runs[t] \in Seq(Run) /\ Len(runs[t]) \in Nat
<1>1. child[t] \in Child /\ current[t] \in 0..2 /\ pinned[t] \in Nat /\ runs[t] \in Seq(Run)
  BY DEF TypeOK, MaxIterations
<1>2. QED BY <1>1 DEF Child, MaxIterations

\* A child that only moves on.
LEMMA Moves ==
  ASSUME NEW t \in Test, NEW a \in At, child \in [Test -> Child], Goes(t, a)
  PROVE  /\ child' \in [Test -> Child]
         /\ child'[t].at = a /\ child'[t].iteration = child[t].iteration /\ child'[t].says = child[t].says
         /\ child'[t].rewrite = child[t].rewrite /\ child'[t].before = child[t].before
         /\ \A u \in Test \ {t} : child'[u] = child[u]
  BY DEF Goes, Child

\* A run that is updated.
LEMMA RunUpdated ==
  ASSUME NEW s \in Seq(Run), NEW n \in 1..Len(s), NEW r \in Run, r.plan = s[n].plan
  PROVE  /\ [s EXCEPT ![n] = r] \in Seq(Run) /\ Len([s EXCEPT ![n] = r]) = Len(s)
         /\ \A i \in 1..Len(s) : [s EXCEPT ![n] = r][i].plan = s[i].plan
  OBVIOUS

LEMMA InitInv == Init => InvestigatorInv
<1> SUFFICES ASSUME Init PROVE InvestigatorInv
  OBVIOUS
<1>1. TypeOK
  BY InvestigatorAssumption, EmptySeq DEF Init, TypeOK, Child, At, Verdict, MaxIterations
<1>2. ASSUME NEW t \in Test PROVE Stage(t)
  BY EmptySeq DEF Init, MaxIterations, Stage, Numbered, AtPace, ActsFor, Leaves, LeftDead, Preparing, Running, Acting, Dead
<1>3. QED BY <1>1, <1>2 DEF InvestigatorInv

LEMMA Assemble ==
  ASSUME InvestigatorInv, NEW t \in Test, TypeOK', \A u \in Test \ {t} : Same(u), Stage(t)'
  PROVE  InvestigatorInv'
  BY Others DEF InvestigatorInv

\* The types of what a step of a child alone leaves untouched.
LEMMA FaultTyped == ASSUME TypeOK, Fault PROVE faults' \in 0..MaxFaults
  BY InvestigatorAssumption DEF TypeOK, Fault

\* A child that moves on while its test's rows stay as they are.
LEMMA MovesOn ==
  ASSUME InvestigatorInv, NEW t \in Test, NEW a \in At, Goes(t, a),
         UNCHANGED <<pinned, runs, filed, current, unrestored, report>>,
         failure' \subseteq Test, unmarked' \subseteq Test, faults' \in 0..MaxFaults
  PROVE  /\ TypeOK' /\ \A u \in Test \ {t} : Same(u)
         /\ child'[t].at = a /\ child'[t].iteration = child[t].iteration /\ child'[t].says = child[t].says
         /\ child'[t].before = child[t].before
<1>1. TypeOK /\ child \in [Test -> Child]
  BY DEF InvestigatorInv, TypeOK
<1>2. /\ child' \in [Test -> Child] /\ child'[t].at = a /\ child'[t].iteration = child[t].iteration
      /\ child'[t].says = child[t].says /\ child'[t].before = child[t].before
      /\ \A u \in Test \ {t} : child'[u] = child[u]
  BY <1>1, Moves
<1>3. TypeOK'
  BY <1>1, <1>2 DEF TypeOK
<1>4. \A u \in Test \ {t} : Same(u)
  BY <1>2 DEF Same
<1>5. QED BY <1>2, <1>3, <1>4

LEMMA RunningOn ==
  ASSUME InvestigatorInv, NEW t \in Test, NEW a \in Running, child[t].at \in Running, Goes(t, a),
         UNCHANGED <<pinned, runs, filed, current, failure, report, unrestored>>, unmarked' \subseteq Test, faults' \in 0..MaxFaults
  PROVE  InvestigatorInv'
<1>1. TypeOK /\ Stage(t) /\ a \in At /\ failure' \subseteq Test
  BY DEF InvestigatorInv, TypeOK, At, Running
<1>2. /\ TypeOK' /\ \A u \in Test \ {t} : Same(u)
      /\ child'[t].at = a /\ child'[t].iteration = child[t].iteration /\ child'[t].says = child[t].says
      /\ child'[t].before = child[t].before
  BY <1>1, MovesOn
<1>3. Stage(t)'
  BY <1>1, <1>2 DEF Stage, Numbered, AtPace, ActsFor, Leaves, LeftDead, Preparing, Running, Acting, Dead
<1>4. QED BY <1>2, <1>3, Assemble

\* A child dies, its plan and runs being those of its iteration.
LEMMA Dies ==
  ASSUME InvestigatorInv, NEW t \in Test, child[t].at \in {"starting", "filing", "healing", "updating"}, Goes(t, "crashed"),
         UNCHANGED <<pinned, runs, filed, current, failure, report, unrestored, unmarked>>, faults' \in 0..MaxFaults
  PROVE  InvestigatorInv'
<1>1. TypeOK /\ Stage(t) /\ "crashed" \in At /\ failure' \subseteq Test /\ unmarked' \subseteq Test
  BY DEF InvestigatorInv, TypeOK, At
<1>2. /\ TypeOK' /\ \A u \in Test \ {t} : Same(u)
      /\ child'[t].at = "crashed" /\ child'[t].iteration = child[t].iteration /\ child'[t].says = child[t].says
      /\ child'[t].before = child[t].before
  BY <1>1, MovesOn
<1>3. child[t].iteration \in 1..2 /\ current[t] \in 0..2 /\ pinned[t] \in Nat
  BY <1>1, OwnTyped
<1>4. Stage(t)'
  BY <1>1, <1>2, <1>3 DEF Stage, Numbered, AtPace, ActsFor, Leaves, LeftDead, Preparing, Running, Acting, Dead
<1>5. QED BY <1>2, <1>4, Assemble

\* A run of a test is written, and its child, if it moves, goes on with that run.
LEMMA RunWritten ==
  ASSUME InvestigatorInv, NEW t \in Test, NEW n \in 1..Len(runs[t]), NEW r \in Run, r.plan = runs[t][n].plan,
         runs' = [runs EXCEPT ![t] = [runs[t] EXCEPT ![n] = r]],
         child' = child \/ (child[t].at \in Running /\ \E a \in Running : Goes(t, a)),
         UNCHANGED <<pinned, filed, current, failure, report, unrestored, unmarked>>, faults' \in 0..MaxFaults
  PROVE  InvestigatorInv'
<1>1. TypeOK /\ Stage(t) /\ child \in [Test -> Child] /\ runs[t] \in Seq(Run) /\ runs \in [Test -> Seq(Run)]
  BY DEF InvestigatorInv, TypeOK
<1> DEFINE s == [runs[t] EXCEPT ![n] = r]
<1>2. s \in Seq(Run) /\ Len(s) = Len(runs[t]) /\ \A i \in 1..Len(runs[t]) : s[i].plan = runs[t][i].plan
  BY <1>1, RunUpdated
<1>3. runs'[t] = s /\ \A u \in Test \ {t} : runs'[u] = runs[u]
  BY <1>1
<1>4. runs' \in [Test -> Seq(Run)]
  BY <1>1, <1>2, <1>3
<1> HIDE DEF s
<1>5. /\ child' \in [Test -> Child] /\ child'[t].iteration = child[t].iteration
      /\ child'[t].says = child[t].says /\ child'[t].before = child[t].before
      /\ child'[t].at = child[t].at \/ (child'[t].at \in Running /\ child[t].at \in Running)
      /\ \A u \in Test \ {t} : child'[u] = child[u]
  <2>1. CASE child' = child
    BY <2>1, <1>1
  <2>2. CASE child[t].at \in Running /\ \E a \in Running : Goes(t, a)
    <3>1. PICK a \in Running : Goes(t, a)
      BY <2>2
    <3>2. a \in At
      BY DEF At, Running
    <3>3. QED BY <3>1, <3>2, <2>2, <1>1, Moves
  <2>3. QED BY <2>1, <2>2
<1>6. TypeOK'
  BY <1>1, <1>4, <1>5 DEF TypeOK
<1>7. \A u \in Test \ {t} : Same(u)
  BY <1>3, <1>5 DEF Same
<1>8. Stage(t)'
  <2>1. Numbered(t)'
    BY <1>1, <1>2, <1>3, <1>5 DEF Stage, Numbered
  <2>2. AtPace(t)'
    BY <1>1, <1>2, <1>3, <1>5 DEF Stage, AtPace, Preparing, Running, Acting
  <2>3. ActsFor(t)' /\ Leaves(t)'
    BY <1>1, <1>2, <1>3, <1>5 DEF Stage, ActsFor, Leaves, Running
  <2>4. LeftDead(t)'
    BY <1>1, <1>2, <1>3, <1>5 DEF Stage, LeftDead, Running, Dead
  <2>5. QED BY <2>1, <2>2, <2>3, <2>4 DEF Stage
<1>9. QED BY <1>6, <1>7, <1>8, Assemble

-----------------------------------------------------------------------------
(* The actions of running a test.                                          *)

LEMMA BeginStep == ASSUME InvestigatorInv, NEW t \in Test, Begin(t) PROVE InvestigatorInv'
<1>1. TypeOK /\ Stage(t) /\ "starting" \in At /\ failure' \subseteq Test /\ unmarked' \subseteq Test /\ faults' \in 0..MaxFaults
  BY DEF InvestigatorInv, TypeOK, At, Begin, findings
<1>2. /\ TypeOK' /\ \A u \in Test \ {t} : Same(u)
      /\ child'[t].at = "starting" /\ child'[t].iteration = child[t].iteration /\ child'[t].says = child[t].says
      /\ child'[t].before = child[t].before
  BY <1>1, MovesOn DEF Begin, findings
<1>3. Stage(t)'
  BY <1>1, <1>2 DEF Begin, findings, Stage, Numbered, AtPace, ActsFor, Leaves, LeftDead, Preparing, Running, Acting, Dead
<1>4. QED BY <1>2, <1>3, Assemble

LEMMA StartRunStep == ASSUME InvestigatorInv, NEW t \in Test, StartRun(t) PROVE InvestigatorInv'
<1> DEFINE r == [plan |-> pinned[t], status |-> "pending", engine |-> "off"]
           started == runs' = [runs EXCEPT ![t] = Append(@, r)]
<1>1. TypeOK /\ Stage(t) /\ child \in [Test -> Child] /\ child[t].at = "starting"
      /\ UNCHANGED <<pinned, filed, current, failure, report, unrestored, unmarked>> /\ runs \in [Test -> Seq(Run)]
  BY DEF InvestigatorInv, TypeOK, StartRun, OnlyRun, findings
<1>2. \/ started /\ Goes(t, "provisioning") /\ UNCHANGED faults
      \/ started /\ Goes(t, "crashed") /\ Fault
      \/ UNCHANGED runs /\ Goes(t, "crashed") /\ Fault
  BY DEF StartRun, Tried
<1>3. faults' \in 0..MaxFaults
  BY <1>1, <1>2, FaultTyped DEF TypeOK
<1>4. CASE started
  <2>1. PICK a \in {"provisioning", "crashed"} : Goes(t, a)
    BY <1>2
  <2>2. a \in At
    BY DEF At
  <2>3. /\ child' \in [Test -> Child] /\ child'[t].at = a /\ child'[t].iteration = child[t].iteration
        /\ child'[t].says = child[t].says /\ child'[t].before = child[t].before
        /\ \A u \in Test \ {t} : child'[u] = child[u]
    BY <1>1, <2>1, <2>2, Moves
  <2>4. child[t].iteration \in 1..2 /\ pinned[t] \in Nat /\ runs[t] \in Seq(Run) /\ Len(runs[t]) \in Nat
    BY <1>1, OwnTyped
  <2>5. r \in Run /\ r.plan = pinned[t]
    BY <2>4 DEF Run
  <2> HIDE DEF r
  <2>6. /\ Append(runs[t], r) \in Seq(Run) /\ Len(Append(runs[t], r)) = Len(runs[t]) + 1
        /\ \A i \in 1..Len(runs[t]) : Append(runs[t], r)[i] = runs[t][i]
        /\ Append(runs[t], r)[Len(runs[t]) + 1] = r
    BY <2>4, <2>5
  <2>7. runs'[t] = Append(runs[t], r) /\ \A u \in Test \ {t} : runs'[u] = runs[u]
    BY <1>1, <1>4
  <2>8. runs' \in [Test -> Seq(Run)]
    BY <1>1, <1>4, <2>6
  <2>9. TypeOK'
    BY <1>1, <1>3, <2>3, <2>8 DEF TypeOK
  <2>10. \A u \in Test \ {t} : Same(u)
    BY <1>1, <2>3, <2>7 DEF Same
  <2>11. Len(runs[t]) = child[t].iteration - 1 /\ pinned[t] = child[t].iteration /\ current[t] = child[t].iteration - 1
    BY <1>1 DEF Stage, AtPace, Preparing
  <2>12. Numbered(t)'
    <3>1. \A n \in 1..Len(runs'[t]) : runs'[t][n].plan = n
      <4> SUFFICES ASSUME NEW n \in 1..Len(runs'[t]) PROVE runs'[t][n].plan = n
        OBVIOUS
      <4>1. CASE n \in 1..Len(runs[t])
        BY <1>1, <4>1, <2>6, <2>7 DEF Stage, Numbered
      <4>2. CASE n = Len(runs[t]) + 1
        BY <4>2, <2>4, <2>5, <2>6, <2>7, <2>11
      <4>3. QED BY <4>1, <4>2, <2>4, <2>6, <2>7
    <3>2. QED BY <1>1, <2>3, <3>1 DEF Stage, Numbered
  <2>13. AtPace(t)' /\ ActsFor(t)' /\ Leaves(t)' /\ LeftDead(t)'
    BY <1>1, <2>1, <2>3, <2>4, <2>6, <2>7, <2>11 DEF AtPace, ActsFor, Leaves, LeftDead, Preparing, Running, Acting, Dead
  <2>14. QED BY <2>9, <2>10, <2>12, <2>13, Assemble DEF Stage
<1>5. CASE UNCHANGED runs /\ Goes(t, "crashed")
  BY <1>1, <1>3, <1>5, Dies
<1>6. QED BY <1>2, <1>4, <1>5

LEMMA ClassifiedStep ==
  ASSUME InvestigatorInv, NEW t \in Test, child[t].at \in Running, NEW verdict \in Verdict, NEW rewrite \in BOOLEAN, NEW a \in Running,
         child' = [child EXCEPT ![t].at = a, ![t].says = verdict, ![t].rewrite = rewrite],
         UNCHANGED <<pinned, runs, filed, current, failure, report, unrestored, unmarked, faults>>
  PROVE  InvestigatorInv'
<1>1. TypeOK /\ Stage(t) /\ child \in [Test -> Child] /\ a \in At
  BY DEF InvestigatorInv, TypeOK, At, Running
<1>2. /\ child' \in [Test -> Child] /\ child'[t].at = a /\ child'[t].iteration = child[t].iteration
      /\ child'[t].before = child[t].before /\ \A u \in Test \ {t} : child'[u] = child[u]
  BY <1>1 DEF Child
<1>3. TypeOK' /\ \A u \in Test \ {t} : Same(u)
  BY <1>1, <1>2 DEF TypeOK, Same
<1>4. Stage(t)'
  BY <1>1, <1>2 DEF Stage, Numbered, AtPace, ActsFor, Leaves, LeftDead, Preparing, Running, Acting, Dead
<1>5. QED BY <1>3, <1>4, Assemble

LEMMA ClassifyStep == ASSUME InvestigatorInv, NEW t \in Test, Classify(t) PROVE InvestigatorInv'
<1>1. PICK verdict \in Verdict, rewrite \in BOOLEAN :
        child' = [child EXCEPT ![t].at = "filing", ![t].says = verdict, ![t].rewrite = rewrite]
  BY DEF Classify
<1>2. child[t].at \in Running /\ "filing" \in Running /\ UNCHANGED <<pinned, runs, filed, current, failure, report, unrestored, unmarked, faults>>
  BY DEF Classify, OnlyRun, findings, Running
<1>3. QED BY <1>1, <1>2, ClassifiedStep

LEMMA ScenarioUpStep == ASSUME InvestigatorInv, NEW t \in Test, ScenarioUp(t) PROVE InvestigatorInv'
<1>1. child[t].at \in Running /\ UNCHANGED <<pinned, runs, filed, current, failure, report, unrestored, unmarked, faults>>
      /\ unmarked' \subseteq Test /\ faults' \in 0..MaxFaults /\ {"running", "marking"} \subseteq Running /\ child \in [Test -> Child]
  BY DEF ScenarioUp, OnlyRun, findings, Running, InvestigatorInv, TypeOK
<1>2. CASE Goes(t, "running")
  BY <1>1, <1>2, RunningOn
<1>3. CASE child' = [child EXCEPT ![t].at = "marking", ![t].says = "other"]
  <2>1. child[t] \in Child /\ child[t].rewrite \in BOOLEAN /\ "other" \in Verdict
    BY <1>1 DEF Child, Verdict
  <2>2. child' = [child EXCEPT ![t].at = "marking", ![t].says = "other", ![t].rewrite = child[t].rewrite]
    BY <1>1, <1>3, <2>1 DEF Child
  <2>3. QED BY <1>1, <2>1, <2>2, ClassifiedStep
<1>4. QED BY <1>2, <1>3 DEF ScenarioUp

\* A run the engine or its watchdog may write: the child that awaits it is running.
LEMMA LastRun ==
  ASSUME InvestigatorInv, NEW t \in Test, child[t].at \in Running
  PROVE  Len(runs[t]) \in 1..Len(runs[t]) /\ runs[t][Len(runs[t])] \in Run
<1>1. TypeOK /\ Stage(t)
  BY DEF InvestigatorInv
<1>2. child[t].iteration \in 1..2 /\ runs[t] \in Seq(Run) /\ Len(runs[t]) = child[t].iteration
  BY <1>1, OwnTyped DEF Stage, AtPace
<1>3. QED BY <1>2

LEMMA EngineStartsStep == ASSUME InvestigatorInv, NEW t \in Test, NEW n \in DOMAIN runs[t], EngineStarts(t, n) PROVE InvestigatorInv'
<1>1. TypeOK /\ runs[t] \in Seq(Run) /\ runs \in [Test -> Seq(Run)]
  BY DEF InvestigatorInv, TypeOK
<1>2. n \in 1..Len(runs[t]) /\ runs[t][n] \in Run
  BY <1>1
<1> DEFINE r == [runs[t][n] EXCEPT !.engine = "on", !.status = "running"]
<1>3. r \in Run /\ r.plan = runs[t][n].plan
  BY <1>2 DEF Run
<1>4. runs' = [runs EXCEPT ![t] = [runs[t] EXCEPT ![n] = r]]
  BY <1>1, <1>2 DEF EngineStarts
<1>5. child' = child /\ UNCHANGED <<pinned, filed, current, failure, report, unrestored, unmarked>> /\ faults' \in 0..MaxFaults
  BY <1>1 DEF EngineStarts, OnlyRun, findings, TypeOK
<1> HIDE DEF r
<1>6. QED BY <1>2, <1>3, <1>4, <1>5, RunWritten

LEMMA EngineReportsStep == ASSUME InvestigatorInv, NEW t \in Test, NEW n \in DOMAIN runs[t], EngineReports(t, n) PROVE InvestigatorInv'
<1>1. TypeOK /\ runs[t] \in Seq(Run) /\ runs \in [Test -> Seq(Run)]
  BY DEF InvestigatorInv, TypeOK
<1>2. n \in 1..Len(runs[t]) /\ runs[t][n] \in Run
  BY <1>1
<1>3. PICK status \in Complete : runs' = [runs EXCEPT ![t][n].engine = "reported", ![t][n].status = status]
  BY DEF EngineReports
<1> DEFINE r == [runs[t][n] EXCEPT !.engine = "reported", !.status = status]
<1>4. r \in Run /\ r.plan = runs[t][n].plan
  BY <1>2 DEF Run
<1>5. runs' = [runs EXCEPT ![t] = [runs[t] EXCEPT ![n] = r]]
  BY <1>1, <1>2, <1>3
<1>6. child' = child /\ UNCHANGED <<pinned, filed, current, failure, report, unrestored, unmarked>> /\ faults' \in 0..MaxFaults
  BY <1>1 DEF EngineReports, OnlyRun, findings, TypeOK
<1> HIDE DEF r
<1>7. QED BY <1>2, <1>4, <1>5, <1>6, RunWritten

LEMMA EngineReturnsStep == ASSUME InvestigatorInv, NEW t \in Test, NEW n \in DOMAIN runs[t], EngineReturns(t, n) PROVE InvestigatorInv'
<1>1. TypeOK /\ runs[t] \in Seq(Run) /\ runs \in [Test -> Seq(Run)]
  BY DEF InvestigatorInv, TypeOK
<1>2. n \in 1..Len(runs[t]) /\ runs[t][n] \in Run
  BY <1>1
<1> DEFINE r == [runs[t][n] EXCEPT !.engine = "over"]
<1>3. r \in Run /\ r.plan = runs[t][n].plan
  BY <1>2 DEF Run
<1>4. runs' = [runs EXCEPT ![t] = [runs[t] EXCEPT ![n] = r]]
  BY <1>1, <1>2 DEF EngineReturns
<1>5. child[t].at \in Running /\ \E a \in Running : Goes(t, a)
  BY DEF EngineReturns, Awaits, Running
<1>6. UNCHANGED <<pinned, filed, current, failure, report, unrestored, unmarked>> /\ faults' \in 0..MaxFaults
  BY <1>1 DEF EngineReturns, OnlyRun, findings, TypeOK
<1> HIDE DEF r
<1>7. QED BY <1>2, <1>3, <1>4, <1>5, <1>6, RunWritten

LEMMA EngineThrowsStep == ASSUME InvestigatorInv, NEW t \in Test, NEW n \in DOMAIN runs[t], EngineThrows(t, n) PROVE InvestigatorInv'
<1>1. TypeOK /\ runs[t] \in Seq(Run) /\ runs \in [Test -> Seq(Run)]
  BY DEF InvestigatorInv, TypeOK
<1>2. n \in 1..Len(runs[t]) /\ runs[t][n] \in Run
  BY <1>1
<1> DEFINE r == [runs[t][n] EXCEPT !.engine = "over", !.status = "failed"]
<1>3. r \in Run /\ r.plan = runs[t][n].plan
  BY <1>2 DEF Run, Complete
<1>4. runs' = [runs EXCEPT ![t] = [runs[t] EXCEPT ![n] = r]]
  BY <1>1, <1>2 DEF EngineThrows
<1>5. child' = child \/ (child[t].at \in Running /\ \E a \in Running : Goes(t, a))
  BY DEF EngineThrows, Awaits, Running
<1>6. UNCHANGED <<pinned, filed, current, failure, report, unrestored, unmarked>> /\ faults' \in 0..MaxFaults
  BY <1>1 DEF EngineThrows, OnlyRun, findings, TypeOK
<1> HIDE DEF r
<1>7. QED BY <1>2, <1>3, <1>4, <1>5, <1>6, RunWritten

LEMMA EngineLostStep == ASSUME InvestigatorInv, NEW t \in Test, EngineLost(t) PROVE InvestigatorInv'
<1>1. TypeOK /\ runs[t] \in Seq(Run) /\ runs \in [Test -> Seq(Run)] /\ child[t].at \in Running /\ "marking" \in Running
      /\ Goes(t, "marking") /\ UNCHANGED <<pinned, filed, current, failure, report, unrestored, unmarked>> /\ Fault
  BY DEF InvestigatorInv, TypeOK, EngineLost, TimesOut, OnlyRun, findings, Running
<1>2. faults' \in 0..MaxFaults
  BY <1>1, FaultTyped
<1>3. PICK engine \in {"cut", "on", "reported", "over"} : runs' = [runs EXCEPT ![t][Len(runs[t])].engine = engine]
  BY DEF EngineLost, TimesOut
<1> DEFINE n == Len(runs[t])
           r == [runs[t][n] EXCEPT !.engine = engine]
<1>4. n \in 1..Len(runs[t]) /\ runs[t][n] \in Run
  BY <1>1, LastRun
<1>5. r \in Run /\ r.plan = runs[t][n].plan
  BY <1>4 DEF Run
<1>6. runs' = [runs EXCEPT ![t] = [runs[t] EXCEPT ![n] = r]]
  BY <1>1, <1>3, <1>4
<1> HIDE DEF r, n
<1>7. QED BY <1>1, <1>2, <1>4, <1>5, <1>6, RunWritten

LEMMA ReadStatusStep == ASSUME InvestigatorInv, NEW t \in Test, ReadStatus(t) PROVE InvestigatorInv'
<1>1. child[t].at \in Running /\ (\E a \in Running : Goes(t, a)) /\ faults' \in 0..MaxFaults /\ unmarked' \subseteq Test
      /\ UNCHANGED <<pinned, runs, filed, current, failure, report, unrestored, unmarked>>
  BY DEF ReadStatus, Marked, OnlyRun, findings, Running, InvestigatorInv, TypeOK
<1>2. QED BY <1>1, RunningOn

LEMMA MarkFailsStep == ASSUME InvestigatorInv, NEW t \in Test, MarkFails(t) PROVE InvestigatorInv'
<1>1. child[t].at \in Running /\ (\E a \in Running : Goes(t, a)) /\ TypeOK /\ Fault
      /\ UNCHANGED <<pinned, runs, filed, current, failure, report, unrestored>> /\ unmarked' \subseteq Test
  BY DEF MarkFails, Marked, findings, Running, InvestigatorInv, TypeOK
<1>2. QED BY <1>1, FaultTyped, RunningOn

LEMMA WriteFailedStep == ASSUME InvestigatorInv, NEW t \in Test, WriteFailed(t) PROVE InvestigatorInv'
<1> DEFINE n == Len(runs[t])
           r == [runs[t][n] EXCEPT !.status = "failed"]
<1>1. TypeOK /\ runs[t] \in Seq(Run) /\ runs \in [Test -> Seq(Run)] /\ child[t].at \in Running
      /\ (\E a \in Running : Goes(t, a)) /\ faults' \in 0..MaxFaults
      /\ UNCHANGED <<pinned, filed, current, failure, report, unrestored, unmarked>>
  BY DEF InvestigatorInv, TypeOK, WriteFailed, Marked, OnlyRun, findings, Running
<1>2. n \in 1..Len(runs[t]) /\ runs[t][n] \in Run
  BY <1>1, LastRun
<1>3. r \in Run /\ r.plan = runs[t][n].plan
  BY <1>2 DEF Run, Complete
<1>4. runs' = [runs EXCEPT ![t] = [runs[t] EXCEPT ![n] = r]]
  BY <1>1, <1>2 DEF WriteFailed
<1> HIDE DEF r, n
<1>5. QED BY <1>1, <1>2, <1>3, <1>4, RunWritten

-----------------------------------------------------------------------------
(* Filing the verdict and acting on it.                                    *)

\* Where a verdict leads.
LEMMA WhatActs ==
  ASSUME NEW c \in Child, c.before = c.iteration - 1
  PROVE  /\ Acts(c) \in Acting
         /\ Acts(c) = "healing" => c.iteration = 1 /\ c.says = "plan_mismatch"
         /\ Acts(c) = "updating" => c.says = "passed"
         /\ Acts(c) = "dropping" => c.says = "invalid_test"
         /\ Acts(c) = "restoring" => c.iteration = 2 /\ c.says = "plan_mismatch"
         /\ Acts(c) = "done" => c.says # "invalid_test" /\ (c.says = "plan_mismatch" => c.iteration = 1)
<1>1. c.iteration \in 1..2
  BY DEF Child, MaxIterations
<1>2. QED BY <1>1 DEF Acts, Acting, MaxIterations

LEMMA FileVerdictStep == ASSUME InvestigatorInv, NEW t \in Test, FileVerdict(t) PROVE InvestigatorInv'
<1>1. TypeOK /\ Stage(t) /\ child \in [Test -> Child] /\ child[t].at = "filing"
      /\ UNCHANGED <<pinned, runs, failure, report, unrestored, unmarked>>
  BY DEF InvestigatorInv, TypeOK, FileVerdict
<1>2. \/ Filed(t) /\ Goes(t, Acts(child[t])) /\ UNCHANGED faults
      \/ Filed(t) /\ Goes(t, "crashed") /\ Fault
      \/ UNCHANGED <<filed, current>> /\ Goes(t, "crashed") /\ Fault
  BY DEF FileVerdict, Tried
<1>3. faults' \in 0..MaxFaults
  BY <1>1, <1>2, FaultTyped DEF TypeOK
<1>4. /\ child[t] \in Child /\ child[t].iteration \in 1..2 /\ child[t].says \in Verdict \cup {"none"}
      /\ runs[t] \in Seq(Run) /\ Len(runs[t]) \in Nat
  BY <1>1, OwnTyped
<1>5. /\ Len(runs[t]) = child[t].iteration /\ current[t] = child[t].iteration - 1 /\ pinned[t] = child[t].iteration
      /\ child[t].before = child[t].iteration - 1
  BY <1>1 DEF Stage, Numbered, AtPace, Preparing, Running
<1>6. CASE Filed(t) /\ (Goes(t, Acts(child[t])) \/ Goes(t, "crashed"))
  <2> DEFINE a == child'[t].at
  <2>1. Acts(child[t]) \in At /\ "crashed" \in At
    BY <1>4, <1>5, WhatActs DEF At, Acting
  <2>2. /\ child' \in [Test -> Child] /\ (a = Acts(child[t]) \/ a = "crashed")
        /\ child'[t].iteration = child[t].iteration /\ child'[t].says = child[t].says /\ child'[t].before = child[t].before
        /\ \A u \in Test \ {t} : child'[u] = child[u]
    BY <1>1, <1>6, <2>1, Moves
  <2>3. /\ filed' \in [Test -> [1..2 -> Verdict \cup {"none"}]] /\ current' \in [Test -> 0..2]
        /\ filed'[t] = [filed[t] EXCEPT ![child[t].iteration] = child[t].says] /\ current'[t] = child[t].iteration
        /\ \A u \in Test \ {t} : filed'[u] = filed[u] /\ current'[u] = current[u]
    BY <1>1, <1>4, <1>6 DEF TypeOK, Filed, MaxIterations
  <2>4. TypeOK'
    BY <1>1, <1>3, <2>2, <2>3 DEF TypeOK, MaxIterations
  <2>5. \A u \in Test \ {t} : Same(u)
    BY <1>1, <2>2, <2>3 DEF Same
  <2>6. /\ filed'[t][child[t].iteration] = child[t].says
        /\ child[t].iteration = 2 => filed'[t][1] = filed[t][1]
        /\ child[t].iteration = 1 => filed'[t][2] = filed[t][2]
    BY <1>1, <1>4, <2>3 DEF TypeOK, MaxIterations
  <2>7. Numbered(t)'
    BY <1>1, <2>2, <2>6 DEF Stage, Numbered
  <2>8. CASE a = Acts(child[t])
    <3>1. AtPace(t)' /\ LeftDead(t)'
      BY <1>1, <1>4, <1>5, <2>2, <2>3, <2>6, <2>8, WhatActs DEF AtPace, LeftDead, Preparing, Running, Acting, Dead
    <3>2. ActsFor(t)' /\ Leaves(t)'
      BY <1>1, <1>4, <1>5, <2>2, <2>8, WhatActs DEF ActsFor, Leaves
    <3>3. QED BY <2>4, <2>5, <2>7, <3>1, <3>2, Assemble DEF Stage
  <2>9. CASE a = "crashed"
    <3>1. AtPace(t)' /\ LeftDead(t)' /\ ActsFor(t)' /\ Leaves(t)'
      BY <1>1, <1>4, <1>5, <2>2, <2>3, <2>9 DEF AtPace, ActsFor, Leaves, LeftDead, Preparing, Running, Acting, Dead
    <3>2. QED BY <2>4, <2>5, <2>7, <3>1, Assemble DEF Stage
  <2>10. QED BY <2>2, <2>8, <2>9
<1>7. CASE UNCHANGED <<filed, current>> /\ Goes(t, "crashed")
  BY <1>1, <1>3, <1>7, Dies
<1>8. QED BY <1>2, <1>6, <1>7

LEMMA SelfHealStep == ASSUME InvestigatorInv, NEW t \in Test, SelfHeal(t) PROVE InvestigatorInv'
<1>1. TypeOK /\ Stage(t) /\ child \in [Test -> Child] /\ child[t].at = "healing"
      /\ UNCHANGED <<runs, filed, current, failure, report, unrestored, unmarked>>
  BY DEF InvestigatorInv, TypeOK, SelfHeal, OnlyPlan, findings
<1>2. \/ Revised(t) /\ Healed(t) /\ UNCHANGED faults
      \/ Revised(t) /\ Goes(t, "crashed") /\ Fault
      \/ UNCHANGED pinned /\ Goes(t, "crashed") /\ Fault
  BY DEF SelfHeal, Tried
<1>3. faults' \in 0..MaxFaults
  BY <1>1, <1>2, FaultTyped DEF TypeOK
<1>4. child[t] \in Child /\ child[t].iteration \in 1..2 /\ pinned[t] \in Nat /\ runs[t] \in Seq(Run) /\ Len(runs[t]) \in Nat
  BY <1>1, OwnTyped
<1>5. /\ child[t].iteration = 1 /\ child[t].says = "plan_mismatch" /\ pinned[t] = 1 /\ child[t].before = 0
      /\ Len(runs[t]) = 1 /\ current[t] = 1 /\ filed[t][1] = "plan_mismatch"
  <2>1. child[t].iteration = 1 /\ child[t].says = "plan_mismatch" /\ pinned[t] = child[t].iteration
    BY <1>1 DEF Stage, ActsFor
  <2>2. child[t].before = child[t].iteration - 1
    BY <1>1 DEF Stage, Numbered
  <2>3. Len(runs[t]) = child[t].iteration /\ current[t] = child[t].iteration /\ filed[t][child[t].iteration] = child[t].says
    BY <1>1 DEF Stage, AtPace, Acting
  <2>4. QED BY <2>1, <2>2, <2>3
<1>6. Revised(t) => pinned' \in [Test -> Nat] /\ pinned'[t] = 2 /\ \A u \in Test \ {t} : pinned'[u] = pinned[u]
  BY <1>1, <1>5 DEF Revised, TypeOK
<1>7. CASE Revised(t) /\ Healed(t)
  <2>1. /\ child' \in [Test -> Child] /\ child'[t].at = "starting" /\ child'[t].iteration = 2 /\ child'[t].before = 1
        /\ \A u \in Test \ {t} : child'[u] = child[u]
    BY <1>1, <1>4, <1>5, <1>7 DEF Healed, Child, MaxIterations, At
  <2>2. TypeOK' /\ \A u \in Test \ {t} : Same(u)
    BY <1>1, <1>3, <1>6, <1>7, <2>1 DEF TypeOK, Same
  <2>3. Stage(t)'
    BY <1>1, <1>5, <1>6, <1>7, <2>1 DEF Stage, Numbered, AtPace, ActsFor, Leaves, LeftDead, Preparing, Running, Acting, Dead
  <2>4. QED BY <2>2, <2>3, Assemble
<1>8. CASE Revised(t) /\ Goes(t, "crashed")
  <2>1. "crashed" \in At
    BY DEF At
  <2>2. /\ child' \in [Test -> Child] /\ child'[t].at = "crashed" /\ child'[t].iteration = 1 /\ child'[t].before = 0
        /\ \A u \in Test \ {t} : child'[u] = child[u]
    BY <1>1, <1>5, <1>8, <2>1, Moves
  <2>3. TypeOK' /\ \A u \in Test \ {t} : Same(u)
    BY <1>1, <1>3, <1>6, <1>8, <2>2 DEF TypeOK, Same
  <2>4. Stage(t)'
    BY <1>1, <1>5, <1>6, <1>8, <2>2 DEF Stage, Numbered, AtPace, ActsFor, Leaves, LeftDead, Preparing, Running, Acting, Dead
  <2>5. QED BY <2>3, <2>4, Assemble
<1>9. CASE UNCHANGED pinned /\ Goes(t, "crashed")
  BY <1>1, <1>3, <1>9, Dies
<1>10. QED BY <1>2, <1>7, <1>8, <1>9

LEMMA ApplyUpdateStep == ASSUME InvestigatorInv, NEW t \in Test, ApplyUpdate(t) PROVE InvestigatorInv'
<1>1. TypeOK /\ Stage(t) /\ child \in [Test -> Child] /\ child[t].at = "updating"
      /\ UNCHANGED <<runs, filed, current, failure, report, unrestored, unmarked>>
  BY DEF InvestigatorInv, TypeOK, ApplyUpdate, OnlyPlan, findings
<1>2. \/ Revised(t) /\ (Goes(t, "done") \/ Goes(t, "crashed")) /\ (UNCHANGED faults \/ Fault)
      \/ UNCHANGED pinned /\ Goes(t, "crashed") /\ Fault
  BY DEF ApplyUpdate, Tried
<1>3. faults' \in 0..MaxFaults
  BY <1>1, <1>2, FaultTyped DEF TypeOK
<1>4. child[t] \in Child /\ child[t].iteration \in 1..2 /\ pinned[t] \in Nat /\ runs[t] \in Seq(Run) /\ Len(runs[t]) \in Nat
  BY <1>1, OwnTyped
<1>5. /\ child[t].says = "passed" /\ pinned[t] = child[t].iteration
      /\ Len(runs[t]) = child[t].iteration /\ current[t] = child[t].iteration /\ filed[t][child[t].iteration] = "passed"
  BY <1>1 DEF Stage, AtPace, ActsFor, Acting
<1>6. CASE Revised(t) /\ (Goes(t, "done") \/ Goes(t, "crashed"))
  <2>1. PICK a \in {"done", "crashed"} : Goes(t, a)
    BY <1>6
  <2>2. a \in At
    BY DEF At
  <2>3. /\ child' \in [Test -> Child] /\ child'[t].at = a /\ child'[t].iteration = child[t].iteration
        /\ child'[t].says = child[t].says /\ child'[t].before = child[t].before
        /\ \A u \in Test \ {t} : child'[u] = child[u]
    BY <1>1, <2>1, <2>2, Moves
  <2>4. pinned' \in [Test -> Nat] /\ pinned'[t] = child[t].iteration + 1 /\ \A u \in Test \ {t} : pinned'[u] = pinned[u]
    BY <1>1, <1>4, <1>5, <1>6 DEF Revised, TypeOK
  <2>5. TypeOK' /\ \A u \in Test \ {t} : Same(u)
    BY <1>1, <1>3, <2>3, <2>4 DEF TypeOK, Same
  <2>6. Numbered(t)' /\ AtPace(t)' /\ ActsFor(t)'
    BY <1>1, <1>5, <2>1, <2>3 DEF Stage, Numbered, AtPace, ActsFor, Preparing, Running, Acting
  <2>7. Leaves(t)' /\ LeftDead(t)'
    BY <1>1, <1>4, <1>5, <2>1, <2>3, <2>4 DEF Leaves, LeftDead, Dead
  <2>8. QED BY <2>5, <2>6, <2>7, Assemble DEF Stage
<1>7. CASE UNCHANGED pinned /\ Goes(t, "crashed")
  BY <1>1, <1>3, <1>7, Dies
<1>8. QED BY <1>2, <1>6, <1>7

LEMMA SkipRewriteStep == ASSUME InvestigatorInv, NEW t \in Test, SkipRewrite(t) PROVE InvestigatorInv'
<1>1. TypeOK /\ Stage(t) /\ child[t].at \in {"healing", "updating"} /\ Goes(t, "done") /\ "done" \in At
      /\ UNCHANGED <<pinned, runs, filed, current, failure, report, unrestored, unmarked, faults>>
      /\ failure' \subseteq Test /\ unmarked' \subseteq Test /\ faults' \in 0..MaxFaults
  BY DEF InvestigatorInv, TypeOK, SkipRewrite, OnlyPlan, findings, At
<1>2. /\ TypeOK' /\ \A u \in Test \ {t} : Same(u)
      /\ child'[t].at = "done" /\ child'[t].iteration = child[t].iteration /\ child'[t].says = child[t].says
      /\ child'[t].before = child[t].before
  BY <1>1, MovesOn
<1>3. child[t].iteration \in 1..2
  BY <1>1, OwnTyped
<1>4. Stage(t)'
  <2>1. Numbered(t)' /\ AtPace(t)'
    BY <1>1, <1>2 DEF Stage, Numbered, AtPace, Preparing, Running, Acting
  <2>2. ActsFor(t)' /\ LeftDead(t)'
    BY <1>1, <1>2 DEF Stage, ActsFor, LeftDead, Dead
  <2>3. Leaves(t)'
    BY <1>1, <1>2, <1>3 DEF Stage, ActsFor, Leaves
  <2>4. QED BY <2>1, <2>2, <2>3 DEF Stage
<1>5. QED BY <1>2, <1>4, Assemble

LEMMA RemoveTestStep == ASSUME InvestigatorInv, NEW t \in Test, RemoveTest(t) PROVE InvestigatorInv'
<1>1. TypeOK /\ Stage(t) /\ child \in [Test -> Child] /\ child[t].at = "dropping"
      /\ UNCHANGED <<runs, filed, current, failure, report, unrestored, unmarked>>
  BY DEF InvestigatorInv, TypeOK, RemoveTest, OnlyPlan, findings
<1>2. \/ pinned' = [pinned EXCEPT ![t] = 0] /\ Goes(t, "done") /\ UNCHANGED faults
      \/ /\ pinned' = [pinned EXCEPT ![t] = 0] \/ UNCHANGED pinned
         /\ Goes(t, IF child[t].before # 0 THEN "restoring" ELSE "done") /\ Fault
  BY DEF RemoveTest, Tried
<1>3. faults' \in 0..MaxFaults
  BY <1>1, <1>2, FaultTyped DEF TypeOK
<1>4. child[t] \in Child /\ child[t].iteration \in 1..2 /\ pinned[t] \in Nat /\ runs[t] \in Seq(Run) /\ Len(runs[t]) \in Nat
  BY <1>1, OwnTyped
<1>5. child[t].says = "invalid_test" /\ pinned[t] = child[t].iteration /\ child[t].before = child[t].iteration - 1
  BY <1>1 DEF Stage, ActsFor, Numbered
<1>6. pinned' \in [Test -> Nat] /\ pinned'[t] \in {0, child[t].iteration} /\ \A u \in Test \ {t} : pinned'[u] = pinned[u]
  BY <1>1, <1>2, <1>4, <1>5 DEF TypeOK
<1>7. \/ Goes(t, "done") /\ (pinned'[t] = 0 \/ child[t].iteration = 1)
      \/ Goes(t, "restoring") /\ child[t].iteration = 2
  <2>1. CASE pinned' = [pinned EXCEPT ![t] = 0] /\ Goes(t, "done")
    BY <1>1, <2>1 DEF TypeOK
  <2>2. CASE Goes(t, IF child[t].before # 0 THEN "restoring" ELSE "done")
    BY <1>4, <1>5, <2>2
  <2>3. QED BY <1>2, <2>1, <2>2
<1>8. PICK a \in {"done", "restoring"} :
        /\ Goes(t, a)
        /\ a = "done" => pinned'[t] = 0 \/ child[t].iteration = 1
        /\ a = "restoring" => child[t].iteration = 2
  BY <1>7
<1>9. a \in At
  BY DEF At
<1>10. /\ child' \in [Test -> Child] /\ child'[t].at = a /\ child'[t].iteration = child[t].iteration
       /\ child'[t].says = child[t].says /\ child'[t].before = child[t].before
       /\ \A u \in Test \ {t} : child'[u] = child[u]
  BY <1>1, <1>8, <1>9, Moves
<1>11. TypeOK' /\ \A u \in Test \ {t} : Same(u)
  BY <1>1, <1>3, <1>6, <1>10 DEF TypeOK, Same
<1>12. Numbered(t)' /\ AtPace(t)' /\ ActsFor(t)'
  BY <1>1, <1>4, <1>5, <1>8, <1>10 DEF Stage, Numbered, AtPace, ActsFor, Preparing, Running, Acting
<1>13. Leaves(t)' /\ LeftDead(t)'
  BY <1>1, <1>4, <1>5, <1>6, <1>8, <1>10 DEF Leaves, LeftDead, Dead
<1>14. QED BY <1>11, <1>12, <1>13, Assemble DEF Stage

LEMMA RevertRewriteStep == ASSUME InvestigatorInv, NEW t \in Test, RevertRewrite(t) PROVE InvestigatorInv'
<1>1. TypeOK /\ Stage(t) /\ child \in [Test -> Child] /\ child[t].at = "restoring" /\ Goes(t, "done") /\ "done" \in At
      /\ UNCHANGED <<runs, filed, current, failure, report, unmarked>>
  BY DEF InvestigatorInv, TypeOK, RevertRewrite, OnlyPlan, findings, At
<1>2. \/ Restored(t) /\ UNCHANGED unrestored /\ UNCHANGED faults
      \/ (Restored(t) \/ UNCHANGED pinned) /\ unrestored' = unrestored \cup {t} /\ Fault
  BY DEF RevertRewrite, Tried
<1>3. faults' \in 0..MaxFaults /\ unrestored' \subseteq Test /\ unrestored \subseteq unrestored'
  BY <1>1, <1>2, FaultTyped DEF TypeOK
<1>4. child[t] \in Child /\ child[t].iteration \in 1..2 /\ pinned[t] \in Nat /\ runs[t] \in Seq(Run) /\ Len(runs[t]) \in Nat
  BY <1>1, OwnTyped
<1>5. /\ child[t].iteration = 2 /\ child[t].says \in {"plan_mismatch", "invalid_test"} /\ child[t].before = 1
      /\ pinned[t] \in {0, 2} /\ (pinned[t] = 0 => child[t].says = "invalid_test")
  BY <1>1 DEF Stage, ActsFor, Numbered, Leaves
<1>6. /\ pinned' \in [Test -> Nat] /\ \A u \in Test \ {t} : pinned'[u] = pinned[u]
      /\ pinned'[t] \in {0, 1, 2} /\ (pinned'[t] = 0 => pinned[t] = 0) /\ (pinned'[t] = 2 => t \in unrestored')
  <2>1. pinned \in [Test -> Nat]
    BY <1>1 DEF TypeOK
  <2>2. CASE Restored(t)
    <3>1. pinned' = [pinned EXCEPT ![t] = IF pinned[t] = 0 THEN 0 ELSE 1]
      BY <1>5, <2>1, <2>2 DEF Restored
    <3>2. QED BY <2>1, <3>1
  <2>3. CASE UNCHANGED pinned /\ unrestored' = unrestored \cup {t}
    BY <1>5, <2>1, <2>3
  <2>4. QED BY <1>2, <2>2, <2>3
<1>7. /\ child' \in [Test -> Child] /\ child'[t].at = "done" /\ child'[t].iteration = child[t].iteration
      /\ child'[t].says = child[t].says /\ child'[t].before = child[t].before
      /\ \A u \in Test \ {t} : child'[u] = child[u]
  BY <1>1, Moves
<1>8. TypeOK' /\ \A u \in Test \ {t} : Same(u)
  BY <1>1, <1>3, <1>6, <1>7 DEF TypeOK, Same
<1>9. Numbered(t)' /\ AtPace(t)' /\ ActsFor(t)'
  BY <1>1, <1>7 DEF Stage, Numbered, AtPace, ActsFor, Preparing, Running, Acting
<1>10. Leaves(t)' /\ LeftDead(t)'
  BY <1>5, <1>6, <1>7 DEF Leaves, LeftDead, Dead
<1>11. QED BY <1>8, <1>9, <1>10, Assemble DEF Stage

-----------------------------------------------------------------------------
(* The parent.                                                             *)

LEMMA ContainStep == ASSUME InvestigatorInv, NEW t \in Test, Contain(t) PROVE InvestigatorInv'
<1>1. TypeOK /\ Stage(t) /\ child[t].at = "crashed" /\ Goes(t, "contained") /\ "contained" \in At
      /\ UNCHANGED <<pinned, runs, filed, current, unrestored, unmarked, report>>
  BY DEF InvestigatorInv, Contain, At
<1>2. /\ failure' = failure \cup {t} \/ failure' = failure
      /\ UNCHANGED faults \/ Fault
  BY DEF Contain, Tried
<1>3. failure' \subseteq Test /\ unmarked' \subseteq Test /\ faults' \in 0..MaxFaults
  BY <1>1, <1>2, FaultTyped DEF TypeOK
<1>4. /\ TypeOK' /\ \A u \in Test \ {t} : Same(u)
      /\ child'[t].at = "contained" /\ child'[t].iteration = child[t].iteration /\ child'[t].says = child[t].says
      /\ child'[t].before = child[t].before
  BY <1>1, <1>3, MovesOn
<1>5. Stage(t)'
  BY <1>1, <1>4 DEF Stage, Numbered, AtPace, ActsFor, Leaves, LeftDead, Preparing, Running, Acting, Dead
<1>6. QED BY <1>4, <1>5, Assemble

LEMMA SettleReportStep == ASSUME InvestigatorInv, SettleReport PROVE InvestigatorInv'
<1>1. TypeOK /\ report' \in {"settled", "refused"}
      /\ UNCHANGED <<child, pinned, runs, filed, current, failure, unrestored, unmarked, faults>>
  BY DEF InvestigatorInv, SettleReport, findings
<1>2. TypeOK'
  BY <1>1 DEF TypeOK
<1>3. \A t \in Test : Stage(t)'
  BY <1>1, SameStage DEF InvestigatorInv, Same
<1>4. QED BY <1>2, <1>3 DEF InvestigatorInv

LEMMA StutterStep == ASSUME InvestigatorInv, UNCHANGED vars PROVE InvestigatorInv'
<1>1. UNCHANGED <<child, pinned, runs, filed, current, failure, report, unrestored, unmarked, faults>>
  BY DEF vars, findings
<1>2. TypeOK'
  BY <1>1 DEF InvestigatorInv, TypeOK
<1>3. \A t \in Test : Stage(t)'
  BY <1>1, SameStage DEF InvestigatorInv, Same
<1>4. QED BY <1>2, <1>3 DEF InvestigatorInv

LEMMA StepInv == InvestigatorInv /\ [Next]_vars => InvestigatorInv'
<1> SUFFICES ASSUME InvestigatorInv, [Next]_vars PROVE InvestigatorInv'
  OBVIOUS
<1>1. ASSUME NEW t \in Test, Investigate(t) PROVE InvestigatorInv'
  BY <1>1, BeginStep, StartRunStep, ScenarioUpStep, EngineLostStep, ReadStatusStep, WriteFailedStep, MarkFailsStep, ClassifyStep,
     FileVerdictStep, SelfHealStep, ApplyUpdateStep, SkipRewriteStep, RemoveTestStep, RevertRewriteStep, ContainStep DEF Investigate
<1>2. ASSUME NEW t \in Test, NEW n \in DOMAIN runs[t], Engine(t, n) PROVE InvestigatorInv'
  BY <1>2, EngineStartsStep, EngineReportsStep, EngineReturnsStep, EngineThrowsStep DEF Engine
<1>3. QED BY <1>1, <1>2, SettleReportStep, StutterStep DEF Next

\* The inductive invariant: every child's runs, verdicts and plan are those of where it stands in its loop.
THEOREM InvestigatorInvariant == Spec => []InvestigatorInv
  BY InitInv, StepInv, PTL DEF Spec

\* Type correctness; in particular the loop never goes beyond its second iteration.
THEOREM InvestigatorTypes == Spec => []TypeOK
<1>1. InvestigatorInv => TypeOK
  BY DEF InvestigatorInv
<1>2. QED BY <1>1, InvestigatorInvariant, PTL

-----------------------------------------------------------------------------
(* What the invariant shows.                                               *)

LEMMA Justified == ASSUME TypeOK, NEW t \in Test, Stage(t)
  PROVE  /\ pinned[t] = 0 => current[t] # 0 /\ filed[t][current[t]] = "invalid_test"
         /\ pinned[t] > 1 => \E n \in 1..current[t] :
                /\ n <= Len(runs[t]) /\ runs[t][n].plan = pinned[t] - 1
                /\ filed[t][n] \in {"plan_mismatch", "passed"}
<1>1. /\ child[t].iteration \in 1..2 /\ child[t].at \in At /\ current[t] \in 0..2 /\ pinned[t] \in Nat
      /\ runs[t] \in Seq(Run) /\ Len(runs[t]) \in Nat
  BY OwnTyped
<1>2. child[t].at \in Preparing \cup Running \cup Acting \cup Dead
  BY <1>1 DEF At, Preparing, Running, Acting, Dead
<1>3. child[t].iteration = 2 => filed[t][1] = "plan_mismatch"
  BY DEF Stage, Numbered
<1>4. pinned[t] = 0 => child[t].at \in {"restoring", "done"}
  BY <1>1, <1>2 DEF Stage, AtPace, ActsFor, LeftDead, Preparing, Running, Acting, Dead
<1>5. pinned[t] = 0 => current[t] # 0 /\ filed[t][current[t]] = "invalid_test"
  BY <1>1, <1>4 DEF Stage, AtPace, Leaves, Acting
<1>6. ASSUME pinned[t] > 1
      PROVE  /\ pinned[t] - 1 \in 1..current[t] /\ pinned[t] - 1 <= Len(runs[t])
             /\ filed[t][pinned[t] - 1] \in {"plan_mismatch", "passed"}
  <2>1. CASE child[t].at \in Preparing \cup Running
    BY <1>1, <1>3, <1>6, <2>1 DEF Stage, AtPace
  <2>2. CASE child[t].at \in {"healing", "updating", "dropping"}
    BY <1>1, <1>3, <1>6, <2>2 DEF Stage, AtPace, ActsFor, Acting
  <2>3. CASE child[t].at = "restoring"
    BY <1>1, <1>3, <1>6, <2>3 DEF Stage, AtPace, ActsFor, Leaves, Acting
  <2>4. CASE child[t].at = "done"
    <3>1. current[t] = child[t].iteration /\ Len(runs[t]) = child[t].iteration /\ filed[t][child[t].iteration] = child[t].says
      BY <2>4 DEF Stage, AtPace, Acting
    <3>2. pinned[t] <= child[t].iteration + 1 /\ (pinned[t] = child[t].iteration + 1 => child[t].says = "passed")
      BY <2>4 DEF Stage, Leaves
    <3>3. CASE pinned[t] = child[t].iteration + 1
      <4>1. pinned[t] - 1 = child[t].iteration
        BY <1>1, <3>3
      <4>2. QED BY <1>1, <3>1, <3>2, <3>3, <4>1
    <3>4. CASE pinned[t] = 2 /\ child[t].iteration = 2
      BY <1>3, <3>1, <3>4
    <3>5. QED BY <1>1, <1>6, <3>2, <3>3, <3>4
  <2>5. CASE child[t].at \in Dead
    <3>1. pinned[t] = child[t].iteration
            \/ /\ pinned[t] = child[t].iteration + 1
               /\ Len(runs[t]) = child[t].iteration /\ current[t] = child[t].iteration
               /\ filed[t][child[t].iteration] \in {"plan_mismatch", "passed"}
      BY <2>5 DEF Stage, LeftDead
    <3>2. CASE pinned[t] = child[t].iteration
      BY <1>1, <1>3, <1>6, <2>5, <3>2 DEF Stage, LeftDead
    <3>3. CASE pinned[t] = child[t].iteration + 1
      <4>1. pinned[t] - 1 = child[t].iteration /\ child[t].iteration # child[t].iteration + 1
        BY <1>1, <3>3
      <4>2. Len(runs[t]) = child[t].iteration /\ current[t] = child[t].iteration
            /\ filed[t][child[t].iteration] \in {"plan_mismatch", "passed"}
        BY <3>1, <3>3, <4>1
      <4>3. QED BY <1>1, <4>1, <4>2
    <3>4. QED BY <3>1, <3>2, <3>3
  <2>6. QED BY <1>2, <2>1, <2>2, <2>3, <2>4, <2>5 DEF Acting
<1>7. \A n \in 1..Len(runs[t]) : runs[t][n].plan = n
  BY DEF Stage, Numbered
<1>8. QED BY <1>1, <1>5, <1>6, <1>7

\* Whatever fails, a plan is edited on a verdict that is on disk, over a run of that plan.
THEOREM EditsFollowVerdicts == Spec => []EditFollowsVerdict
<1>1. InvestigatorInv => EditFollowsVerdict
  BY Justified DEF InvestigatorInv, EditFollowsVerdict
<1>2. QED BY <1>1, InvestigatorInvariant, PTL

\* A child that ends on plan_mismatch or invalid_test leaves no rewrite, but for a restore that failed.
THEOREM RewritesAreUndone == Spec => []RewriteIsUndone
<1>1. InvestigatorInv => RewriteIsUndone
  <2> SUFFICES ASSUME InvestigatorInv, NEW t \in Test, child[t].at = "done", filed[t][2] \in {"plan_mismatch", "invalid_test"}
               PROVE  pinned[t] \in {0, 1} \/ t \in unrestored
    BY DEF RewriteIsUndone
  <2>1. TypeOK /\ Stage(t)
    BY DEF InvestigatorInv
  <2>2. child[t].iteration \in 1..2 /\ pinned[t] \in Nat
    BY <2>1, OwnTyped
  <2>3. CASE child[t].iteration = 2
    BY <2>1, <2>3 DEF Stage, AtPace, Leaves, Acting
  <2>4. CASE child[t].iteration = 1
    BY <2>1, <2>4 DEF Stage, Numbered
  <2>5. QED BY <2>2, <2>3, <2>4
<1>2. QED BY <1>1, InvestigatorInvariant, PTL

\* A test that passed promotes with the plan that passed, or the tightened one.
THEOREM PassedPlansPromote == Spec => []PassedPlanPromotes
<1>1. InvestigatorInv => PassedPlanPromotes
  <2> SUFFICES ASSUME InvestigatorInv, NEW t \in Test, child[t].at = "done", current[t] # 0, filed[t][current[t]] = "passed"
               PROVE  pinned[t] - runs[t][current[t]].plan \in {0, 1}
    BY DEF PassedPlanPromotes
  <2>1. TypeOK /\ Stage(t)
    BY DEF InvestigatorInv
  <2>2. child[t].iteration \in 1..2 /\ pinned[t] \in Nat
    BY <2>1, OwnTyped
  <2>3. /\ current[t] = child[t].iteration /\ Len(runs[t]) = child[t].iteration /\ child[t].says = "passed"
        /\ pinned[t] \in {child[t].iteration, child[t].iteration + 1}
    BY <2>1, <2>2 DEF Stage, AtPace, Leaves, Acting
  <2>4. runs[t][child[t].iteration].plan = child[t].iteration
    BY <2>1, <2>2, <2>3 DEF Stage, Numbered
  <2>5. QED BY <2>2, <2>3, <2>4
<1>2. QED BY <1>1, InvestigatorInvariant, PTL

\* What a child leaves when it is done is the plan its verdict calls for.
THEOREM VerdictsDecidePlan == Spec => []VerdictDecidesPlan
<1>1. RewriteIsUndone /\ PassedPlanPromotes => VerdictDecidesPlan BY DEF VerdictDecidesPlan
<1>2. QED BY <1>1, RewritesAreUndone, PassedPlansPromote, PTL

-----------------------------------------------------------------------------
(* What a step does to its own test, and to no other.                      *)

Rows == /\ child \in [Test -> Child] /\ pinned \in [Test -> Nat] /\ runs \in [Test -> Seq(Run)]
        /\ current \in [Test -> 0..2]

LEMMA RowsTyped == TypeOK => Rows
  BY DEF TypeOK, Rows, MaxIterations

Apart(t) == \A u \in Test \ {t} :
    child'[u] = child[u] /\ pinned'[u] = pinned[u] /\ runs'[u] = runs[u] /\ current'[u] = current[u]

LEMMA StepsApart ==
  ASSUME TypeOK, NEW t \in Test, Investigate(t) \/ \E n \in DOMAIN runs[t] : Engine(t, n)
  PROVE  Apart(t)
<1>1. Rows
  BY RowsTyped
<1>2. CASE Begin(t) \/ ScenarioUp(t) \/ ReadStatus(t) \/ MarkFails(t) \/ Classify(t) \/ SkipRewrite(t) \/ Contain(t)
  BY <1>1, <1>2 DEF Begin, ScenarioUp, ReadStatus, MarkFails, Classify, SkipRewrite, Contain, Goes, Marked, OnlyRun, OnlyPlan, findings, Rows, Apart
<1>3. CASE StartRun(t)
  BY <1>1, <1>3 DEF StartRun, Tried, Goes, OnlyRun, findings, Rows, Apart
<1>4. CASE EngineLost(t) \/ WriteFailed(t)
  BY <1>1, <1>4 DEF EngineLost, TimesOut, WriteFailed, Goes, Marked, OnlyRun, findings, Rows, Apart
<1>5. CASE FileVerdict(t)
  BY <1>1, <1>5 DEF FileVerdict, Tried, Filed, Goes, Rows, Apart
<1>6. CASE SelfHeal(t) \/ ApplyUpdate(t)
  BY <1>1, <1>6 DEF SelfHeal, ApplyUpdate, Tried, Revised, Healed, Goes, OnlyPlan, findings, Rows, Apart
<1>7. CASE RemoveTest(t) \/ RevertRewrite(t)
  BY <1>1, <1>7 DEF RemoveTest, RevertRewrite, Tried, Restored, Goes, OnlyPlan, findings, Rows, Apart
<1>8. ASSUME NEW n \in DOMAIN runs[t], Engine(t, n) PROVE Apart(t)
  BY <1>1, <1>8 DEF Engine, EngineStarts, EngineReports, EngineReturns, EngineThrows, Goes, OnlyRun, findings, Rows, Apart
<1>9. QED BY <1>2, <1>3, <1>4, <1>5, <1>6, <1>7, <1>8 DEF Investigate

\* A removed test is not brought back: a plan is edited where there is one, and a restore looks first.
THEOREM RemovalsStand == Spec => RemovalStands
<1>1. ASSUME InvestigatorInv, [Next]_vars, NEW u \in Test, pinned[u] = 0
      PROVE  pinned'[u] = 0
  <2>1. TypeOK /\ Stage(u) /\ Rows /\ pinned \in [Test -> Nat]
    BY <1>1, RowsTyped DEF InvestigatorInv, Rows
  <2>2. child[u].at \notin {"healing", "updating"}
    <3>1. child[u].iteration \in 1..2
      BY <2>1, OwnTyped
    <3>2. QED BY <1>1, <2>1, <3>1 DEF Stage, ActsFor
  <2>3. CASE Investigate(u)
    <3>1. ~SelfHeal(u) /\ ~ApplyUpdate(u)
      BY <2>2 DEF SelfHeal, ApplyUpdate
    <3>2. CASE RemoveTest(u)
      BY <1>1, <2>1, <3>2 DEF RemoveTest, Tried
    <3>3. CASE RevertRewrite(u)
      BY <1>1, <2>1, <3>3 DEF RevertRewrite, Tried, Restored
    <3>4. CASE Begin(u) \/ StartRun(u) \/ ScenarioUp(u) \/ EngineLost(u) \/ ReadStatus(u) \/ WriteFailed(u) \/ MarkFails(u)
                \/ Classify(u) \/ FileVerdict(u) \/ SkipRewrite(u) \/ Contain(u)
      BY <1>1, <3>4 DEF Begin, StartRun, ScenarioUp, EngineLost, TimesOut, ReadStatus, WriteFailed, MarkFails, Classify, FileVerdict, SkipRewrite,
         Contain, OnlyRun, OnlyPlan
    <3>5. QED BY <2>3, <3>1, <3>2, <3>3, <3>4 DEF Investigate
  <2>4. ASSUME NEW t \in Test, Investigate(t) \/ \E n \in DOMAIN runs[t] : Engine(t, n), t # u PROVE pinned'[u] = 0
    BY <1>1, <2>1, <2>4, StepsApart DEF Apart
  <2>5. ASSUME NEW n \in DOMAIN runs[u], Engine(u, n) PROVE pinned'[u] = 0
    BY <1>1, <2>5 DEF Engine, EngineStarts, EngineReports, EngineReturns, EngineThrows, OnlyRun
  <2>6. CASE SettleReport \/ UNCHANGED vars
    BY <1>1, <2>6 DEF SettleReport, vars
  <2>7. QED BY <1>1, <2>3, <2>4, <2>5, <2>6 DEF Next
<1>2. InvestigatorInv /\ [Next]_vars => [\A t \in Test : pinned[t] = 0 => pinned'[t] = 0]_vars
  BY <1>1
<1>3. QED BY <1>2, InvestigatorInvariant, PTL DEF Spec, RemovalStands

-----------------------------------------------------------------------------
(* Silence.                                                                *)

\* Where a step leaves its child: alive, or as dead as it was; or newly crashed; or contained.
Lives(t) == (child'[t].at \in Dead => child'[t].at = child[t].at) /\ (UNCHANGED faults \/ Fault)
Crashes(t) == child'[t].at = "crashed" /\ Fault
Contained(t) ==
    /\ child[t].at = "crashed" /\ child'[t].at = "contained"
    /\ \/ t \in failure' /\ UNCHANGED faults
       \/ Fault

LEMMA StepsCost ==
  ASSUME InvestigatorInv, NEW t \in Test, Investigate(t) \/ \E n \in DOMAIN runs[t] : Engine(t, n)
  PROVE  Lives(t) \/ Crashes(t) \/ Contained(t)
<1>1. TypeOK /\ Rows /\ child[t] \in Child /\ child \in [Test -> Child]
  BY RowsTyped DEF InvestigatorInv, Rows
<1>at. \A a : Goes(t, a) => child'[t].at = a
  BY <1>1 DEF Goes, Child
<1>2. CASE Begin(t) \/ ReadStatus(t) \/ MarkFails(t) \/ SkipRewrite(t)
  BY <1>1, <1>at, <1>2 DEF Begin, ReadStatus, MarkFails, SkipRewrite, Marked, Lives, Dead
<1>11. CASE ScenarioUp(t) \/ Classify(t)
  <2>1. child'[t].at \in {"running", "marking", "filing"}
    <3>1. CASE ScenarioUp(t)
      BY <1>1, <1>at, <3>1 DEF Child, ScenarioUp
    <3>2. CASE Classify(t)
      BY <1>1, <3>2 DEF Child, Classify
    <3>3. QED BY <1>11, <3>1, <3>2
  <2>2. QED BY <1>11, <2>1 DEF ScenarioUp, Classify, Lives, Dead
<1>3. CASE EngineLost(t) \/ WriteFailed(t)
  BY <1>1, <1>at, <1>3 DEF EngineLost, TimesOut, WriteFailed, Marked, Lives, Dead
<1>4. CASE StartRun(t) \/ ApplyUpdate(t)
  BY <1>1, <1>at, <1>4 DEF StartRun, ApplyUpdate, Tried, Lives, Crashes, Dead
<1>5. CASE FileVerdict(t)
  <2>1. Acts(child[t]) \notin Dead
    BY DEF Acts, Dead
  <2>2. QED BY <1>1, <1>at, <1>5, <2>1 DEF FileVerdict, Tried, Lives, Crashes
<1>6. CASE SelfHeal(t)
  BY <1>1, <1>at, <1>6 DEF Child, SelfHeal, Tried, Healed, Lives, Crashes, Dead
<1>7. CASE RemoveTest(t)
  BY <1>1, <1>at, <1>7 DEF RemoveTest, Tried, Lives, Dead
<1>8. CASE RevertRewrite(t)
  BY <1>1, <1>at, <1>8 DEF RevertRewrite, Tried, Lives, Dead
<1>9. CASE Contain(t)
  BY <1>1, <1>at, <1>9 DEF Contain, Tried, Contained
<1>10. ASSUME NEW n \in DOMAIN runs[t], Engine(t, n) PROVE Lives(t)
  BY <1>1, <1>at, <1>10 DEF Engine, EngineStarts, EngineReports, EngineReturns, EngineThrows, Lives, Dead
<1>12. QED BY <1>2, <1>3, <1>4, <1>5, <1>6, <1>7, <1>8, <1>9, <1>10, <1>11 DEF Investigate

LEMMA CoverageGrows ==
  ASSUME InvestigatorInv, NEW t \in Test, Investigate(t) \/ \E n \in DOMAIN runs[t] : Engine(t, n)
  PROVE  Covered \subseteq Covered' /\ failure' \subseteq Test
<1>1. TypeOK /\ Rows /\ child[t].iteration \in 1..2 /\ failure \subseteq Test
  BY RowsTyped, OwnTyped DEF InvestigatorInv, TypeOK
<1>2. CASE FileVerdict(t)
  BY <1>1, <1>2 DEF FileVerdict, Tried, Filed, Rows, Covered
<1>3. CASE Contain(t)
  BY <1>1, <1>3 DEF Contain, Tried, Covered
<1>4. CASE UNCHANGED <<current, failure>>
  BY <1>1, <1>4 DEF Covered
<1>5. Investigate(t) => FileVerdict(t) \/ Contain(t) \/ UNCHANGED <<current, failure>>
  BY DEF Investigate, Begin, StartRun, ScenarioUp, EngineLost, TimesOut, ReadStatus, WriteFailed, MarkFails, Classify, SelfHeal, ApplyUpdate,
     SkipRewrite, RemoveTest, RevertRewrite, OnlyRun, OnlyPlan, findings
<1>6. (\E n \in DOMAIN runs[t] : Engine(t, n)) => UNCHANGED <<current, failure>>
  BY DEF Engine, EngineStarts, EngineReports, EngineReturns, EngineThrows, OnlyRun, findings
<1>7. QED BY <1>2, <1>3, <1>4, <1>5, <1>6

\* A test without verdict or record whose child died has cost a failure; one whose death went unrecorded, another.
Gone == {t \in Test : child[t].at \in Dead /\ t \notin Covered}
Silent == {t \in Test : child[t].at = "contained" /\ t \notin Covered}
SilenceInv == Cardinality(Gone) + Cardinality(Silent) <= faults

LEMMA TestsFinite == ASSUME NEW S, S \subseteq Test PROVE IsFiniteSet(S) /\ Cardinality(S) \in Nat
<1>1. IsFiniteSet(Test)
  BY InvestigatorAssumption, FS_Interval DEF Test
<1>2. IsFiniteSet(S)
  BY <1>1, FS_Subset
<1>3. QED BY <1>2, FS_CardinalityType

LEMMA OneMore ==
  ASSUME NEW S, NEW T, NEW t \in Test, T \subseteq Test, S \subseteq T \cup {t}
  PROVE  Cardinality(S) <= Cardinality(T) + 1
<1>1. IsFiniteSet(T) /\ Cardinality(T) \in Nat /\ IsFiniteSet(S) /\ Cardinality(S) \in Nat
  BY TestsFinite
<1>2. IsFiniteSet(T \cup {t}) /\ Cardinality(T \cup {t}) <= Cardinality(T) + 1 /\ Cardinality(T \cup {t}) \in Nat
  <2>1. IsFiniteSet(T \cup {t}) /\ Cardinality(T \cup {t}) = IF t \in T THEN Cardinality(T) ELSE Cardinality(T) + 1
    BY <1>1, FS_AddElement
  <2>2. QED BY <1>1, <2>1
<1>3. Cardinality(S) <= Cardinality(T \cup {t})
  BY <1>2, FS_Subset
<1>4. QED BY <1>1, <1>2, <1>3

LEMMA NoMore == ASSUME NEW S, NEW T, T \subseteq Test, S \subseteq T PROVE Cardinality(S) <= Cardinality(T)
  BY TestsFinite, FS_Subset

LEMMA SilenceInit == Init => SilenceInv
<1> SUFFICES ASSUME Init PROVE SilenceInv
  OBVIOUS
<1>1. Gone = {} /\ Silent = {} /\ faults = 0
  BY DEF Init, Gone, Silent, Dead
<1>2. QED BY <1>1, FS_EmptySet DEF SilenceInv

LEMMA SilenceStep == InvestigatorInv /\ SilenceInv /\ [Next]_vars => SilenceInv'
<1> SUFFICES ASSUME InvestigatorInv, SilenceInv, [Next]_vars PROVE SilenceInv'
  OBVIOUS
<1>1. /\ Gone \subseteq Test /\ Silent \subseteq Test /\ Gone' \subseteq Test /\ Silent' \subseteq Test
      /\ faults \in Nat
  BY InvestigatorAssumption DEF Gone, Silent, InvestigatorInv, TypeOK
<1>2. /\ Cardinality(Gone) \in Nat /\ Cardinality(Silent) \in Nat /\ Cardinality(Gone') \in Nat /\ Cardinality(Silent') \in Nat
  BY <1>1, TestsFinite
<1>3. ASSUME NEW t \in Test, Investigate(t) \/ \E n \in DOMAIN runs[t] : Engine(t, n) PROVE SilenceInv'
  <2>1. Lives(t) \/ Crashes(t) \/ Contained(t)
    BY <1>3, StepsCost
  <2>2. Covered \subseteq Covered' /\ failure' \subseteq Test
    BY <1>3, CoverageGrows
  <2>3. \A u \in Test \ {t} : child'[u] = child[u]
    BY <1>3, StepsApart DEF InvestigatorInv, Apart
  <2>4. Gone' \subseteq Gone \cup {t} /\ Silent' \subseteq Silent \cup {t}
    BY <2>2, <2>3 DEF Gone, Silent
  <2>5. CASE Lives(t)
    <3>1. Gone' \subseteq Gone /\ Silent' \subseteq Silent
      BY <2>2, <2>4, <2>5 DEF Lives, Gone, Silent, Dead
    <3>2. Cardinality(Gone') <= Cardinality(Gone) /\ Cardinality(Silent') <= Cardinality(Silent)
      BY <1>1, <3>1, NoMore
    <3>3. faults' \in Nat /\ faults <= faults'
      BY <1>1, <2>5 DEF Lives, Fault
    <3>4. QED BY <1>1, <1>2, <3>2, <3>3 DEF SilenceInv
  <2>6. CASE Crashes(t)
    <3>1. Silent' \subseteq Silent
      BY <2>2, <2>4, <2>6 DEF Crashes, Silent
    <3>2. Cardinality(Gone') <= Cardinality(Gone) + 1 /\ Cardinality(Silent') <= Cardinality(Silent)
      BY <1>1, <2>4, <3>1, NoMore, OneMore
    <3>3. faults' = faults + 1
      BY <2>6 DEF Crashes, Fault
    <3>4. QED BY <1>1, <1>2, <3>2, <3>3 DEF SilenceInv
  <2>7. CASE Contained(t)
    <3>1. Gone' \subseteq Gone
      BY <2>2, <2>4, <2>7 DEF Contained, Gone, Dead
    <3>2. Cardinality(Gone') <= Cardinality(Gone)
      BY <1>1, <3>1, NoMore
    <3>3. CASE t \in failure' /\ UNCHANGED faults
      <4>1. Silent' \subseteq Silent
        BY <2>4, <3>3 DEF Silent, Covered
      <4>2. Cardinality(Silent') <= Cardinality(Silent)
        BY <1>1, <4>1, NoMore
      <4>3. QED BY <1>1, <1>2, <3>2, <3>3, <4>2 DEF SilenceInv
    <3>4. CASE Fault
      <4>1. Cardinality(Silent') <= Cardinality(Silent) + 1
        BY <1>1, <2>4, OneMore
      <4>2. QED BY <1>1, <1>2, <3>2, <3>4, <4>1 DEF SilenceInv, Fault
    <3>5. QED BY <2>7, <3>3, <3>4 DEF Contained
  <2>8. QED BY <2>1, <2>5, <2>6, <2>7
<1>4. CASE SettleReport \/ UNCHANGED vars
  <2>1. Gone' = Gone /\ Silent' = Silent /\ faults' = faults
    BY <1>4 DEF SettleReport, vars, findings, Gone, Silent, Covered
  <2>2. QED BY <2>1 DEF SilenceInv
<1>5. QED BY <1>3, <1>4 DEF Next

\* A test that ends with neither verdict nor containment has cost two failures, however many tests there are.
THEOREM SilenceCosts == Spec => []SilenceTakesTwoFaults
<1>1. InvestigatorInv /\ SilenceInv => SilenceTakesTwoFaults
  <2> SUFFICES ASSUME InvestigatorInv, SilenceInv PROVE SilenceTakesTwoFaults
    OBVIOUS
  <2> DEFINE S == {t \in Test : Ended(t) /\ t \notin Covered}
  <2>1. ASSUME NEW t \in Test, child[t].at = "done" PROVE t \in Covered
    <3>1. Stage(t) /\ child[t].iteration \in 1..2
      BY OwnTyped DEF InvestigatorInv
    <3>2. QED BY <2>1, <3>1 DEF Stage, AtPace, Acting, Covered
  <2>2. S \subseteq Silent /\ S \subseteq Gone /\ Silent \subseteq Test /\ Gone \subseteq Test
    BY <2>1 DEF Ended, Silent, Gone, Dead
  <2>3. Cardinality(S) <= Cardinality(Silent) /\ Cardinality(S) <= Cardinality(Gone)
    BY <2>2, NoMore
  <2>4. Cardinality(S) \in Nat /\ Cardinality(Silent) \in Nat /\ Cardinality(Gone) \in Nat /\ faults \in Nat
    BY <2>2, TestsFinite, InvestigatorAssumption DEF InvestigatorInv, TypeOK
  <2> HIDE DEF S
  <2>5. 2 * Cardinality(S) <= faults
    BY <2>3, <2>4 DEF SilenceInv
  <2>6. QED BY <2>5 DEF SilenceTakesTwoFaults, S
<1>2. Spec => []SilenceInv
  BY SilenceInit, SilenceStep, InvestigatorInvariant, PTL DEF Spec
<1>3. QED BY <1>1, <1>2, InvestigatorInvariant, PTL

-----------------------------------------------------------------------------
(* No run is left that nobody will end.                                    *)

Unfinished == {"provisioning", "running", "marking", "writing"}

\* Who has the n-th run of a test: nobody needs to, or its engine, or nobody could mark it, or the child that is
\* at it, or a child that died of creating it.
InGoodHands(t, n) ==
    \/ runs[t][n].status \in Complete \/ runs[t][n].engine = "on" \/ t \in unmarked
    \/ n = Len(runs[t]) /\ child[t].at \in Unfinished
    \/ n = Len(runs[t]) /\ child[t].at \in Dead /\ runs[t][n].engine = "off"

\* An engine that has reported has written the status.
Reported(t) == \A n \in 1..Len(runs[t]) : runs[t][n].engine = "reported" => runs[t][n].status \in Complete

Tidy(t) == Reported(t) /\ \A n \in 1..Len(runs[t]) : InGoodHands(t, n)

TidyInv ==
    /\ \A t \in Test : Tidy(t)
    /\ report # "none" => \A t \in Test : Ended(t)

LEMMA TidyInit == Init => TidyInv
<1> SUFFICES ASSUME Init PROVE TidyInv
  OBVIOUS
<1>1. \A t \in Test : Len(runs[t]) = 0
  BY DEF Init
<1>2. QED BY <1>1 DEF Init, TidyInv, Tidy, Reported

\* A step that writes no run: its child leaves an unfinished run to nobody.
LEMMA KeepsTidy ==
  ASSUME NEW t \in Test, Tidy(t), runs'[t] = runs[t], unmarked \subseteq unmarked',
         \/ child'[t].at = child[t].at
         \/ child[t].at \notin Unfinished \cup Dead
         \/ child[t].at = "crashed" /\ child'[t].at = "contained"
         \/ child'[t].at \in Unfinished
         \/ t \in unmarked'
         \/ child[t].at \in Unfinished /\ runs[t][Len(runs[t])].status \in Complete
  PROVE  Tidy(t)'
<1>1. Reported(t)'
  BY DEF Tidy, Reported
<1>2. ASSUME NEW n \in 1..Len(runs'[t]) PROVE InGoodHands(t, n)'
  BY <1>2 DEF Tidy, InGoodHands, Dead, Unfinished
<1>3. QED BY <1>1, <1>2 DEF Tidy

\* A step that writes the n-th run.
LEMMA WritesTidy ==
  ASSUME NEW t \in Test, Tidy(t), runs[t] \in Seq(Run), NEW n \in 1..Len(runs[t]), NEW r \in Run,
         runs'[t] = [runs[t] EXCEPT ![n] = r], unmarked \subseteq unmarked',
         r.engine = "reported" => r.status \in Complete,
         r.status \in Complete \/ r.engine = "on" \/ (n = Len(runs[t]) /\ child'[t].at \in Unfinished),
         \/ child'[t].at = child[t].at
         \/ n = Len(runs[t]) /\ child[t].at \in Unfinished
  PROVE  Tidy(t)'
<1>1. /\ Len(runs'[t]) = Len(runs[t]) /\ runs'[t][n] = r
      /\ \A i \in 1..Len(runs[t]) : i # n => runs'[t][i] = runs[t][i]
  OBVIOUS
<1>2. Reported(t)'
  BY <1>1 DEF Tidy, Reported
<1>3. ASSUME NEW i \in 1..Len(runs[t]) PROVE InGoodHands(t, i)'
  <2>1. CASE i = n
    BY <1>1, <2>1 DEF InGoodHands
  <2>2. CASE i # n
    BY <1>1, <2>2 DEF Tidy, InGoodHands, Dead, Unfinished
  <2>3. QED BY <2>1, <2>2
<1>4. QED BY <1>1, <1>2, <1>3 DEF Tidy

LEMMA EngineTidy ==
  ASSUME InvestigatorInv, NEW t \in Test, Tidy(t), NEW n \in DOMAIN runs[t], Engine(t, n)
  PROVE  Tidy(t)'
<1>1. TypeOK /\ Rows /\ child[t] \in Child /\ child \in [Test -> Child] /\ runs[t] \in Seq(Run) /\ runs \in [Test -> Seq(Run)]
  BY RowsTyped DEF InvestigatorInv, Rows
<1>2. \A a : Goes(t, a) => child'[t].at = a
  BY <1>1 DEF Goes, Child
<1>3. n \in 1..Len(runs[t]) /\ runs[t][n] \in Run /\ unmarked' = unmarked
  BY <1>1 DEF Engine, EngineStarts, EngineReports, EngineReturns, EngineThrows, OnlyRun
<1>4. CASE EngineStarts(t, n)
  <2> DEFINE r == [runs[t][n] EXCEPT !.engine = "on", !.status = "running"]
  <2>1. r \in Run /\ r.engine = "on"
    BY <1>3 DEF Run
  <2>2. runs'[t] = [runs[t] EXCEPT ![n] = r] /\ child' = child
    BY <1>1, <1>3, <1>4 DEF EngineStarts
  <2> HIDE DEF r
  <2>3. QED BY <1>1, <1>3, <2>1, <2>2, WritesTidy
<1>5. CASE EngineReports(t, n)
  <2>1. PICK status \in Complete : runs' = [runs EXCEPT ![t][n].engine = "reported", ![t][n].status = status]
    BY <1>5 DEF EngineReports
  <2> DEFINE r == [runs[t][n] EXCEPT !.engine = "reported", !.status = status]
  <2>2. r \in Run /\ r.status \in Complete
    BY <1>3 DEF Run
  <2>3. runs'[t] = [runs[t] EXCEPT ![n] = r] /\ child' = child
    BY <1>1, <1>3, <1>5, <2>1 DEF EngineReports
  <2> HIDE DEF r
  <2>4. QED BY <1>1, <1>3, <2>2, <2>3, WritesTidy
<1>6. CASE EngineReturns(t, n)
  <2> DEFINE r == [runs[t][n] EXCEPT !.engine = "over"]
  <2>1. r \in Run /\ r.status \in Complete
    BY <1>3, <1>6 DEF Run, EngineReturns, Tidy, Reported
  <2>2. runs'[t] = [runs[t] EXCEPT ![n] = r]
    BY <1>1, <1>3, <1>6 DEF EngineReturns
  <2>3. child[t].at = "running" /\ n = Len(runs[t])
    BY <1>6 DEF EngineReturns, Awaits
  <2> HIDE DEF r
  <2>4. QED BY <1>1, <1>3, <2>1, <2>2, <2>3, WritesTidy DEF Unfinished
<1>7. CASE EngineThrows(t, n)
  <2> DEFINE r == [runs[t][n] EXCEPT !.engine = "over", !.status = "failed"]
  <2>1. r \in Run /\ r.status \in Complete
    BY <1>3 DEF Run, Complete
  <2>2. runs'[t] = [runs[t] EXCEPT ![n] = r]
    BY <1>1, <1>3, <1>7 DEF EngineThrows
  <2>3. (child[t].at = "running" /\ n = Len(runs[t])) \/ child' = child
    BY <1>7 DEF EngineThrows, Awaits
  <2> HIDE DEF r
  <2>4. QED BY <1>1, <1>3, <2>1, <2>2, <2>3, WritesTidy DEF Unfinished
<1>8. QED BY <1>4, <1>5, <1>6, <1>7 DEF Engine

\* The child's own steps that write a run.
LEMMA StartRunTidy ==
  ASSUME InvestigatorInv, NEW t \in Test, Tidy(t), StartRun(t)
  PROVE  Tidy(t)'
<1>1. TypeOK /\ child[t] \in Child /\ child \in [Test -> Child] /\ runs[t] \in Seq(Run) /\ runs \in [Test -> Seq(Run)]
      /\ pinned[t] \in Nat /\ child[t].at = "starting" /\ unmarked' = unmarked
  BY RowsTyped DEF InvestigatorInv, Rows, StartRun, OnlyRun
<1>2. child'[t].at \in {"provisioning", "crashed"}
  BY <1>1 DEF StartRun, Tried, Goes, Child
<1>3. CASE UNCHANGED runs
  BY <1>1, <1>3, KeepsTidy DEF Dead, Unfinished
<1> DEFINE r == [plan |-> pinned[t], status |-> "pending", engine |-> "off"]
<1>4. CASE runs' = [runs EXCEPT ![t] = Append(@, r)]
  <2>1. r.engine = "off" /\ r \in Run
    BY <1>1 DEF Run
  <2> HIDE DEF r
  <2>2. runs'[t] = Append(runs[t], r)
    BY <1>1, <1>4
  <2>3. /\ Len(runs'[t]) = Len(runs[t]) + 1 /\ Len(runs[t]) \in Nat /\ runs'[t][Len(runs[t]) + 1] = r
        /\ \A i \in 1..Len(runs[t]) : runs'[t][i] = runs[t][i]
    BY <1>1, <2>1, <2>2
  <2>4. \A i \in 1..Len(runs'[t]) : i \in 1..Len(runs[t]) \/ i = Len(runs'[t])
    BY <2>3
  <2>5. Reported(t)'
    BY <2>1, <2>3, <2>4 DEF Tidy, Reported
  <2>6. ASSUME NEW i \in 1..Len(runs[t]) PROVE InGoodHands(t, i)'
    BY <1>1, <2>3 DEF Tidy, InGoodHands, Dead, Unfinished
  <2>7. ASSUME NEW i \in Nat, i = Len(runs'[t]) PROVE InGoodHands(t, i)'
    <3>1. runs'[t][i].engine = "off"
      BY <2>1, <2>3, <2>7
    <3>2. QED BY <1>2, <2>7, <3>1 DEF InGoodHands, Dead, Unfinished
  <2>8. \A i \in 1..Len(runs'[t]) : InGoodHands(t, i)'
    BY <2>3, <2>4, <2>6, <2>7
  <2>9. QED BY <2>5, <2>8 DEF Tidy
<1>5. QED BY <1>3, <1>4 DEF StartRun, Tried

LEMMA EngineLostTidy ==
  ASSUME InvestigatorInv, NEW t \in Test, Tidy(t), EngineLost(t)
  PROVE  Tidy(t)'
<1>1. TypeOK /\ child[t] \in Child /\ child \in [Test -> Child] /\ runs[t] \in Seq(Run) /\ runs \in [Test -> Seq(Run)]
      /\ child[t].at = "running" /\ unmarked' = unmarked
  BY RowsTyped DEF InvestigatorInv, Rows, EngineLost, TimesOut, OnlyRun
<1>2. child'[t].at = "marking"
  BY <1>1 DEF EngineLost, Goes, Child
<1> DEFINE n == Len(runs[t])
<1>3. n \in 1..Len(runs[t]) /\ runs[t][n] \in Run
  BY <1>1, LastRun DEF Running
<1>4. PICK engine \in {"cut", "on", "reported", "over"} :
        /\ engine \in {IF runs[t][n].engine = "off" THEN "cut" ELSE runs[t][n].engine, "over"}
        /\ runs' = [runs EXCEPT ![t][n].engine = engine]
  BY DEF EngineLost, TimesOut
<1> DEFINE r == [runs[t][n] EXCEPT !.engine = engine]
<1>5. r \in Run /\ (r.engine = "reported" => r.status \in Complete)
  BY <1>3, <1>4 DEF Run, Tidy, Reported
<1>6. runs'[t] = [runs[t] EXCEPT ![n] = r]
  BY <1>1, <1>3, <1>4
<1>7. n = Len(runs[t]) /\ child[t].at \in Unfinished /\ child'[t].at \in Unfinished
  BY <1>1, <1>2 DEF Unfinished
<1> HIDE DEF n, r
<1>8. QED BY <1>1, <1>3, <1>5, <1>6, <1>7, WritesTidy

LEMMA WriteFailedTidy ==
  ASSUME InvestigatorInv, NEW t \in Test, Tidy(t), WriteFailed(t)
  PROVE  Tidy(t)'
<1>1. TypeOK /\ runs[t] \in Seq(Run) /\ runs \in [Test -> Seq(Run)] /\ child[t].at = "writing" /\ unmarked' = unmarked
  BY RowsTyped DEF InvestigatorInv, Rows, WriteFailed, OnlyRun
<1> DEFINE n == Len(runs[t])
           r == [runs[t][n] EXCEPT !.status = "failed"]
<1>2. n \in 1..Len(runs[t]) /\ runs[t][n] \in Run
  BY <1>1, LastRun DEF Running
<1>3. r \in Run /\ r.status \in Complete
  BY <1>2 DEF Run, Complete
<1>4. runs'[t] = [runs[t] EXCEPT ![n] = r]
  BY <1>1, <1>2 DEF WriteFailed
<1>5. n = Len(runs[t]) /\ child[t].at \in Unfinished
  BY <1>1 DEF Unfinished
<1> HIDE DEF n, r
<1>6. QED BY <1>1, <1>2, <1>3, <1>4, <1>5, WritesTidy

\* And those that write none.
LEMMA InvestigateTidy ==
  ASSUME InvestigatorInv, NEW t \in Test, Tidy(t), Investigate(t)
  PROVE  Tidy(t)'
<1>1. TypeOK /\ child[t] \in Child /\ child \in [Test -> Child]
  BY RowsTyped DEF InvestigatorInv, Rows
<1>2. \A a : Goes(t, a) => child'[t].at = a
  BY <1>1 DEF Goes, Child
<1>3. CASE StartRun(t) \/ EngineLost(t) \/ WriteFailed(t)
  BY <1>3, StartRunTidy, EngineLostTidy, WriteFailedTidy
<1>4. CASE Begin(t)
  BY <1>4, KeepsTidy DEF Begin, Dead, Unfinished
<1>5. CASE ScenarioUp(t)
  <2>1. child'[t].at \in {"running", "marking"} /\ runs'[t] = runs[t] /\ unmarked' = unmarked
    BY <1>1, <1>2, <1>5 DEF ScenarioUp, OnlyRun, Child
  <2>2. QED BY <2>1, KeepsTidy DEF Unfinished
<1>6. CASE ReadStatus(t)
  <2>1. runs'[t] = runs[t] /\ unmarked' = unmarked /\ child[t].at = "marking"
    BY <1>6 DEF ReadStatus, OnlyRun
  <2>2. child'[t].at = "writing" \/ runs[t][Len(runs[t])].status \in Complete
    BY <1>2, <1>6 DEF ReadStatus
  <2>3. QED BY <2>1, <2>2, KeepsTidy DEF Unfinished
<1>7. CASE MarkFails(t)
  BY <1>7, KeepsTidy DEF MarkFails
<1>8. CASE Classify(t) \/ FileVerdict(t)
  <2>1. child[t].at \in {"classifying", "filing"} /\ runs'[t] = runs[t] /\ unmarked' = unmarked
    BY <1>8 DEF Classify, FileVerdict, OnlyRun
  <2>2. QED BY <2>1, KeepsTidy DEF Dead, Unfinished
<1>9. CASE SelfHeal(t) \/ ApplyUpdate(t) \/ SkipRewrite(t) \/ RemoveTest(t) \/ RevertRewrite(t)
  <2>1. child[t].at \in {"healing", "updating", "dropping", "restoring"} /\ runs'[t] = runs[t] /\ unmarked' = unmarked
    BY <1>9 DEF SelfHeal, ApplyUpdate, SkipRewrite, RemoveTest, RevertRewrite, OnlyPlan
  <2>2. QED BY <2>1, KeepsTidy DEF Dead, Unfinished
<1>10. CASE Contain(t)
  BY <1>2, <1>10, KeepsTidy DEF Contain
<1>11. QED BY <1>3, <1>4, <1>5, <1>6, <1>7, <1>8, <1>9, <1>10 DEF Investigate

LEMMA EndedStays ==
  ASSUME NEW t \in Test, Ended(t), Investigate(t) \/ \E n \in DOMAIN runs[t] : Engine(t, n)
  PROVE  Ended(t)'
<1>1. ~Investigate(t)
  BY DEF Ended, Investigate, Begin, StartRun, ScenarioUp, EngineLost, TimesOut, ReadStatus, WriteFailed, MarkFails, Classify, FileVerdict,
     SelfHeal, ApplyUpdate, SkipRewrite, RemoveTest, RevertRewrite, Contain
<1>2. QED BY <1>1 DEF Ended, Engine, EngineStarts, EngineReports, EngineReturns, EngineThrows, Awaits, OnlyRun

LEMMA TidyNext == InvestigatorInv /\ TidyInv /\ [Next]_vars => TidyInv'
<1> SUFFICES ASSUME InvestigatorInv, TidyInv, [Next]_vars PROVE TidyInv'
  OBVIOUS
<1>1. ASSUME NEW t \in Test, Investigate(t) \/ \E n \in DOMAIN runs[t] : Engine(t, n) PROVE TidyInv'
  <2>1. Tidy(t)'
    BY <1>1, InvestigateTidy, EngineTidy DEF TidyInv
  <2>2. \A u \in Test \ {t} : child'[u] = child[u] /\ runs'[u] = runs[u]
    BY <1>1, StepsApart DEF InvestigatorInv, Apart
  <2>3. report' = report /\ unmarked \subseteq unmarked'
    BY <1>1 DEF Investigate, Engine, Begin, StartRun, ScenarioUp, EngineLost, TimesOut, ReadStatus, WriteFailed, MarkFails, Classify,
       FileVerdict, SelfHeal, ApplyUpdate, SkipRewrite, RemoveTest, RevertRewrite, Contain, EngineStarts, EngineReports, EngineReturns,
       EngineThrows, OnlyRun, OnlyPlan
  <2>4. \A u \in Test \ {t} : Tidy(u)'
    BY <2>2, <2>3, KeepsTidy DEF TidyInv
  <2>5. report # "none" => \A u \in Test : Ended(u)'
    BY <1>1, <2>2, EndedStays DEF TidyInv, Ended
  <2>6. QED BY <2>1, <2>3, <2>4, <2>5 DEF TidyInv
<1>2. CASE SettleReport \/ UNCHANGED vars
  <2>1. UNCHANGED <<child, runs, unmarked>>
    BY <1>2 DEF SettleReport, vars
  <2>2. \A u \in Test : Tidy(u)'
    BY <2>1, KeepsTidy DEF TidyInv
  <2>3. report' # "none" => \A u \in Test : Ended(u)'
    BY <1>2, <2>1 DEF SettleReport, vars, TidyInv, Ended
  <2>4. QED BY <2>2, <2>3 DEF TidyInv
<1>3. QED BY <1>1, <1>2 DEF Next

\* Once the report is in, a run without a final status has its engine at it, or could not be marked, or was
\* created for a child that died without learning of it - whatever scenarios, engines and time-outs do.
THEOREM NothingStaysPending == Spec => []NothingLeftPending
<1>1. InvestigatorInv /\ TidyInv => NothingLeftPending
  <2> SUFFICES ASSUME InvestigatorInv, TidyInv, report # "none", NEW t \in Test, NEW n \in DOMAIN runs[t]
               PROVE  \/ runs[t][n].status \in Complete \/ runs[t][n].engine = "on" \/ t \in unmarked
                      \/ child[t].at = "contained" /\ n = Len(runs[t]) /\ runs[t][n].engine = "off"
    BY DEF NothingLeftPending
  <2>1. runs[t] \in Seq(Run) BY DEF InvestigatorInv, TypeOK
  <2>2. QED BY <2>1 DEF TidyInv, Tidy, InGoodHands, Ended, Unfinished, Dead
<1>2. Spec => []TidyInv
  BY TidyInit, TidyNext, InvestigatorInvariant, PTL DEF Spec
<1>3. QED BY <1>1, <1>2, InvestigatorInvariant, PTL

=============================================================================
