--------------------------- MODULE MergeGate_proofs ---------------------------
(***************************************************************************)
(* The gate of a pull request, for any number of heads, handlers and       *)
(* mishaps: types; one check per head; and, where a head met no fault,     *)
(* that its row tells its check, that a block stands and that a check in   *)
(* progress has a run behind it.                                           *)
(***************************************************************************)
EXTENDS MergeGate, SequenceTheorems, FiniteSetTheorems, TLAPS

-----------------------------------------------------------------------------
(* Sequences of checks.                                                    *)

\* The one check, posted and updated.
LEMMA OneCheck ==
  ASSUME NEW c, NEW d
  PROVE  Append(<<>>, d) = <<d>> /\ Len(<<d>>) = 1 /\ [<<c>> EXCEPT ![1] = d] = <<d>>
OBVIOUS

-----------------------------------------------------------------------------
(* Types.                                                                  *)

OpRecords == [kind : Kind, head : Heads, says : Says, check : Nat, at : {"waiting", "calling", "writing", "firing", "recording"}]

\* TypeOK in parts: GitHub, the rows, the handlers, the run, the histories.
GitHubTyped == head \in Heads /\ checks \in [Heads -> Seq(Says)]
RowsTyped == row \in [Heads -> [check : Nat, conclusion : Says]] /\ rows \in Seq(Heads) /\ skipped \subseteq Heads
OpsTyped == lock \in [Heads -> Op \cup {None}] /\ op \in [Op -> OpRecords \cup {Idle}]
RunTyped == runs \in {"on push", "on request", "when ready"} /\ run \in [head : Heads \cup {None}, opened : BOOLEAN]
HistoryTyped ==
    verdict \in [Heads -> {"none", "blocks", "declined"}] /\ abandoned \subseteq Heads /\ faults \in [Heads -> Nat]
CountTyped == mishaps \in 0..MaxMishaps

LEMMA TypeParts == TypeOK <=> GitHubTyped /\ RowsTyped /\ OpsTyped /\ RunTyped /\ HistoryTyped /\ CountTyped
  BY DEF TypeOK, GitHubTyped, RowsTyped, OpsTyped, OpRecords, RunTyped, HistoryTyped, CountTyped

LEMMA TypePartsNext ==
  GitHubTyped' /\ RowsTyped' /\ OpsTyped' /\ RunTyped' /\ HistoryTyped' /\ CountTyped' => TypeOK'
  BY DEF TypeOK, GitHubTyped, RowsTyped, OpsTyped, OpRecords, RunTyped, HistoryTyped, CountTyped

LEMMA GateInitTypes == Init => TypeOK
<1> SUFFICES ASSUME Init PROVE TypeOK
  OBVIOUS
<1>1. GitHubTyped
  BY EmptySeq DEF Init, GitHubTyped
<1>2. RowsTyped
  BY EmptySeq DEF Init, RowsTyped, Says
<1>3. OpsTyped
  BY DEF Init, OpsTyped
<1>4. RunTyped
  BY DEF Init, RunTyped
<1>5. HistoryTyped
  BY DEF Init, HistoryTyped
<1>6. mishaps = 0
  BY DEF Init
<1>7. CountTyped
  BY <1>6, MergeGateAssumption DEF CountTyped
<1>8. QED BY <1>1, <1>2, <1>3, <1>4, <1>5, <1>7, TypeParts

\* A handler at work.
LEMMA AtWork == ASSUME TypeOK, NEW p \in Op, op[p].at # "idle" PROVE op[p] \in OpRecords
  BY TypeParts DEF OpsTyped, Idle

\* How a handler moves on: it begins, is done, or goes on with its record changed.
Moved(p) == \E o \in OpRecords \cup {Idle} : op' = [op EXCEPT ![p] = o]

LEMMA MovedTyped == ASSUME NEW p \in Op, TypeOK, Moved(p) PROVE op' \in [Op -> OpRecords \cup {Idle}]
  BY TypeParts DEF Moved, OpsTyped

LEMMA DoneMoves == ASSUME NEW p \in Op, Done(p) PROVE Moved(p)
  BY DEF Done, Moved

LEMMA BeginMoves ==
  ASSUME NEW p \in Op, NEW kind \in Kind, NEW h \in Heads, NEW says \in Says, NEW check \in Nat, Begin(p, kind, h, says, check)
  PROVE  Moved(p)
<1>1. [kind |-> kind, head |-> h, at |-> "waiting", says |-> says, check |-> check] \in OpRecords
  BY DEF OpRecords
<1>2. QED BY <1>1 DEF Begin, Moved

LEMMA GoesMoves ==
  ASSUME TypeOK, NEW p \in Op, op[p].at # "idle", NEW at \in {"waiting", "calling", "writing", "firing", "recording"}, Goes(p, at)
  PROVE  Moved(p)
<1>1. [op[p] EXCEPT !.at = at] \in OpRecords
  BY AtWork DEF OpRecords
<1>2. op' = [op EXCEPT ![p] = [op[p] EXCEPT !.at = at]]
  BY DEF Goes
<1>3. QED BY <1>1, <1>2 DEF Moved

LEMMA EnterMoves == ASSUME TypeOK, NEW p \in Op, Enter(p) PROVE Moved(p)
<1>1. op[p] \in OpRecords /\ row[op[p].head].check \in Nat
  BY AtWork, TypeParts DEF Enter, OpRecords, RowsTyped
<1>2. CASE Done(p)
  BY <1>2, DoneMoves
<1>3. CASE op' = [op EXCEPT ![p].at = "calling", ![p].check = IF op[p].kind = "skip" THEN @ ELSE row[op[p].head].check]
  <2> DEFINE o == [op[p] EXCEPT !.at = "calling", !.check = IF op[p].kind = "skip" THEN @ ELSE row[op[p].head].check]
  <2>1. o \in OpRecords
    BY <1>1 DEF OpRecords
  <2>2. op' = [op EXCEPT ![p] = o]
    BY <1>3
  <2>3. QED BY <2>1, <2>2 DEF Moved
<1>4. QED BY <1>2, <1>3 DEF Enter

\* What a handler that begins is.
Begun(p, kind, h, says, check) == [kind |-> kind, head |-> h, at |-> "waiting", says |-> says, check |-> check]

\* What posting a check does to the checks of its head, and of the others.
LEMMA PostedChecks ==
  ASSUME TypeOK, NEW o \in OpRecords, Posted(o)
  PROVE  /\ checks' \in [Heads -> Seq(Says)]
         /\ \A h \in Heads \ {o.head} : checks'[h] = checks[h]
         /\ checks'[o.head] = IF o.check = 0 THEN Append(checks[o.head], o.says) ELSE [checks[o.head] EXCEPT ![o.check] = o.says]
         /\ Len(checks'[o.head]) = Len(checks[o.head]) + (IF o.check = 0 THEN 1 ELSE 0)
<1>0. checks \in [Heads -> Seq(Says)] /\ o.head \in Heads /\ o.says \in Says /\ checks[o.head] \in Seq(Says)
  BY TypeParts DEF GitHubTyped, OpRecords
<1> DEFINE after == IF o.check = 0 THEN Append(checks[o.head], o.says) ELSE [checks[o.head] EXCEPT ![o.check] = o.says]
<1>1. after \in Seq(Says) /\ Len(after) = Len(checks[o.head]) + (IF o.check = 0 THEN 1 ELSE 0)
  <2>1. CASE o.check = 0
    BY <1>0, <2>1
  <2>2. CASE o.check # 0
    <3>1. checks[o.head] \in [1..Len(checks[o.head]) -> Says] /\ Len(checks[o.head]) \in Nat
      BY <1>0, LenProperties
    <3>2. after \in [1..Len(checks[o.head]) -> Says]
      BY <1>0, <2>2, <3>1
    <3>3. after \in Seq(Says)
      BY <3>1, <3>2, SeqDef
    <3> HIDE DEF after
    <3>4. DOMAIN after = 1..Len(after) /\ Len(after) \in Nat
      BY <3>3, LenProperties
    <3>5. QED BY <2>2, <3>1, <3>2, <3>3, <3>4
  <2>3. QED BY <2>1, <2>2
<1>2. checks' = [checks EXCEPT ![o.head] = after]
  BY DEF Posted
<1>3. QED BY <1>0, <1>1, <1>2

LEMMA PostedVerdict ==
  ASSUME TypeOK, NEW o \in OpRecords, Posted(o)
  PROVE  /\ verdict' \in [Heads -> {"none", "blocks", "declined"}]
         /\ \A h \in Heads \ {o.head} : verdict'[h] = verdict[h]
         /\ verdict'[o.head] = CASE o.kind = "conclude" -> IF o.says = "failure" THEN "blocks" ELSE "none"
                                 [] o.kind = "request" /\ o.says = "neutral" /\ verdict[o.head] = "blocks" -> "declined"
                                 [] OTHER -> verdict[o.head]
  BY TypeParts DEF Posted, HistoryTyped, OpRecords

LEMMA CallMoves == ASSUME TypeOK, NEW p \in Op, Call(p) PROVE Moved(p)
<1>1. op[p] \in OpRecords
  BY AtWork DEF Call
<1>2. Len(checks'[op[p].head]) \in Nat
  BY <1>1, PostedChecks, LenProperties DEF Call, OpRecords
<1> DEFINE o == [op[p] EXCEPT !.at = "writing", !.check = IF @ = 0 THEN Len(checks'[op[p].head]) ELSE @]
<1>3. o \in OpRecords
  BY <1>1, <1>2 DEF OpRecords
<1>4. op' = [op EXCEPT ![p] = o]
  BY DEF Call
<1>5. QED BY <1>3, <1>4 DEF Moved

LEMMA DeclineMoves == ASSUME TypeOK, NEW p \in Op, Decline(p) PROVE Moved(p)
<1> DEFINE o == [op[p] EXCEPT !.at = "calling", !.says = "neutral"]
<1>1. o \in OpRecords
  BY AtWork DEF Decline, OpRecords, Says
<1>2. op' = [op EXCEPT ![p] = o]
  BY DEF Decline
<1>3. QED BY <1>1, <1>2 DEF Moved

LEMMA HandlerBegins ==
  ASSUME TypeOK, NEW p \in Op,
         OpenMergeGate(p) \/ SettleRun(p) \/ PostPending(p) \/ RequestAnalysisRun(p) \/ ApplySkip(p)
  PROVE  \E kind \in Kind, h \in Heads, says \in Says, check \in Nat : Begin(p, kind, h, says, check)
<1>0. GitHubTyped /\ RowsTyped /\ RunTyped /\ HistoryTyped
  BY TypeParts
<1>1. CASE OpenMergeGate(p)
  BY <1>0, <1>1 DEF OpenMergeGate, Kind, Says, RunTyped
<1>2. CASE SettleRun(p)
  BY <1>0, <1>2, MergeGateAssumption DEF SettleRun, Kind, Says, RunTyped
<1>3. CASE PostPending(p)
  BY <1>0, <1>3 DEF PostPending, Kind, Says, GitHubTyped, HistoryTyped
<1>4. CASE RequestAnalysisRun(p)
  BY <1>0, <1>4 DEF RequestAnalysisRun, Kind, Says, GitHubTyped
<1>5. CASE ApplySkip(p)
  <2>1. rows[Len(rows)] \in Heads
    BY <1>0, <1>5, ElementOfSeq, EmptySeq, LenProperties DEF ApplySkip, RowsTyped
  <2>2. row[rows[Len(rows)]].check \in Nat
    BY <1>0, <2>1 DEF RowsTyped
  <2>3. QED BY <1>5, <2>1, <2>2 DEF ApplySkip, Kind, Says
<1>6. QED BY <1>1, <1>2, <1>3, <1>4, <1>5

LEMMA HandlerMoves ==
  ASSUME TypeOK, [Next]_vars
  PROVE  UNCHANGED op \/ \E p \in Op : Moved(p)
<1>1. ASSUME NEW p \in Op, OpenMergeGate(p) \/ SettleRun(p) \/ PostPending(p) \/ RequestAnalysisRun(p) \/ ApplySkip(p)
      PROVE Moved(p)
  BY <1>1, HandlerBegins, BeginMoves
<1>2. ASSUME NEW p \in Op, Write(p) PROVE Moved(p)
  BY <1>2, DoneMoves, GoesMoves DEF Write, Written
<1>3. ASSUME NEW p \in Op, Fire(p) \/ RecordSkip(p) \/ CallFails(p) \/ Crash(p) PROVE Moved(p)
  BY <1>3, DoneMoves DEF Fire, RecordSkip, CallFails, Crash
<1>4. ASSUME NEW p \in Op, Enter(p) \/ Call(p) \/ Decline(p) PROVE Moved(p)
  BY <1>4, EnterMoves, CallMoves, DeclineMoves
<1>5. QED BY <1>1, <1>2, <1>3, <1>4 DEF Next, vars, Push, StartRun, CancelRun, LockExpires

LEMMA FaultCounted ==
  ASSUME TypeOK, NEW h \in Heads, Fault(h)
  PROVE  faults' \in [Heads -> Nat] /\ faults'[h] = faults[h] + 1 /\ \A g \in Heads \ {h} : faults'[g] = faults[g]
<1>1. faults \in [Heads -> Nat] /\ faults[h] + 1 \in Nat
  BY TypeParts DEF HistoryTyped
<1>2. faults' = [faults EXCEPT ![h] = faults[h] + 1]
  BY DEF Fault
<1>3. QED BY <1>1, <1>2

\* The head of a handler that fails or dies.
LEMMA FaultyHead == ASSUME TypeOK, NEW p \in Op, CallFails(p) \/ Crash(p) PROVE op[p] \in OpRecords /\ op[p].head \in Heads
  BY TypeParts DEF OpsTyped, CallFails, Crash, Idle, OpRecords

LEMMA GateTypeStep == TypeOK /\ [Next]_vars => TypeOK'
<1> SUFFICES ASSUME TypeOK, [Next]_vars PROVE TypeOK'
  OBVIOUS
<1>0. GitHubTyped /\ RowsTyped /\ OpsTyped /\ RunTyped /\ HistoryTyped /\ CountTyped
  BY TypeParts
<1>1. ASSUME NEW p \in Op, Call(p) \/ CallFails(p)
      PROVE checks' \in [Heads -> Seq(Says)] /\ verdict' \in [Heads -> {"none", "blocks", "declined"}]
  <2>1. op[p] \in OpRecords
    BY <1>1, AtWork DEF Call, CallFails
  <2>2. QED BY <1>0, <1>1, <2>1, PostedChecks, PostedVerdict DEF Call, CallFails, GitHubTyped, HistoryTyped
<1>2. GitHubTyped'
  BY <1>0, <1>1 DEF GitHubTyped, Next, vars, Push, StartRun, CancelRun, OnlyRun, OnlyOp, OnlyLocked, Fault, OpenMergeGate, SettleRun,
     PostPending, RequestAnalysisRun, ApplySkip, Enter, Call, CallFails, Write, Fire, Decline, RecordSkip, Crash, LockExpires
<1>3. ASSUME NEW p \in Op, Write(p) PROVE RowsTyped'
  <2>1. op[p] \in OpRecords
    BY <1>3, AtWork DEF Write
  <2>2. [check |-> IF op[p].kind \in {"conclude", "skip"} /\ row[op[p].head].check # 0 THEN row[op[p].head].check ELSE op[p].check,
         conclusion |-> op[p].says] \in [check : Nat, conclusion : Says]
    BY <1>0, <2>1 DEF OpRecords, RowsTyped
  <2>3. row' \in [Heads -> [check : Nat, conclusion : Says]]
    BY <1>0, <1>3, <2>2 DEF RowsTyped, Write
  <2>4. rows' \in Seq(Heads)
    BY <1>0, <1>3, <2>1 DEF RowsTyped, Write, OpRecords
  <2>5. QED BY <1>0, <1>3, <2>3, <2>4 DEF RowsTyped, Write
<1>4. ASSUME NEW p \in Op, RecordSkip(p) PROVE RowsTyped'
  BY <1>0, <1>4, AtWork DEF RowsTyped, RecordSkip, OpRecords
<1>5. RowsTyped'
  <2>1. CASE UNCHANGED <<row, rows, skipped>>
    BY <1>0, <2>1 DEF RowsTyped
  <2>2. QED
    BY <1>3, <1>4, <2>1 DEF Next, vars, Push, StartRun, CancelRun, OnlyRun, OnlyOp, OnlyLocked, Fault, OpenMergeGate, SettleRun,
       PostPending, RequestAnalysisRun, ApplySkip, Enter, Call, CallFails, Fire, Decline, Crash, LockExpires
<1>6. lock' \in [Heads -> Op \cup {None}]
  <2>1. ASSUME NEW p \in Op, Unlock(p) PROVE lock' \in [Heads -> Op \cup {None}]
    BY <1>0, <2>1 DEF OpsTyped, Unlock
  <2>2. ASSUME NEW p \in Op, Enter(p) PROVE lock' \in [Heads -> Op \cup {None}]
    BY <1>0, <2>2 DEF OpsTyped, Enter
  <2>3. CASE UNCHANGED lock
    BY <1>0, <2>3 DEF OpsTyped
  <2>4. QED
    BY <2>1, <2>2, <2>3 DEF Next, vars, Push, StartRun, CancelRun, OnlyRun, OnlyOp, OpenMergeGate, SettleRun,
       PostPending, RequestAnalysisRun, ApplySkip, Call, CallFails, Write, Written, Fire, Decline, RecordSkip, Crash, LockExpires
<1>7. OpsTyped'
  BY <1>0, <1>6, HandlerMoves, MovedTyped DEF OpsTyped
<1>8. RunTyped'
  <2>1. \A h \in Heads \cup {None} : On(h) \in [head : Heads \cup {None}, opened : BOOLEAN]
    BY DEF On
  <2>2. ASSUME NEW p \in Op, OpenMergeGate(p) PROVE RunTyped'
    BY <1>0, <2>2 DEF RunTyped, OpenMergeGate, OnlyRun
  <2>3. CASE UNCHANGED <<runs, run>>
    BY <1>0, <2>3 DEF RunTyped
  <2>4. CASE run' \in {run, On(head), On(None)} /\ UNCHANGED runs
    BY <1>0, <2>1, <2>4 DEF RunTyped, GitHubTyped
  <2>5. QED
    BY <2>2, <2>3, <2>4 DEF Next, vars, Push, StartRun, CancelRun, OnlyRun, OnlyOp, OnlyLocked, Fault, SettleRun,
       PostPending, RequestAnalysisRun, ApplySkip, Enter, Call, CallFails, Write, Fire, Decline, RecordSkip, Crash, LockExpires
<1>9. HistoryTyped'
  <2>1. verdict' \in [Heads -> {"none", "blocks", "declined"}]
    BY <1>0, <1>1 DEF HistoryTyped, Next, vars, history, Push, StartRun, CancelRun, OnlyRun, OnlyOp, OpenMergeGate, SettleRun,
       PostPending, RequestAnalysisRun, ApplySkip, Enter, Write, Fire, Decline, RecordSkip, Crash, LockExpires
  <2>2. abandoned' \subseteq Heads
    BY <1>0 DEF HistoryTyped, GitHubTyped, RunTyped, Next, vars, history, Push, StartRun, CancelRun, OnlyOp, OnlyLocked, Fault, OpenMergeGate,
       SettleRun, PostPending, RequestAnalysisRun, ApplySkip, Enter, Call, CallFails, Write, Fire, Decline, RecordSkip, Crash, LockExpires
  <2>3. ASSUME NEW h \in Heads, Fault(h) PROVE faults' \in [Heads -> Nat]
    BY <2>3, FaultCounted
  <2>4. faults' \in [Heads -> Nat]
    BY <1>0, <2>3, FaultyHead DEF HistoryTyped, Next, vars, history, Push, StartRun, CancelRun, OnlyRun, OnlyOp, OnlyLocked, OpenMergeGate,
       SettleRun, PostPending, RequestAnalysisRun, ApplySkip, Enter, Call, CallFails, Write, Fire, Decline, RecordSkip, Crash, LockExpires
  <2>5. QED BY <2>1, <2>2, <2>4 DEF HistoryTyped
<1>10. CountTyped'
  <2>1. Mishap \/ UNCHANGED mishaps
    BY DEF Next, vars, Push, StartRun, CancelRun, OnlyOp, OnlyLocked, Fault, OpenMergeGate,
       SettleRun, PostPending, RequestAnalysisRun, ApplySkip, Enter, Call, CallFails, Write, Fire, Decline, RecordSkip, Crash, LockExpires
  <2>2. QED BY <1>0, <2>1, MergeGateAssumption DEF CountTyped, Mishap
<1>11. QED BY <1>2, <1>5, <1>7, <1>8, <1>9, <1>10, TypePartsNext

-----------------------------------------------------------------------------
(* What becomes of a handler at each of its steps.                         *)

Becomes(p, kind, h, at, says, check) ==
    /\ op'[p].kind = kind /\ op'[p].head = h /\ op'[p].at = at /\ op'[p].says = says /\ op'[p].check = check
    /\ \A q \in Op \ {p} : op'[q] = op[q]
Finishes(p) == op'[p] = Idle /\ \A q \in Op \ {p} : op'[q] = op[q]

LEMMA DoneFinishes == ASSUME TypeOK, NEW p \in Op, Done(p) PROVE Finishes(p)
  BY TypeParts DEF Done, Finishes, OpsTyped

LEMMA BeginBecomes ==
  ASSUME TypeOK, NEW p \in Op, NEW kind, NEW h, NEW says, NEW check, Begin(p, kind, h, says, check)
  PROVE  op[p] = Idle /\ Becomes(p, kind, h, "waiting", says, check)
  BY TypeParts DEF Begin, Becomes, OpsTyped

LEMMA GoesBecomes ==
  ASSUME TypeOK, NEW p \in Op, NEW at, op[p].at # "idle", Goes(p, at)
  PROVE  Becomes(p, op[p].kind, op[p].head, at, op[p].says, op[p].check)
<1>1. op[p] \in OpRecords
  BY AtWork
<1>2. op' = [op EXCEPT ![p] = [op[p] EXCEPT !.at = at]]
  BY DEF Goes
<1>3. QED BY <1>1, <1>2, TypeParts DEF Becomes, OpsTyped, OpRecords

LEMMA EnterBecomes ==
  ASSUME TypeOK, NEW p \in Op, Enter(p)
  PROVE  \/ Finishes(p) /\ UNCHANGED lock
         \/ /\ Acts(op[p]) /\ lock' = [lock EXCEPT ![op[p].head] = p]
            /\ Becomes(p, op[p].kind, op[p].head, "calling", op[p].says,
                       IF op[p].kind = "skip" THEN op[p].check ELSE row[op[p].head].check)
<1>1. op[p] \in OpRecords
  BY AtWork DEF Enter
<1>2. CASE Acts(op[p])
  <2> DEFINE c == IF op[p].kind = "skip" THEN op[p].check ELSE row[op[p].head].check
             o == [op[p] EXCEPT !.at = "calling", !.check = c]
  <2>1. o.kind = op[p].kind /\ o.head = op[p].head /\ o.at = "calling" /\ o.says = op[p].says /\ o.check = c
    BY <1>1 DEF OpRecords
  <2>2. op' = [op EXCEPT ![p] = o] /\ lock' = [lock EXCEPT ![op[p].head] = p]
    BY <1>2 DEF Enter
  <2>3. QED BY <1>2, <2>1, <2>2, TypeParts DEF Becomes, OpsTyped
<1>3. QED BY <1>2, DoneFinishes DEF Enter

LEMMA CallBecomes ==
  ASSUME TypeOK, NEW p \in Op, Call(p)
  PROVE  Becomes(p, op[p].kind, op[p].head, "writing", op[p].says,
                 IF op[p].check = 0 THEN Len(checks'[op[p].head]) ELSE op[p].check)
<1> DEFINE c == IF op[p].check = 0 THEN Len(checks'[op[p].head]) ELSE op[p].check
           o == [op[p] EXCEPT !.at = "writing", !.check = c]
<1>1. o.kind = op[p].kind /\ o.head = op[p].head /\ o.at = "writing" /\ o.says = op[p].says /\ o.check = c
  BY AtWork DEF Call, OpRecords
<1>2. op' = [op EXCEPT ![p] = o]
  BY DEF Call
<1>3. QED BY <1>1, <1>2, TypeParts DEF Becomes, OpsTyped

LEMMA DeclineBecomes ==
  ASSUME TypeOK, NEW p \in Op, Decline(p)
  PROVE  Becomes(p, op[p].kind, op[p].head, "calling", "neutral", op[p].check)
<1> DEFINE o == [op[p] EXCEPT !.at = "calling", !.says = "neutral"]
<1>1. o.kind = op[p].kind /\ o.head = op[p].head /\ o.at = "calling" /\ o.says = "neutral" /\ o.check = op[p].check
  BY AtWork DEF Decline, OpRecords
<1>2. op' = [op EXCEPT ![p] = o]
  BY DEF Decline
<1>3. QED BY <1>1, <1>2, TypeParts DEF Becomes, OpsTyped

LEMMA WriteBecomes ==
  ASSUME TypeOK, NEW p \in Op, Write(p)
  PROVE  \/ Finishes(p) /\ Unlock(p) /\ op[p].kind # "skip" /\ (op[p].kind = "request" => op[p].says # "in_progress")
         \/ /\ op[p].kind = "request" /\ op[p].says = "in_progress" /\ UNCHANGED lock
            /\ Becomes(p, "request", op[p].head, "firing", "in_progress", op[p].check)
         \/ /\ op[p].kind = "skip" /\ UNCHANGED lock
            /\ Becomes(p, "skip", op[p].head, "recording", op[p].says, op[p].check)
  BY DoneFinishes, GoesBecomes DEF Write, Written

\* The row a handler writes, and the others.
LEMMA WriteRow ==
  ASSUME TypeOK, NEW p \in Op, Write(p)
  PROVE  /\ op[p] \in OpRecords
         /\ row'[op[p].head].check = IF op[p].kind \in {"conclude", "skip"} /\ row[op[p].head].check # 0
                                       THEN row[op[p].head].check ELSE op[p].check
         /\ row'[op[p].head].conclusion = op[p].says
         /\ \A h \in Heads \ {op[p].head} : row'[h] = row[h]
<1>1. op[p] \in OpRecords
  BY AtWork DEF Write
<1>2. QED BY <1>1, TypeParts DEF Write, RowsTyped, OpRecords

\* Only Write writes a row, only Call and CallFails post a check.
LEMMA RowKept == ASSUME [Next]_vars PROVE UNCHANGED <<row, rows>> \/ \E p \in Op : Write(p)
  BY DEF Next, vars, Push, StartRun, CancelRun, OnlyRun, OnlyOp, OnlyLocked, Fault, OpenMergeGate, SettleRun,
     PostPending, RequestAnalysisRun, ApplySkip, Enter, Call, CallFails, Fire, Decline, RecordSkip, Crash, LockExpires

LEMMA ChecksKept == ASSUME [Next]_vars PROVE UNCHANGED <<checks, verdict>> \/ \E p \in Op : Call(p) \/ (CallFails(p) /\ Posted(op[p]))
  BY DEF Next, vars, history, Push, StartRun, CancelRun, OnlyRun, OnlyOp, OnlyLocked, Fault, OpenMergeGate, SettleRun,
     PostPending, RequestAnalysisRun, ApplySkip, Enter, Write, CallFails, Fire, Decline, RecordSkip, Crash, LockExpires

\* A head's faults only grow.
LEMMA FaultsGrow == ASSUME TypeOK, [Next]_vars, NEW h \in Heads PROVE faults[h] \in Nat /\ faults'[h] \in Nat /\ faults[h] <= faults'[h]
<1>1. faults \in [Heads -> Nat]
  BY TypeParts DEF HistoryTyped
<1>2. ASSUME NEW g \in Heads, Fault(g) PROVE faults'[h] \in Nat /\ faults[h] <= faults'[h]
  BY <1>1, <1>2, FaultCounted
<1>3. UNCHANGED faults \/ \E g \in Heads : Fault(g)
  BY FaultyHead DEF Next, vars, history, Push, StartRun, CancelRun, OnlyRun, OnlyOp, OnlyLocked, OpenMergeGate,
     SettleRun, PostPending, RequestAnalysisRun, ApplySkip, Enter, Call, CallFails, Write, Fire, Decline, RecordSkip, Crash, LockExpires
<1>4. QED BY <1>1, <1>2, <1>3

\* A handler begins: a run's gate, its verdict, a webhook, a request, a skip.
Begins(p) ==
    /\ op[p] = Idle /\ op'[p].at = "waiting" /\ (\A q \in Op \ {p} : op'[q] = op[q]) /\ UNCHANGED <<row, rows, lock>>
    /\ \/ OpenMergeGate(p) /\ op'[p].kind = "open" /\ op'[p].head = run.head /\ op'[p].says = "in_progress"
       \/ SettleRun(p) /\ op'[p].kind = "conclude" /\ op'[p].head = run.head /\ op'[p].says \in Verdicts
       \/ /\ PostPending(p) /\ op'[p].kind = "pending" /\ op'[p].head \in Heads
          /\ op'[p].says = IF runs = "on push" THEN "in_progress" ELSE "neutral"
       \/ RequestAnalysisRun(p) /\ op'[p].kind = "request" /\ op'[p].head = head /\ op'[p].says = "in_progress"
       \/ /\ ApplySkip(p) /\ op'[p].kind = "skip" /\ op'[p].head = rows[Len(rows)] /\ op'[p].says = "neutral" /\ Len(rows) \in 1..Len(rows)
          /\ op'[p].head \in Heads /\ op'[p].check = row[op'[p].head].check

LEMMA HandlerBeginsAs ==
  ASSUME TypeOK, NEW p \in Op,
         OpenMergeGate(p) \/ SettleRun(p) \/ PostPending(p) \/ RequestAnalysisRun(p) \/ ApplySkip(p)
  PROVE  Begins(p)
<1>1. CASE OpenMergeGate(p)
  <2>1. op[p] = Idle /\ Becomes(p, "open", run.head, "waiting", "in_progress", 0)
    BY <1>1, BeginBecomes DEF OpenMergeGate
  <2>2. UNCHANGED <<row, rows, lock>>
    BY <1>1 DEF OpenMergeGate, OnlyRun
  <2>3. QED BY <1>1, <2>1, <2>2 DEF Begins, Becomes
<1>2. CASE SettleRun(p)
  <2>1. PICK says \in Verdicts : Begin(p, "conclude", run.head, says, 0)
    BY <1>2 DEF SettleRun
  <2>2. op[p] = Idle /\ Becomes(p, "conclude", run.head, "waiting", says, 0)
    BY <2>1, BeginBecomes
  <2>3. UNCHANGED <<row, rows, lock>>
    BY <1>2 DEF SettleRun, OnlyRun
  <2>4. QED BY <1>2, <2>2, <2>3 DEF Begins, Becomes
<1>3. CASE PostPending(p)
  <2>1. PICK h \in {head} \cup abandoned : Begin(p, "pending", h, IF runs = "on push" THEN "in_progress" ELSE "neutral", 0)
    BY <1>3 DEF PostPending
  <2>2. op[p] = Idle /\ Becomes(p, "pending", h, "waiting", IF runs = "on push" THEN "in_progress" ELSE "neutral", 0)
    BY <2>1, BeginBecomes
  <2>3. UNCHANGED <<row, rows, lock>> /\ h \in Heads
    BY <1>3, TypeParts DEF PostPending, OnlyOp, GitHubTyped, HistoryTyped
  <2>4. QED BY <1>3, <2>2, <2>3 DEF Begins, Becomes
<1>4. CASE RequestAnalysisRun(p)
  <2>1. op[p] = Idle /\ Becomes(p, "request", head, "waiting", "in_progress", 0)
    BY <1>4, BeginBecomes DEF RequestAnalysisRun
  <2>2. UNCHANGED <<row, rows, lock>>
    BY <1>4 DEF RequestAnalysisRun, OnlyOp
  <2>3. QED BY <1>4, <2>1, <2>2 DEF Begins, Becomes
<1>5. CASE ApplySkip(p)
  <2>1. Len(rows) \in 1..Len(rows) /\ rows[Len(rows)] \in Heads
    BY <1>5, ElementOfSeq, EmptySeq, LenProperties, TypeParts DEF ApplySkip, RowsTyped
  <2>2. op[p] = Idle /\ Becomes(p, "skip", rows[Len(rows)], "waiting", "neutral", row[rows[Len(rows)]].check)
    BY <1>5, BeginBecomes DEF ApplySkip
  <2>3. QED BY <1>5, <2>1, <2>2 DEF ApplySkip, OnlyOp, Begins, Becomes
<1>6. QED BY <1>1, <1>2, <1>3, <1>4, <1>5

\* Who does what at a step: nobody's handler moves, or one does.
LEMMA GateStep ==
  ASSUME TypeOK, [Next]_vars
  PROVE  \/ UNCHANGED op /\ (Push \/ StartRun \/ CancelRun \/ (\E p \in Op : LockExpires(p)) \/ UNCHANGED vars)
         \/ \E p \in Op : Begins(p) \/ Enter(p) \/ Call(p) \/ Write(p) \/ Fire(p) \/ Decline(p) \/ RecordSkip(p) \/ CallFails(p) \/ Crash(p)
  BY HandlerBeginsAs DEF Next, vars, Push, StartRun, CancelRun, LockExpires

-----------------------------------------------------------------------------
(* What a handler knows.                                                   *)

\* Whoever has a lock is at work under it.
LockInv == \A h \in Heads, p \in Op : lock[h] = p => op[p].head = h /\ op[p].at \notin {"idle", "waiting"}

\* A handler that has posted has a check; one that follows up its row has a row; and what each kind posts.
OpFacts ==
    \A p \in Op :
        /\ op[p].at = "writing" => op[p].check # 0
        /\ op[p].at \in {"firing", "recording"} => op[p].check # 0 /\ row[op[p].head].check # 0
        /\ op[p].kind = "skip" => op[p].check # 0 /\ row[op[p].head].check # 0
        /\ op[p].at = "firing" => op[p].kind = "request"
        /\ op[p].at = "recording" => op[p].kind = "skip"
        /\ op[p].kind = "open" => op[p].says = "in_progress"
        /\ op[p].kind = "skip" => op[p].says = "neutral"
        /\ op[p].kind = "request" => op[p].says \in {"in_progress", "neutral"}
        /\ op[p].kind = "conclude" => op[p].says \in Verdicts
        /\ op[p].kind = "pending" /\ runs # "on push" => op[p].says = "neutral"
        /\ op[p].kind = "pending" /\ op[p].at = "calling" => op[p].check = 0

\* Every row listed has its check.
ListedInv == \A i \in 1..Len(rows) : row[rows[i]].check # 0

LEMMA LockStep == TypeOK /\ LockInv /\ [Next]_vars => LockInv'
<1> SUFFICES ASSUME TypeOK, LockInv, [Next]_vars, NEW h \in Heads, NEW q \in Op, lock'[h] = q
             PROVE  op'[q].head = h /\ op'[q].at \notin {"idle", "waiting"}
  BY DEF LockInv
<1>0. OpsTyped
  BY TypeParts
<1>1. ASSUME NEW p \in Op, Unlock(p), Finishes(p) PROVE op'[q].head = h /\ op'[q].at \notin {"idle", "waiting"}
  BY <1>0, <1>1, MergeGateAssumption DEF Unlock, Finishes, LockInv, OpsTyped
<1>2. CASE UNCHANGED <<op, lock>>
  BY <1>2 DEF LockInv
<1>3. ASSUME NEW p \in Op, Begins(p) PROVE op'[q].head = h /\ op'[q].at \notin {"idle", "waiting"}
  <2>1. op[p] = Idle /\ (\A r \in Op \ {p} : op'[r] = op[r]) /\ lock' = lock
    BY <1>3 DEF Begins
  <2>2. QED BY <2>1 DEF LockInv, Idle
<1>4. ASSUME NEW p \in Op, Enter(p) PROVE op'[q].head = h /\ op'[q].at \notin {"idle", "waiting"}
  <2>1. op[p].at = "waiting" /\ op[p] \in OpRecords
    BY <1>4, AtWork DEF Enter
  <2>2. CASE Finishes(p) /\ UNCHANGED lock
    BY <2>1, <2>2 DEF Finishes, LockInv
  <2>3. CASE lock' = [lock EXCEPT ![op[p].head] = p] /\ op'[p].head = op[p].head /\ op'[p].at = "calling" /\ \A r \in Op \ {p} : op'[r] = op[r]
    BY <1>0, <2>1, <2>3 DEF OpsTyped, OpRecords, LockInv
  <2>4. QED BY <1>4, <2>2, <2>3, EnterBecomes DEF Becomes
<1>5. ASSUME NEW p \in Op, Call(p) \/ Decline(p) PROVE op'[q].head = h /\ op'[q].at \notin {"idle", "waiting"}
  BY <1>5, CallBecomes, DeclineBecomes DEF Call, Decline, Becomes, LockInv
<1>6. ASSUME NEW p \in Op, Write(p) PROVE op'[q].head = h /\ op'[q].at \notin {"idle", "waiting"}
  BY <1>1, <1>6, WriteBecomes DEF Becomes, LockInv
<1>7. ASSUME NEW p \in Op, Fire(p) \/ RecordSkip(p) \/ CallFails(p) \/ Crash(p) PROVE op'[q].head = h /\ op'[q].at \notin {"idle", "waiting"}
  BY <1>1, <1>7, DoneFinishes DEF Fire, RecordSkip, CallFails, Crash
<1>8. ASSUME NEW p \in Op, LockExpires(p) PROVE op'[q].head = h /\ op'[q].at \notin {"idle", "waiting"}
  BY <1>0, <1>8, MergeGateAssumption DEF LockExpires, Unlock, LockInv, OpsTyped
<1>9. QED
  BY <1>2, <1>3, <1>4, <1>5, <1>6, <1>7, <1>8, GateStep DEF Push, StartRun, CancelRun, OnlyRun, vars

LEMMA RowStays ==
  ASSUME TypeOK, OpFacts, [Next]_vars, NEW h \in Heads, row[h].check # 0
  PROVE  row'[h].check # 0
<1>1. ASSUME NEW p \in Op, Write(p) PROVE row'[h].check # 0
  <2>1. op[p].check # 0 /\ op[p] \in OpRecords
    BY <1>1, WriteRow DEF OpFacts, Write
  <2>2. QED BY <1>1, <2>1, WriteRow
<1>2. QED BY <1>1, RowKept

LEMMA ListedStep == TypeOK /\ OpFacts /\ ListedInv /\ [Next]_vars => ListedInv'
<1> SUFFICES ASSUME TypeOK, OpFacts, ListedInv, [Next]_vars, NEW i \in 1..Len(rows') PROVE row'[rows'[i]].check # 0
  BY DEF ListedInv
<1>0. RowsTyped
  BY TypeParts
<1>1. CASE rows' = rows
  BY <1>0, <1>1, RowStays, ElementOfSeq DEF ListedInv, RowsTyped
<1>2. ASSUME NEW p \in Op, Write(p), rows' = Append(rows, op[p].head) PROVE row'[rows'[i]].check # 0
  <2>0. op[p].check # 0
    BY <1>2 DEF OpFacts, Write
  <2>1. op[p].check # 0 /\ op[p] \in OpRecords /\ row'[op[p].head].check # 0
    BY <1>2, <2>0, WriteRow
  <2>2. (i \in 1..Len(rows) /\ rows'[i] = rows[i]) \/ rows'[i] = op[p].head
    BY <1>0, <1>2, <2>1 DEF RowsTyped, OpRecords
  <2>3. CASE i \in 1..Len(rows) /\ rows'[i] = rows[i]
    BY <1>0, <2>3, RowStays, ElementOfSeq DEF ListedInv, RowsTyped
  <2>4. QED BY <2>1, <2>2, <2>3
<1>3. QED BY <1>1, <1>2, RowKept DEF Write

LEMMA OpFactsStep == TypeOK /\ OpFacts /\ ListedInv /\ [Next]_vars => OpFacts'
<1> SUFFICES ASSUME TypeOK, OpFacts, ListedInv, [Next]_vars, NEW q \in Op
             PROVE  /\ op'[q].at = "writing" => op'[q].check # 0
                    /\ op'[q].at \in {"firing", "recording"} => op'[q].check # 0 /\ row'[op'[q].head].check # 0
                    /\ op'[q].kind = "skip" => op'[q].check # 0 /\ row'[op'[q].head].check # 0
                    /\ op'[q].at = "firing" => op'[q].kind = "request"
                    /\ op'[q].at = "recording" => op'[q].kind = "skip"
                    /\ op'[q].kind = "open" => op'[q].says = "in_progress"
                    /\ op'[q].kind = "skip" => op'[q].says = "neutral"
                    /\ op'[q].kind = "request" => op'[q].says \in {"in_progress", "neutral"}
                    /\ op'[q].kind = "conclude" => op'[q].says \in Verdicts
                    /\ op'[q].kind = "pending" /\ runs' # "on push" => op'[q].says = "neutral"
                    /\ op'[q].kind = "pending" /\ op'[q].at = "calling" => op'[q].check = 0
  BY DEF OpFacts
<1>0. runs' = runs
  BY DEF Next, vars, Push, StartRun, CancelRun, OnlyRun, OnlyOp, OnlyLocked, Fault, OpenMergeGate, SettleRun,
     PostPending, RequestAnalysisRun, ApplySkip, Enter, Call, CallFails, Write, Fire, Decline, RecordSkip, Crash, LockExpires
<1>1. op[q] = Idle \/ op[q].head \in Heads
  BY TypeParts DEF OpsTyped, OpRecords
<1>20. row[op[q].head].check # 0 /\ op[q] # Idle => row'[op[q].head].check # 0
  BY <1>1, RowStays
<1>21. Idle.at = "idle" /\ Idle.kind = "pending" /\ Idle.says = "neutral"
  BY DEF Idle
<1>2. CASE op'[q] = op[q]
  BY <1>0, <1>2, <1>20, <1>21 DEF OpFacts
<1>3. CASE op'[q] = Idle
  BY <1>3 DEF Idle
<1>4. CASE Begins(q)
  BY <1>0, <1>4 DEF Begins, ListedInv
<1>5. ASSUME Enter(q), op'[q] # Idle PROVE op'[q].kind = op[q].kind /\ op'[q].says = op[q].says /\ op'[q].head = op[q].head
                                 /\ op'[q].at = "calling" /\ op[q].at = "waiting" /\ (op[q].kind = "skip" => op'[q].check = op[q].check)
                                 /\ (op[q].kind = "pending" => op'[q].check = 0)
  BY <1>5, EnterBecomes DEF Becomes, Acts, Finishes, Enter
<1>6. CASE Enter(q)
  BY <1>0, <1>1, <1>3, <1>5, <1>6, RowStays DEF OpFacts, Enter, Idle
<1>7. CASE Call(q)
  <2>1. op[q] \in OpRecords /\ op[q].at = "calling" /\ (op[q].check = 0 => Len(checks'[op[q].head]) = Len(checks[op[q].head]) + 1)
    BY <1>7, AtWork, PostedChecks DEF Call
  <2>2. Len(checks[op[q].head]) \in Nat
    BY <2>1, TypeParts, LenProperties DEF GitHubTyped, OpRecords
  <2>3. op'[q].kind = op[q].kind /\ op'[q].head = op[q].head /\ op'[q].at = "writing" /\ op'[q].says = op[q].says
    BY <1>7, CallBecomes DEF Becomes
  <2>4. op'[q].check # 0
    BY <1>7, <2>1, <2>2, CallBecomes DEF Becomes
  <2>5. QED BY <1>0, <1>20, <1>21, <2>1, <2>3, <2>4 DEF OpFacts
<1>8. CASE Decline(q)
  BY <1>0, <1>1, <1>8, DeclineBecomes, RowStays DEF Becomes, OpFacts, Decline, Idle
<1>9. CASE Write(q)
  <2>1. op[q].check # 0
    BY <1>9 DEF OpFacts, Write
  <2>10. row'[op[q].head].check # 0
    BY <1>9, <2>1, WriteRow
  <2>2. op'[q] = Idle \/ Becomes(q, "request", op[q].head, "firing", "in_progress", op[q].check)
                      \/ (op[q].kind = "skip" /\ Becomes(q, "skip", op[q].head, "recording", op[q].says, op[q].check))
    BY <1>9, WriteBecomes DEF Finishes
  <2>3. QED BY <1>3, <1>9, <2>1, <2>10, <2>2 DEF Becomes, OpFacts, Write
<1>10. QED
  <2>1. ASSUME NEW p \in Op, p # q, Begins(p) \/ Enter(p) \/ Call(p) \/ Write(p) \/ Fire(p) \/ Decline(p) \/ RecordSkip(p) \/ CallFails(p) \/ Crash(p)
        PROVE op'[q] = op[q]
    BY <2>1, EnterBecomes, CallBecomes, WriteBecomes, DeclineBecomes, DoneFinishes
    DEF Begins, Becomes, Finishes, Fire, RecordSkip, CallFails, Crash
  <2>2. ASSUME Fire(q) \/ RecordSkip(q) \/ CallFails(q) \/ Crash(q) PROVE op'[q] = Idle
    BY <2>2, DoneFinishes DEF Finishes, Fire, RecordSkip, CallFails, Crash
  <2>3. QED BY <1>2, <1>3, <1>4, <1>6, <1>7, <1>8, <1>9, <2>1, <2>2, GateStep

-----------------------------------------------------------------------------
(* A check in progress has a run behind it.                                *)

\* The run is on the head there is, or on an abandoned one; so is a request, and so is a gate being opened on the run's head.
RunInv ==
    /\ run.head \in {None, head} \cup abandoned
    /\ \A p \in Op :
        /\ op[p].kind = "request" => op[p].head \in {head} \cup abandoned
        /\ op[p].kind = "open" => run.head = op[p].head \/ op[p].head \in abandoned

\* InProgressHasRun, whoever has the lock: and what is on its way is a request or a verdict.
HasRun(h) == run.head = h \/ \E p \in Op : op[p].head = h /\ op[p].kind \in {"request", "conclude"}
InProgress(h) == row[h].check # 0 /\ row[h].conclusion = "in_progress"
OnlyAsked == runs # "on push"
ProgressInv == \A h \in Heads \ abandoned : OnlyAsked /\ faults[h] = 0 /\ InProgress(h) => HasRun(h)

\* The run stays, is displaced by one on the head there is, cancelled or settled.
LEMMA RunStep ==
  ASSUME TypeOK, [Next]_vars
  PROVE  /\ abandoned \subseteq abandoned' /\ runs' = runs
         /\ head' = head \/ (UNCHANGED <<run, op, row>> /\ head \in abandoned')
         /\ \/ run'.head = run.head
            \/ run'.head = head /\ UNCHANGED head
            \/ run.head \in abandoned' /\ run'.head = None /\ UNCHANGED op
            \/ \E p \in Op : SettleRun(p) /\ Begins(p) /\ op'[p].kind = "conclude" /\ op'[p].head = run.head /\ run'.head = None
<1>1. abandoned \subseteq abandoned' /\ runs' = runs
  BY DEF Next, vars, history, Push, StartRun, CancelRun, OnlyRun, OnlyOp, OnlyLocked, Fault, OpenMergeGate, SettleRun,
     PostPending, RequestAnalysisRun, ApplySkip, Enter, Call, CallFails, Write, Fire, Decline, RecordSkip, Crash, LockExpires
<1>2. head' = head \/ (UNCHANGED <<run, op, row>> /\ head \in abandoned')
  BY DEF Next, vars, Push, StartRun, CancelRun, OnlyRun, OnlyOp, OnlyLocked, Fault, OpenMergeGate, SettleRun,
     PostPending, RequestAnalysisRun, ApplySkip, Enter, Call, CallFails, Write, Fire, Decline, RecordSkip, Crash, LockExpires
<1>3. CASE UNCHANGED run
  BY <1>1, <1>2, <1>3
<1>4. CASE StartRun
  BY <1>1, <1>2, <1>4 DEF StartRun, On
<1>5. CASE CancelRun
  BY <1>1, <1>2, <1>5 DEF CancelRun, On
<1>6. ASSUME NEW p \in Op, OpenMergeGate(p) PROVE run'.head = run.head
  BY <1>6, TypeParts DEF OpenMergeGate, RunTyped
<1>7. ASSUME NEW p \in Op, SettleRun(p) PROVE Begins(p) /\ op'[p].kind = "conclude" /\ op'[p].head = run.head /\ run'.head = None
  <2>1. PICK says \in Verdicts : Begin(p, "conclude", run.head, says, 0)
    BY <1>7 DEF SettleRun
  <2>2. QED BY <1>7, <2>1, BeginBecomes, HandlerBeginsAs DEF Becomes, SettleRun, On
<1>8. ASSUME NEW p \in Op, Fire(p) \/ Decline(p) PROVE run'.head \in {run.head, head} /\ UNCHANGED head
  BY <1>8 DEF Fire, Decline, On, OnlyLocked
<1>9. QED
  BY <1>1, <1>2, <1>3, <1>4, <1>5, <1>6, <1>7, <1>8
  DEF Next, vars, Push, OnlyRun, OnlyOp, OnlyLocked, Fault, PostPending, RequestAnalysisRun, ApplySkip, Enter, Call, CallFails, Write,
      RecordSkip, Crash, LockExpires

\* A handler keeps its kind and its head until it is done.
LEMMA HandlerKeeps ==
  ASSUME TypeOK, OpFacts, [Next]_vars, NEW q \in Op
  PROVE  \/ op'[q].kind = op[q].kind /\ op'[q].head = op[q].head
         \/ Begins(q)
         \/ op'[q] = Idle /\ (op[q].kind \in {"pending", "open"} \/ Write(q) \/ Fire(q) \/ RecordSkip(q) \/ CallFails(q) \/ Crash(q))
<1>1. ASSUME NEW p \in Op, p # q, Begins(p) \/ Enter(p) \/ Call(p) \/ Write(p) \/ Fire(p) \/ Decline(p) \/ RecordSkip(p) \/ CallFails(p) \/ Crash(p)
      PROVE op'[q] = op[q]
  BY <1>1, EnterBecomes, CallBecomes, WriteBecomes, DeclineBecomes, DoneFinishes
  DEF Begins, Becomes, Finishes, Fire, RecordSkip, CallFails, Crash
<1>2. ASSUME Fire(q) \/ RecordSkip(q) \/ CallFails(q) \/ Crash(q) PROVE op'[q] = Idle
  BY <1>2, DoneFinishes DEF Finishes, Fire, RecordSkip, CallFails, Crash
<1>3. ASSUME Enter(q) PROVE (op'[q].kind = op[q].kind /\ op'[q].head = op[q].head) \/ (op'[q] = Idle /\ op[q].kind \in {"pending", "open"})
  <2>1. CASE Acts(op[q])
    <3>1. Enter(q) /\ op[q].at = "waiting" /\ op' = [op EXCEPT ![q].at = "calling", ![q].check = IF op[q].kind = "skip" THEN @ ELSE row[op[q].head].check]
      BY <1>3, <2>1 DEF Enter
    <3>2. QED BY <3>1, AtWork, TypeParts DEF OpRecords, OpsTyped
  <2>2. CASE ~Acts(op[q])
    BY <1>3, <2>2, DoneFinishes DEF Enter, Acts, Finishes
  <2>3. QED BY <2>1, <2>2
<1>4. ASSUME Call(q) \/ Decline(q) PROVE op'[q].kind = op[q].kind /\ op'[q].head = op[q].head
  BY <1>4, CallBecomes, DeclineBecomes DEF Becomes
<1>5. ASSUME Write(q) PROVE (op'[q].kind = op[q].kind /\ op'[q].head = op[q].head) \/ op'[q] = Idle
  BY <1>5, WriteBecomes DEF Becomes, Finishes
<1>6. QED BY <1>1, <1>2, <1>3, <1>4, <1>5, GateStep

LEMMA RunInvStep == TypeOK /\ OpFacts /\ RunInv /\ [Next]_vars => RunInv'
<1> SUFFICES ASSUME TypeOK, OpFacts, RunInv, [Next]_vars PROVE RunInv'
  OBVIOUS
<1>1. run'.head \in {None, head'} \cup abandoned'
  BY RunStep DEF RunInv
<1>2. ASSUME NEW q \in Op, op'[q].kind = "request" PROVE op'[q].head \in {head'} \cup abandoned'
  <2>1. CASE op'[q].kind = op[q].kind /\ op'[q].head = op[q].head
    BY <1>2, <2>1, RunStep DEF RunInv
  <2>2. CASE Begins(q)
    BY <1>2, <2>2 DEF Begins, RequestAnalysisRun, OnlyOp
  <2>3. CASE op'[q] = Idle
    BY <1>2, <2>3 DEF Idle
  <2>4. QED BY <2>1, <2>2, <2>3, HandlerKeeps
<1>3. ASSUME NEW q \in Op, op'[q].kind = "open" PROVE run'.head = op'[q].head \/ op'[q].head \in abandoned'
  <2>1. CASE op'[q].kind = op[q].kind /\ op'[q].head = op[q].head
    <3>1. CASE op[q].head \in abandoned
      BY <2>1, <3>1, RunStep
    <3>2. CASE run.head = op[q].head /\ op[q].head \notin abandoned
      <4>1. run.head = head
        BY <1>3, <2>1, <3>2, TypeParts, MergeGateAssumption DEF RunInv, OpsTyped, OpRecords, Idle
      <4>2. ASSUME NEW p \in Op, SettleRun(p) PROVE FALSE
        BY <1>3, <2>1, <3>2, <4>2 DEF SettleRun
      <4>3. QED BY <2>1, <3>2, <4>1, <4>2, RunStep
    <3>3. QED BY <1>3, <2>1, <3>1, <3>2 DEF RunInv
  <2>2. CASE Begins(q)
    <3>1. OpenMergeGate(q) /\ op'[q].head = run.head
      BY <1>3, <2>2 DEF Begins
    <3>2. run'.head = run.head
      BY <3>1, TypeParts DEF OpenMergeGate, RunTyped
    <3>3. QED BY <3>1, <3>2
  <2>3. CASE op'[q] = Idle
    BY <1>3, <2>3 DEF Idle
  <2>4. QED BY <2>1, <2>2, <2>3, HandlerKeeps
<1>4. QED BY <1>1, <1>2, <1>3 DEF RunInv

LEMMA ProgressStep == TypeOK /\ OpFacts /\ RunInv /\ ProgressInv /\ [Next]_vars => ProgressInv'
<1> SUFFICES ASSUME TypeOK, OpFacts, RunInv, ProgressInv, [Next]_vars, NEW h \in Heads, h \notin abandoned',
                    OnlyAsked', faults'[h] = 0, InProgress(h)'
             PROVE  HasRun(h)'
  BY DEF ProgressInv
<1>0. h \in Heads \ abandoned /\ OnlyAsked /\ faults[h] = 0
  <2>1. h \in Heads \ abandoned /\ OnlyAsked
    BY RunStep DEF OnlyAsked
  <2>2. faults[h] \in Nat /\ faults[h] <= faults'[h]
    BY <2>1, FaultsGrow
  <2>3. QED BY <2>1, <2>2
<1>1. ASSUME NEW p \in Op, Write(p), op[p].head = h PROVE HasRun(h)'
  <2>1. op[p].says = "in_progress"
    BY <1>1, WriteRow DEF InProgress
  <2>2. op[p].kind \in {"open", "request"}
    BY <1>0, <1>1, <2>1, WriteRow, MergeGateAssumption DEF OpFacts, OpRecords, Kind, OnlyAsked
  <2>3. CASE op[p].kind = "open"
    BY <1>0, <1>1, <2>3 DEF RunInv, HasRun, Write
  <2>4. CASE op[p].kind = "request"
    BY <1>1, <2>1, <2>4, WriteBecomes DEF Becomes, HasRun
  <2>5. QED BY <2>2, <2>3, <2>4
<1>2. CASE ~\E p \in Op : Write(p) /\ op[p].head = h
  <2>1. row'[h] = row[h]
    BY <1>2, RowKept, WriteRow
  <2>2. HasRun(h)
    BY <1>0, <2>1 DEF ProgressInv, InProgress
  <2>3. CASE run.head = h
    <3>1. h = head
      BY <1>0, <2>3, MergeGateAssumption DEF RunInv
    <3>2. QED BY <2>3, <3>1, RunStep DEF HasRun
  <2>4. ASSUME NEW p \in Op, op[p].head = h, op[p].kind \in {"request", "conclude"} PROVE HasRun(h)'
    <3>1. CASE op'[p].kind = op[p].kind /\ op'[p].head = op[p].head
      BY <2>4, <3>1 DEF HasRun
    <3>2. CASE Begins(p)
      <4>1. op[p] = Idle
        BY <3>2 DEF Begins
      <4>2. QED BY <2>4, <4>1 DEF Idle
    <3>3. CASE Fire(p)
      <4>1. h = head
        BY <1>0, <2>4, <3>3 DEF RunInv, OpFacts, Fire
      <4>2. run'.head = head
        <5>1. run' = On(head) \/ (run.head = head /\ run' = run)
          BY <3>3 DEF Fire
        <5>2. On(head).head = head
          BY DEF On
        <5>3. QED BY <5>1, <5>2
      <4>3. QED BY <4>1, <4>2 DEF HasRun
    <3>4. ~RecordSkip(p)
      BY <2>4 DEF RecordSkip, OpFacts
    <3>5. ASSUME CallFails(p) \/ Crash(p) PROVE FALSE
      <4>1. Fault(h)
        BY <2>4, <3>5 DEF CallFails, Crash
      <4>2. faults'[h] = faults[h] + 1 /\ faults[h] \in Nat
        BY <1>0, <4>1, FaultCounted, FaultsGrow
      <4>3. QED BY <4>2
    <3>6. QED BY <1>2, <2>4, <3>1, <3>2, <3>3, <3>4, <3>5, HandlerKeeps
  <2>5. QED BY <2>2, <2>3, <2>4 DEF HasRun
<1>3. QED BY <1>1, <1>2

-----------------------------------------------------------------------------
(* Where a head met no fault: its row tells its check, and a block stands. *)

\* A step that is not about a head.
Elsewhere(h) ==
    /\ row'[h] = row[h] /\ checks'[h] = checks[h] /\ lock'[h] = lock[h] /\ verdict'[h] = verdict[h]
    /\ h \in skipped => h \in skipped'
    /\ \A q \in Op : op'[q] = op[q] \/ (op[q].head # h /\ op'[q].head # h)

\* A step of a handler of the head.
StepOn(p, h) ==
    \/ Begins(p) /\ op'[p].head = h
    \/ op[p].head = h /\ (Enter(p) \/ Call(p) \/ Write(p) \/ Fire(p) \/ Decline(p) \/ RecordSkip(p))

LEMMA UnlockElsewhere ==
  ASSUME TypeOK, LockInv, NEW p \in Op, NEW h \in Heads, Unlock(p), op[p].head # h
  PROVE  lock'[h] = lock[h]
  BY TypeParts DEF Unlock, LockInv, OpsTyped

LEMMA StepsOfHandlers ==
  ASSUME TypeOK, [Next]_vars, NEW p \in Op,
         Begins(p) \/ Enter(p) \/ Call(p) \/ Write(p) \/ Fire(p) \/ Decline(p) \/ RecordSkip(p) \/ CallFails(p) \/ Crash(p)
  PROVE  /\ \A q \in Op \ {p} : op'[q] = op[q]
         /\ Begins(p) \/ op'[p] = Idle \/ op'[p].head = op[p].head
<1>1. CASE Begins(p)
  BY <1>1 DEF Begins
<1>2. CASE Enter(p)
  BY <1>2, EnterBecomes DEF Becomes, Finishes
<1>3. CASE Call(p) \/ Decline(p)
  BY <1>3, CallBecomes, DeclineBecomes DEF Becomes
<1>4. CASE Write(p)
  BY <1>4, WriteBecomes DEF Becomes, Finishes
<1>5. CASE Fire(p) \/ RecordSkip(p) \/ CallFails(p) \/ Crash(p)
  BY <1>5, DoneFinishes DEF Finishes, Fire, RecordSkip, CallFails, Crash
<1>6. QED BY <1>1, <1>2, <1>3, <1>4, <1>5

LEMMA StepElsewhere ==
  ASSUME TypeOK, LockInv, [Next]_vars, NEW h \in Heads, NEW p \in Op, op[p].head # h, op'[p].head # h,
         Begins(p) \/ Enter(p) \/ Call(p) \/ Write(p) \/ Fire(p) \/ Decline(p) \/ RecordSkip(p) \/ CallFails(p) \/ Crash(p)
  PROVE  Elsewhere(h)
<1>1. \A q \in Op : op'[q] = op[q] \/ (op[q].head # h /\ op'[q].head # h)
  BY StepsOfHandlers
<1>2. row'[h] = row[h]
  <2>1. CASE Write(p)
    BY <2>1, WriteRow
  <2>2. QED BY <2>1 DEF Begins, Enter, Call, Fire, Decline, RecordSkip, CallFails, Crash, Fault
<1>3. checks'[h] = checks[h] /\ verdict'[h] = verdict[h]
  <2>1. CASE Posted(op[p]) /\ op[p].at = "calling"
    <3>1. op[p] \in OpRecords
      BY <2>1, AtWork
    <3>2. checks'[h] = checks[h]
      BY <2>1, <3>1, PostedChecks
    <3>3. verdict'[h] = verdict[h]
      BY <2>1, <3>1, PostedVerdict
    <3>4. QED BY <3>2, <3>3
  <2>2. QED
    BY <2>1 DEF Begins, OpenMergeGate, SettleRun, PostPending, RequestAnalysisRun, ApplySkip, OnlyRun, OnlyOp, history,
       Enter, Call, Write, Fire, Decline, RecordSkip, CallFails, Crash
<1>4. lock'[h] = lock[h]
  <2>1. CASE Unlock(p)
    BY <2>1, UnlockElsewhere
  <2>2. CASE Enter(p)
    BY <2>2, EnterBecomes, TypeParts DEF OpsTyped
  <2>3. QED BY <2>1, <2>2, WriteBecomes DEF Begins, Call, Fire, Decline, RecordSkip, CallFails, Crash
<1>5. h \in skipped => h \in skipped'
  BY DEF Begins, OpenMergeGate, SettleRun, PostPending, RequestAnalysisRun, ApplySkip, OnlyRun, OnlyOp,
       Enter, Call, Write, Fire, Decline, RecordSkip, CallFails, Crash, Fault
<1>6. QED BY <1>1, <1>2, <1>3, <1>4, <1>5 DEF Elsewhere

LEMMA HeadStep ==
  ASSUME TypeOK, LockInv, [Next]_vars, NEW h \in Heads, faults'[h] = 0
  PROVE  Elsewhere(h) \/ \E p \in Op : StepOn(p, h)
<1>0. ASSUME Fault(h) PROVE FALSE
  <2>1. faults'[h] = faults[h] + 1 /\ faults[h] \in Nat
    BY <1>0, FaultCounted, TypeParts DEF HistoryTyped
  <2>2. QED BY <2>1
<1>1. CASE UNCHANGED <<op, row, checks, lock, verdict, skipped>>
  BY <1>1 DEF Elsewhere
<1>2. ASSUME NEW p \in Op, LockExpires(p) PROVE Elsewhere(h)
  <2>1. PICK g \in Heads : lock[g] = p /\ Fault(g)
    BY <1>2 DEF LockExpires
  <2>2. g # h
    BY <1>0, <2>1
  <2>3. op[p].head # h
    BY <2>1, <2>2 DEF LockInv
  <2>4. lock'[h] = lock[h]
    BY <1>2, <2>3, UnlockElsewhere DEF LockExpires
  <2>5. QED BY <1>2, <2>1, <2>4 DEF LockExpires, Fault, Elsewhere
<1>3. ASSUME NEW p \in Op,
             Begins(p) \/ Enter(p) \/ Call(p) \/ Write(p) \/ Fire(p) \/ Decline(p) \/ RecordSkip(p) \/ CallFails(p) \/ Crash(p)
      PROVE Elsewhere(h) \/ StepOn(p, h)
  <2>1. CASE op[p].head = h
    <3>1. op[p] # Idle
      BY <2>1, MergeGateAssumption DEF Idle
    <3>2. ~Begins(p)
      BY <3>1 DEF Begins
    <3>3. ~CallFails(p) /\ ~Crash(p)
      BY <1>0, <2>1 DEF CallFails, Crash
    <3>4. QED BY <1>3, <2>1, <3>2, <3>3 DEF StepOn
  <2>2. CASE op[p].head # h /\ op'[p].head = h
    <3>1. Idle.head # h
      BY MergeGateAssumption DEF Idle
    <3>2. Begins(p)
      BY <1>3, <2>2, <3>1, StepsOfHandlers
    <3>3. QED BY <2>2, <3>2 DEF StepOn
  <2>3. CASE op[p].head # h /\ op'[p].head # h
    BY <1>3, <2>3, StepElsewhere
  <2>4. QED BY <2>1, <2>2, <2>3
<1>4. QED BY <1>1, <1>2, <1>3, GateStep DEF Push, StartRun, CancelRun, OnlyRun, vars, history

Busy(p, h) == op[p].head = h /\ op[p].at # "waiting"

\* Between handlers the row of a head agrees with its check; a handler that has posted and not yet written is in between.
Agree(h) == IF row[h].check = 0 THEN checks[h] = <<>> ELSE checks[h] = <<row[h].conclusion>>
Sync(h) ==
    /\ row[h].check \in {0, 1}
    /\ \A p \in Op : Busy(p, h) => lock[h] = p
    /\ \A p \in Op : op[p].head = h /\ op[p].at \in {"calling", "firing", "recording"} => op[p].check = row[h].check
    /\ \A p \in Op : op[p].head = h /\ op[p].kind = "skip" => op[p].check = row[h].check
    /\ \A p \in Op : op[p].head = h /\ op[p].at = "writing" => op[p].check = 1 /\ checks[h] = <<op[p].says>>
    /\ (\A p \in Op : op[p].head = h => op[p].at # "writing") => Agree(h)
SyncInv == \A h \in Heads : faults[h] = 0 => Sync(h)

LEMMA SyncElsewhere == ASSUME NEW h \in Heads, Sync(h), Elsewhere(h) PROVE Sync(h)'
<1>1. \A q \in Op : op'[q].head = h => op'[q] = op[q]
  BY DEF Elsewhere
<1>2. row'[h] = row[h] /\ checks'[h] = checks[h] /\ lock'[h] = lock[h]
  BY DEF Elsewhere
<1>3. \A q \in Op : op[q].head = h => op'[q] = op[q]
  BY DEF Elsewhere
<1>4. QED BY <1>1, <1>2, <1>3 DEF Sync, Busy, Agree

LEMMA SyncStep == TypeOK /\ LockInv /\ OpFacts /\ SyncInv /\ [Next]_vars => SyncInv'
<1> SUFFICES ASSUME TypeOK, LockInv, OpFacts, SyncInv, [Next]_vars, NEW h \in Heads, faults'[h] = 0
             PROVE  Sync(h)'
  BY DEF SyncInv
<1>0. faults[h] = 0
  <2>1. faults[h] \in Nat /\ faults[h] <= faults'[h]
    BY FaultsGrow
  <2>2. QED BY <2>1
<1>1. Sync(h)
  BY <1>0 DEF SyncInv
<1>2. ASSUME NEW p \in Op, StepOn(p, h) PROVE Sync(h)'
  <2>0. (\A q \in Op \ {p} : op'[q] = op[q]) /\ (Begins(p) \/ op'[p] = Idle \/ op'[p].head = h)
    BY <1>2, StepsOfHandlers DEF StepOn
  <2>00. Idle.head # h
    BY MergeGateAssumption DEF Idle
  <2>1. CASE Begins(p) /\ op'[p].head = h
    <3>1. op[p] = Idle /\ op'[p].at = "waiting" /\ row' = row /\ lock' = lock /\ (op'[p].kind = "skip" => op'[p].check = row[h].check)
      BY <2>1 DEF Begins
    <3>2. checks' = checks
      BY <2>1 DEF Begins, OpenMergeGate, SettleRun, PostPending, RequestAnalysisRun, ApplySkip, OnlyRun, OnlyOp
    <3>3. QED BY <1>1, <2>0, <2>00, <3>1, <3>2 DEF Sync, Busy, Agree
  <2>2. CASE op[p].head = h /\ Enter(p)
    <3>1. lock[h] = None /\ op[p].at = "waiting" /\ row' = row /\ checks' = checks
      BY <2>2 DEF Enter
    <3>2. \A q \in Op : ~Busy(q, h)
      BY <1>1, <3>1, MergeGateAssumption DEF Sync
    <3>3. Agree(h)
      BY <1>1, <3>2 DEF Sync, Busy
    <3>4. CASE op'[p] = Idle /\ lock' = lock
      BY <1>1, <2>0, <2>00, <3>1, <3>2, <3>3, <3>4 DEF Sync, Busy, Agree
    <3>5. CASE lock' = [lock EXCEPT ![h] = p] /\ op'[p].kind = op[p].kind /\ op'[p].head = h /\ op'[p].at = "calling"
               /\ op'[p].check = IF op[p].kind = "skip" THEN op[p].check ELSE row[h].check
      <4>1. lock'[h] = p
        BY <3>5, TypeParts DEF OpsTyped
      <4>2. QED BY <1>1, <2>0, <2>2, <3>1, <3>2, <3>3, <3>5, <4>1 DEF Sync, Busy, Agree
    <3>6. QED BY <2>2, <3>4, <3>5, EnterBecomes DEF Becomes, Finishes
  <2>3. CASE op[p].head = h /\ Call(p)
    <3>1. op[p].at = "calling" /\ op[p] \in OpRecords /\ row' = row /\ lock' = lock
      BY <2>3, AtWork DEF Call
    <3>2. lock[h] = p /\ op[p].check = row[h].check
      BY <1>1, <2>3, <3>1 DEF Sync, Busy
    <3>3. Agree(h)
      BY <1>1, <3>1, <3>2 DEF Sync, Busy
    <3>4. checks'[h] = <<op[p].says>> /\ (op[p].check = 0 => Len(checks'[h]) = 1)
      <4>1. CASE op[p].check = 0
        <5>1. checks[h] = <<>>
          BY <3>2, <3>3, <4>1 DEF Agree
        <5>2. checks'[h] = Append(checks[h], op[p].says)
          BY <2>3, <3>1, <4>1, PostedChecks DEF Call
        <5>3. QED BY <5>1, <5>2, OneCheck
      <4>2. CASE op[p].check # 0
        <5>1. op[p].check = 1 /\ checks[h] = <<row[h].conclusion>>
          BY <1>1, <3>2, <3>3, <4>2 DEF Sync, Agree
        <5>2. checks'[h] = [<<row[h].conclusion>> EXCEPT ![1] = op[p].says]
          BY <2>3, <3>1, <4>2, <5>1, PostedChecks DEF Call
        <5>3. QED BY <4>2, <5>2, OneCheck
      <4>3. QED BY <4>1, <4>2
    <3>5. op'[p].kind = op[p].kind /\ op'[p].head = h /\ op'[p].at = "writing" /\ op'[p].says = op[p].says
          /\ op'[p].check = IF op[p].check = 0 THEN Len(checks'[h]) ELSE op[p].check
      BY <2>3, CallBecomes DEF Becomes
    <3>6. op'[p].check = 1
      BY <1>1, <3>2, <3>4, <3>5 DEF Sync
    <3>7. \A q \in Op \ {p} : ~Busy(q, h) /\ op'[q] = op[q]
      BY <1>1, <2>0, <3>2 DEF Sync
    <3>8. op'[p].kind = "skip" => op'[p].check = row'[h].check
      BY <1>1, <2>3, <3>1, <3>2, <3>5, <3>6 DEF OpFacts, Sync
    <3>9. QED BY <1>1, <3>1, <3>2, <3>4, <3>5, <3>6, <3>7, <3>8 DEF Sync, Busy
  <2>4. CASE op[p].head = h /\ Write(p)
    <3>1. op[p].at = "writing" /\ checks' = checks /\ op[p].check = 1 /\ checks[h] = <<op[p].says>> /\ lock[h] = p
      BY <1>1, <2>4 DEF Write, Sync, Busy
    <3>2. row'[h].check = 1 /\ row'[h].conclusion = op[p].says
      BY <1>1, <2>4, <3>1, WriteRow DEF Sync
    <3>3. \A q \in Op \ {p} : ~Busy(q, h) /\ op'[q] = op[q]
      BY <1>1, <2>0, <3>1 DEF Sync
    <3>4. \A q \in Op : op[q].head = h /\ op[q].kind = "skip" => op[q].check = 1
      BY <1>1 DEF Sync, OpFacts
    <3>5. op'[p] = Idle \/ (op'[p].kind = op[p].kind /\ op'[p].head = h /\ op'[p].at \in {"firing", "recording"} /\ op'[p].check = 1 /\ lock' = lock)
      BY <2>4, <3>1, WriteBecomes DEF Becomes, Finishes
    <3>6. QED BY <2>00, <3>1, <3>2, <3>3, <3>4, <3>5 DEF Sync, Busy, Agree
  <2>5. CASE op[p].head = h /\ (Fire(p) \/ RecordSkip(p))
    <3>1. op[p].at \in {"firing", "recording"} /\ row' = row /\ checks' = checks
      BY <2>5 DEF Fire, RecordSkip
    <3>2. lock[h] = p
      BY <1>1, <2>5, <3>1 DEF Sync, Busy
    <3>3. \A q \in Op \ {p} : ~Busy(q, h) /\ op'[q] = op[q]
      BY <1>1, <2>0, <3>2 DEF Sync
    <3>4. op'[p] = Idle
      BY <2>5, DoneFinishes DEF Fire, RecordSkip, Finishes
    <3>5. Agree(h)
      BY <1>1, <3>1, <3>3 DEF Sync, Busy
    <3>6. QED BY <1>1, <2>00, <3>1, <3>3, <3>4, <3>5 DEF Sync, Busy, Agree
  <2>6. CASE op[p].head = h /\ Decline(p)
    <3>1. op[p].at = "firing" /\ row' = row /\ checks' = checks /\ lock' = lock
      BY <2>6 DEF Decline
    <3>2. lock[h] = p /\ op[p].check = row[h].check
      BY <1>1, <2>6, <3>1 DEF Sync, Busy
    <3>3. \A q \in Op \ {p} : ~Busy(q, h) /\ op'[q] = op[q]
      BY <1>1, <2>0, <3>2 DEF Sync
    <3>4. op'[p].kind = op[p].kind /\ op'[p].head = h /\ op'[p].at = "calling" /\ op'[p].check = op[p].check
      BY <2>6, DeclineBecomes DEF Becomes
    <3>5. Agree(h)
      BY <1>1, <3>1, <3>3 DEF Sync, Busy
    <3>6. QED BY <1>1, <3>1, <3>2, <3>3, <3>4, <3>5 DEF Sync, Busy, Agree
  <2>7. QED BY <1>2, <2>1, <2>2, <2>3, <2>4, <2>5, <2>6 DEF StepOn
<1>3. QED BY <1>1, <1>2, HeadStep, SyncElsewhere

\* A verdict that blocks is shown, or a skip of it is about to be recorded.
Failing(h) == \E c \in {"failure", "in_progress"} : checks[h] = <<c>>
Skipping(p, h) == op[p].head = h /\ op[p].kind = "skip" /\ op[p].at \in {"writing", "recording"}
Blocked(h) ==
    /\ verdict[h] # "none" => checks[h] # <<>>
    /\ verdict[h] = "blocks" => h \in skipped \/ Failing(h) \/ \E p \in Op : Skipping(p, h)
BlockInv == \A h \in Heads : faults[h] = 0 => Blocked(h)

LEMMA BlockStep == TypeOK /\ LockInv /\ OpFacts /\ SyncInv /\ SyncInv' /\ BlockInv /\ [Next]_vars => BlockInv'
<1> SUFFICES ASSUME TypeOK, LockInv, OpFacts, SyncInv, SyncInv', BlockInv, [Next]_vars, NEW h \in Heads, faults'[h] = 0
             PROVE  Blocked(h)'
  BY DEF BlockInv
<1>0. faults[h] = 0
  <2>1. faults[h] \in Nat /\ faults[h] <= faults'[h]
    BY FaultsGrow
  <2>2. QED BY <2>1
<1>1. Sync(h) /\ Sync(h)' /\ Blocked(h)
  BY <1>0 DEF SyncInv, BlockInv
<1>2. CASE Elsewhere(h)
  BY <1>1, <1>2 DEF Elsewhere, Blocked, Failing, Skipping
<1>3. ASSUME NEW p \in Op, StepOn(p, h) PROVE Blocked(h)'
  <2>0. \A q \in Op \ {p} : op'[q] = op[q]
    BY <1>3, StepsOfHandlers DEF StepOn
  <2>1. CASE op[p].head = h /\ Call(p)
    <3>1. op[p].at = "calling" /\ op[p] \in OpRecords /\ skipped' = skipped
      BY <2>1, AtWork DEF Call
    <3>2. lock[h] = p /\ op[p].check = row[h].check /\ op'[p].head = h /\ op'[p].kind = op[p].kind /\ op'[p].at = "writing" /\ op'[p].says = op[p].says
      BY <1>1, <2>1, <3>1, CallBecomes DEF Sync, Busy, Becomes
    <3>3. checks'[h] = <<op[p].says>> /\ checks'[h] # <<>>
      <4>1. checks'[h] = <<op[p].says>>
        BY <1>1, <3>2 DEF Sync
      <4>2. <<op[p].says>> # <<>>
        OBVIOUS
      <4>3. QED BY <4>1, <4>2
    <3>4. op[p].kind \in {"request", "open"} /\ op[p].says \in {"in_progress", "failure"} => Failing(h)'
      BY <3>3 DEF Failing
    <3>5. CASE op[p].kind = "conclude"
      <4>1. verdict'[h] = IF op[p].says = "failure" THEN "blocks" ELSE "none"
        BY <2>1, <3>1, <3>5, PostedVerdict DEF Call
      <4>2. QED BY <3>3, <4>1 DEF Blocked, Failing
    <3>6. CASE op[p].kind = "request" /\ op[p].says = "neutral"
      <4>1. verdict'[h] = IF verdict[h] = "blocks" THEN "declined" ELSE verdict[h]
        BY <2>1, <3>1, <3>6, PostedVerdict DEF Call
      <4>2. QED BY <3>3, <4>1 DEF Blocked
    <3>7. CASE op[p].kind # "conclude" /\ ~(op[p].kind = "request" /\ op[p].says = "neutral")
      <4>1. verdict'[h] = verdict[h]
        BY <2>1, <3>1, <3>7, PostedVerdict DEF Call
      <4>2. CASE op[p].kind = "skip"
        BY <3>2, <3>3, <4>2 DEF Blocked, Skipping
      <4>3. CASE op[p].kind = "pending"
        <5>1. row[h].check = 0
          BY <3>1, <3>2, <4>3 DEF OpFacts
        <5>2. \A q \in Op : op[q].head = h => op[q].at # "writing"
          BY <1>1, <3>1, <3>2 DEF Sync, Busy
        <5>3. verdict[h] = "none"
          BY <1>1, <5>1, <5>2 DEF Sync, Agree, Blocked
        <5>4. QED BY <4>1, <5>3 DEF Blocked
      <4>4. CASE op[p].kind \in {"request", "open"}
        <5>1. op[p].says = "in_progress"
          BY <3>7, <4>4 DEF OpFacts
        <5>2. QED BY <3>3, <3>4, <4>4, <5>1 DEF Blocked
      <4>5. QED BY <3>1, <3>7, <4>2, <4>3, <4>4 DEF OpRecords, Kind
    <3>8. QED BY <3>5, <3>6, <3>7
  <2>2. ASSUME ~Call(p), ~RecordSkip(p) PROVE checks' = checks /\ verdict' = verdict /\ skipped' = skipped
    BY <1>3, <2>2 DEF StepOn, Begins, OpenMergeGate, SettleRun, PostPending, RequestAnalysisRun, ApplySkip, OnlyRun, OnlyOp, history,
       Enter, Write, Fire, Decline
  <2>3. CASE op[p].head = h /\ Write(p)
    <3>1. op[p].at = "writing" /\ ~Call(p) /\ ~RecordSkip(p)
      BY <2>3 DEF Write, Call, RecordSkip
    <3>2. op[p].kind = "skip" => Skipping(p, h)'
      BY <2>3, WriteBecomes DEF Becomes, Skipping
    <3>3. \A q \in Op : Skipping(q, h) => Skipping(q, h)'
      BY <1>1, <2>0, <2>3, <3>1, <3>2 DEF Skipping
    <3>4. QED BY <1>1, <2>2, <3>1, <3>3 DEF Blocked, Failing
  <2>4. CASE op[p].head = h /\ RecordSkip(p)
    <3>1. h \in skipped' /\ checks' = checks /\ verdict' = verdict
      BY <2>4 DEF RecordSkip
    <3>2. QED BY <1>1, <3>1 DEF Blocked
  <2>5. CASE (Begins(p) /\ op'[p].head = h) \/ (op[p].head = h /\ (Enter(p) \/ Fire(p) \/ Decline(p)))
    <3>1. op[p].at \notin {"writing", "calling", "recording"}
      <4>1. op[p] = Idle \/ op[p].at \in {"waiting", "firing"}
        BY <2>5 DEF Begins, Enter, Fire, Decline
      <4>2. QED BY <4>1 DEF Idle
    <3>2. \A q \in Op : Skipping(q, h) => Skipping(q, h)'
      BY <2>0, <3>1 DEF Skipping
    <3>3. ~Call(p) /\ ~RecordSkip(p)
      BY <3>1 DEF Call, RecordSkip
    <3>4. QED BY <1>1, <2>2, <3>2, <3>3 DEF Blocked, Failing
  <2>6. QED BY <1>3, <2>1, <2>3, <2>4, <2>5 DEF StepOn
<1>4. QED BY <1>2, <1>3, HeadStep

-----------------------------------------------------------------------------
(* One check per head, and one more for each fault.                        *)

\* Handlers about to create a check; and the checks there will be.
Creators(h) == {p \in Op : op[p].head = h /\ op[p].at = "calling" /\ op[p].check = 0}
Expected(h) == Len(checks[h]) + Cardinality(Creators(h))
Within(h) == Expected(h) <= 1 + faults[h] /\ (row[h].check = 0 /\ lock[h] = None => Expected(h) <= faults[h])
CountInv == \A h \in Heads : Within(h)

LEMMA CreatorsFinite == ASSUME TypeOK, NEW h \in Heads PROVE IsFiniteSet(Creators(h)) /\ Cardinality(Creators(h)) \in Nat /\ Len(checks[h]) \in Nat
<1>1. IsFiniteSet(Creators(h))
  BY FS_Subset, MergeGateAssumption DEF Creators
<1>2. Len(checks[h]) \in Nat
  BY TypeParts, LenProperties DEF GitHubTyped
<1>3. QED BY <1>1, <1>2, FS_CardinalityType

LEMMA CreatorsFiniteNext ==
  ASSUME TypeOK', NEW h \in Heads
  PROVE  IsFiniteSet(Creators(h)') /\ Cardinality(Creators(h)') \in Nat /\ Len(checks'[h]) \in Nat
<1>1. IsFiniteSet(Creators(h)')
  BY FS_Subset, MergeGateAssumption DEF Creators
<1>2. checks'[h] \in Seq(Says)
  BY DEF TypeOK
<1>3. QED BY <1>1, <1>2, FS_CardinalityType, LenProperties

\* A fault pays for the check it may cost.
LEMMA FaultPays ==
  ASSUME TypeOK, TypeOK', CountInv, NEW h \in Heads, Fault(h), Expected(h)' <= Expected(h)
  PROVE  Within(h)'
<1>1. faults'[h] = faults[h] + 1 /\ faults[h] \in Nat
  BY FaultCounted, TypeParts DEF HistoryTyped
<1>2. Expected(h) \in Nat /\ Expected(h)' \in Nat
  BY CreatorsFinite, CreatorsFiniteNext DEF Expected
<1>3. Expected(h) <= 1 + faults[h]
  BY DEF CountInv, Within
<1>4. QED BY <1>1, <1>2, <1>3 DEF Within

\* A head that no check and no creator is added to stays within its count, as long as it stays claimed.
LEMMA NoMoreStays ==
  ASSUME TypeOK, TypeOK', CountInv, [Next]_vars, NEW h \in Heads, Expected(h)' <= Expected(h),
         row'[h].check = 0 /\ lock'[h] = None => row[h].check = 0 /\ lock[h] = None
  PROVE  Within(h)'
<1>1. faults[h] \in Nat /\ faults'[h] \in Nat /\ faults[h] <= faults'[h]
  BY FaultsGrow
<1>2. Expected(h) \in Nat /\ Expected(h)' \in Nat
  BY CreatorsFinite, CreatorsFiniteNext DEF Expected
<1>3. Expected(h) <= 1 + faults[h] /\ (row[h].check = 0 /\ lock[h] = None => Expected(h) <= faults[h])
  BY DEF CountInv, Within
<1>4. QED BY <1>1, <1>2, <1>3 DEF Within

LEMMA CreatorsSame == ASSUME NEW h, Creators(h)' = Creators(h), Len(checks'[h]) = Len(checks[h]) PROVE Expected(h)' = Expected(h)
  BY DEF Expected

LEMMA CreatorLeaves ==
  ASSUME TypeOK, NEW h \in Heads, NEW p \in Creators(h), Creators(h)' = Creators(h) \ {p},
         Len(checks'[h]) \in {Len(checks[h]), Len(checks[h]) + 1}
  PROVE  Expected(h)' <= Expected(h)
<1>1. Cardinality(Creators(h)') = Cardinality(Creators(h)) - 1
  BY FS_RemoveElement, CreatorsFinite
<1>2. QED BY <1>1, CreatorsFinite DEF Expected

LEMMA CountStep == TypeOK /\ TypeOK' /\ LockInv /\ OpFacts /\ CountInv /\ [Next]_vars => CountInv'
<1> SUFFICES ASSUME TypeOK, TypeOK', LockInv, OpFacts, CountInv, [Next]_vars, NEW h \in Heads
             PROVE  Within(h)'
  BY DEF CountInv
<1>0. Len(checks[h]) \in Nat /\ Cardinality(Creators(h)) \in Nat /\ IsFiniteSet(Creators(h))
  BY CreatorsFinite
<1>1. CASE UNCHANGED <<op, row, checks, lock>>
  <2>1. Expected(h)' = Expected(h)
    BY <1>1 DEF Expected, Creators
  <2>2. Expected(h)' <= Expected(h)
    BY <1>0, <2>1 DEF Expected
  <2>3. QED BY <1>1, <2>2, NoMoreStays
<1>2. ASSUME NEW p \in Op, LockExpires(p) PROVE Within(h)'
  <2>1. PICK g \in Heads : lock[g] = p /\ Fault(g)
    BY <1>2 DEF LockExpires
  <2>2. Expected(h)' = Expected(h) /\ row' = row
    BY <1>2, <2>1 DEF LockExpires, Expected, Creators, Fault
  <2>3. Expected(h)' <= Expected(h)
    BY <1>0, <2>2 DEF Expected
  <2>4. CASE g = h
    BY <2>1, <2>3, <2>4, FaultPays
  <2>5. CASE g # h
    <3>1. op[p].head # h
      BY <2>1, <2>5 DEF LockInv
    <3>2. lock'[h] = lock[h]
      BY <1>2, <3>1, UnlockElsewhere DEF LockExpires
    <3>3. QED BY <2>2, <2>3, <3>2, NoMoreStays
  <2>6. QED BY <2>4, <2>5
<1>3. ASSUME NEW p \in Op, op[p].head # h, op'[p].head # h,
             Begins(p) \/ Enter(p) \/ Call(p) \/ Write(p) \/ Fire(p) \/ Decline(p) \/ RecordSkip(p) \/ CallFails(p) \/ Crash(p)
      PROVE Within(h)'
  <2>1. Elsewhere(h)
    BY <1>3, StepElsewhere
  <2>2. Creators(h)' = Creators(h)
    BY <2>1 DEF Elsewhere, Creators
  <2>3. Expected(h)' <= Expected(h)
    BY <1>0, <2>1, <2>2 DEF Elsewhere, Expected
  <2>4. QED BY <2>1, <2>3, NoMoreStays DEF Elsewhere
<1>4. ASSUME NEW p \in Op, Begins(p), op'[p].head = h PROVE Within(h)'
  <2>1. op[p] = Idle /\ op'[p].at = "waiting" /\ row' = row /\ lock' = lock /\ \A q \in Op \ {p} : op'[q] = op[q]
    BY <1>4 DEF Begins
  <2>2. checks' = checks
    BY <1>4 DEF Begins, OpenMergeGate, SettleRun, PostPending, RequestAnalysisRun, ApplySkip, OnlyRun, OnlyOp
  <2>3. Creators(h)' = Creators(h)
    BY <2>1 DEF Creators, Idle
  <2>4. Expected(h)' <= Expected(h)
    BY <1>0, <2>2, <2>3 DEF Expected
  <2>5. QED BY <2>1, <2>4, NoMoreStays
<1>5. ASSUME NEW p \in Op, op[p].head = h, Enter(p) PROVE Within(h)'
  <2>1. op[p].at = "waiting" /\ lock[h] = None /\ row' = row /\ checks' = checks /\ p \notin Creators(h)
    BY <1>5 DEF Enter, Creators
  <2>2. CASE Finishes(p) /\ lock' = lock
    <3>1. Creators(h)' = Creators(h)
      BY <2>1, <2>2 DEF Creators, Finishes, Idle
    <3>2. Expected(h)' <= Expected(h)
      BY <1>0, <2>1, <3>1 DEF Expected
    <3>3. QED BY <2>1, <2>2, <3>2, NoMoreStays
  <2>3. CASE /\ lock' = [lock EXCEPT ![h] = p]
             /\ Becomes(p, op[p].kind, h, "calling", op[p].says, IF op[p].kind = "skip" THEN op[p].check ELSE row[h].check)
    <3>0. lock'[h] # None
      BY <2>3, TypeParts, MergeGateAssumption DEF OpsTyped
    <3>1. CASE op'[p].check = 0
      <4>1. row[h].check = 0
        BY <1>5, <2>3, <3>1 DEF Becomes, OpFacts
      <4>2. Creators(h)' = Creators(h) \cup {p}
        BY <2>1, <2>3, <3>1 DEF Creators, Becomes
      <4>3. Cardinality(Creators(h)') = Cardinality(Creators(h)) + 1
        BY <1>0, <2>1, <4>2, FS_AddElement
      <4>4. Expected(h) <= faults[h]
        BY <2>1, <4>1 DEF CountInv, Within
      <4>5. faults[h] \in Nat /\ faults'[h] \in Nat /\ faults[h] <= faults'[h]
        BY FaultsGrow
      <4>6. Expected(h)' = Expected(h) + 1 /\ Expected(h) \in Nat
        BY <1>0, <2>1, <4>3 DEF Expected
      <4>7. QED BY <3>0, <4>4, <4>5, <4>6 DEF Within
    <3>2. CASE op'[p].check # 0
      <4>1. Creators(h)' = Creators(h)
        BY <2>1, <2>3, <3>2 DEF Creators, Becomes
      <4>2. Expected(h)' <= Expected(h)
        BY <1>0, <2>1, <4>1 DEF Expected
      <4>3. QED BY <2>1, <3>0, <4>2, NoMoreStays
    <3>3. QED BY <3>1, <3>2
  <2>4. QED BY <1>5, <2>2, <2>3, EnterBecomes
<1>6. ASSUME NEW p \in Op, op[p].head = h, Call(p) PROVE Within(h)'
  <2>1. op[p].at = "calling" /\ op[p] \in OpRecords /\ row' = row /\ lock' = lock
    BY <1>6, AtWork DEF Call
  <2>2. Len(checks'[h]) = Len(checks[h]) + (IF op[p].check = 0 THEN 1 ELSE 0)
    BY <1>6, <2>1, PostedChecks DEF Call
  <2>3. Creators(h)' = Creators(h) \ {p}
    BY <1>6, <2>1, CallBecomes DEF Becomes, Creators
  <2>4. CASE op[p].check = 0
    <3>1. p \in Creators(h)
      BY <1>6, <2>1, <2>4 DEF Creators
    <3>2. Expected(h)' <= Expected(h)
      BY <2>2, <2>3, <2>4, <3>1, CreatorLeaves
    <3>3. QED BY <2>1, <3>2, NoMoreStays
  <2>5. CASE op[p].check # 0
    <3>1. Creators(h)' = Creators(h) /\ Len(checks'[h]) = Len(checks[h])
      BY <1>0, <2>2, <2>3, <2>5 DEF Creators
    <3>2. Expected(h)' <= Expected(h)
      BY <1>0, <3>1 DEF Expected
    <3>3. QED BY <2>1, <3>2, NoMoreStays
  <2>6. QED BY <2>4, <2>5
<1>7. ASSUME NEW p \in Op, op[p].head = h, Write(p) \/ Fire(p) \/ Decline(p) \/ RecordSkip(p) PROVE Within(h)'
  <2>1. op[p].at \in {"writing", "firing", "recording"} /\ op[p].check # 0 /\ checks' = checks
    BY <1>7 DEF Write, Fire, Decline, RecordSkip, OpFacts
  <2>2. op'[p] = Idle \/ op'[p].check = op[p].check
    BY <1>7, WriteBecomes, DeclineBecomes, DoneFinishes DEF Becomes, Finishes, Fire, RecordSkip
  <2>3. \A q \in Op \ {p} : op'[q] = op[q]
    BY <1>7, StepsOfHandlers
  <2>4. Creators(h)' = Creators(h)
    BY <2>1, <2>2, <2>3 DEF Creators, Idle
  <2>5. Expected(h)' <= Expected(h)
    BY <1>0, <2>1, <2>4 DEF Expected
  <2>6. row'[h].check # 0
    <3>1. CASE Write(p)
      BY <1>7, <2>1, <3>1, WriteRow
    <3>2. CASE ~Write(p)
      BY <1>7, <2>1, <3>2 DEF Fire, Decline, RecordSkip, OpFacts
    <3>3. QED BY <3>1, <3>2
  <2>7. QED BY <2>5, <2>6, NoMoreStays
<1>8. ASSUME NEW p \in Op, op[p].head = h, CallFails(p) \/ Crash(p) PROVE Within(h)'
  <2>1. Fault(h) /\ Finishes(p)
    BY <1>8, DoneFinishes DEF CallFails, Crash
  <2>2. Creators(h)' = Creators(h) \ {p}
    BY <2>1, MergeGateAssumption DEF Finishes, Creators, Idle
  <2>3. checks' = checks \/ (op[p].at = "calling" /\ Posted(op[p]))
    BY <1>8 DEF CallFails, Crash
  <2>4. Len(checks'[h]) = Len(checks[h]) \/ (op[p].at = "calling" /\ op[p].check = 0 /\ Len(checks'[h]) = Len(checks[h]) + 1)
    <3>1. ASSUME op[p].at = "calling", Posted(op[p]) PROVE Len(checks'[h]) = Len(checks[h]) + (IF op[p].check = 0 THEN 1 ELSE 0)
      <4>1. op[p] \in OpRecords
        BY <3>1, AtWork
      <4>2. QED BY <1>8, <3>1, <4>1, PostedChecks
    <3>2. CASE checks' = checks
      BY <3>2
    <3>3. CASE op[p].at = "calling" /\ Posted(op[p])
      <4>1. Len(checks'[h]) = Len(checks[h]) + (IF op[p].check = 0 THEN 1 ELSE 0)
        BY <3>1, <3>3
      <4>2. CASE op[p].check = 0
        BY <3>3, <4>1, <4>2
      <4>3. CASE op[p].check # 0
        BY <1>0, <4>1, <4>3
      <4>4. QED BY <4>2, <4>3
    <3>4. QED BY <2>3, <3>2, <3>3
  <2>5. Expected(h)' <= Expected(h)
    <3>1. CASE p \in Creators(h)
      BY <2>2, <2>4, <3>1, CreatorLeaves
    <3>2. CASE p \notin Creators(h)
      <4>1. Len(checks'[h]) = Len(checks[h])
        BY <1>8, <2>4, <3>2 DEF Creators
      <4>2. Creators(h)' = Creators(h)
        BY <2>2, <3>2
      <4>3. QED BY <1>0, <4>1, <4>2 DEF Expected
    <3>3. QED BY <3>1, <3>2
  <2>6. QED BY <2>1, <2>5, FaultPays
<1>9. ASSUME NEW p \in Op,
             Begins(p) \/ Enter(p) \/ Call(p) \/ Write(p) \/ Fire(p) \/ Decline(p) \/ RecordSkip(p) \/ CallFails(p) \/ Crash(p)
      PROVE Within(h)'
  <2>1. CASE op[p].head # h /\ op'[p].head # h
    BY <1>3, <1>9, <2>1
  <2>2. CASE op[p].head # h /\ op'[p].head = h
    <3>1. Begins(p)
      BY <1>9, <2>2, StepsOfHandlers, MergeGateAssumption DEF Idle
    <3>2. QED BY <1>4, <2>2, <3>1
  <2>3. CASE op[p].head = h
    <3>1. ~Begins(p)
      <4>1. op[p] # Idle
        BY <2>3, MergeGateAssumption DEF Idle
      <4>2. QED BY <4>1 DEF Begins
    <3>2. QED BY <1>5, <1>6, <1>7, <1>8, <1>9, <2>3, <3>1
  <2>4. QED BY <2>1, <2>2, <2>3
<1>10. QED BY <1>1, <1>2, <1>9, GateStep DEF Push, StartRun, CancelRun, OnlyRun, vars

-----------------------------------------------------------------------------
(* The theorems.                                                           *)

GateInv == TypeOK /\ LockInv /\ OpFacts /\ ListedInv /\ RunInv /\ ProgressInv /\ SyncInv /\ BlockInv /\ CountInv

LEMMA GateInit == Init => GateInv
<1> SUFFICES ASSUME Init PROVE GateInv
  OBVIOUS
<1>1. TypeOK
  BY GateInitTypes
<1>2. \A p \in Op : op[p] = Idle
  BY DEF Init
<1>3. \A h \in Heads : lock[h] = None /\ row[h].check = 0 /\ checks[h] = <<>> /\ verdict[h] = "none" /\ faults[h] = 0
  BY DEF Init
<1>4. run.head = None /\ rows = <<>>
  BY DEF Init
<1>5. Idle.kind = "pending" /\ Idle.at = "idle" /\ Idle.says = "neutral" /\ Idle.head = None
  BY DEF Idle
<1>6. LockInv
  BY <1>3, MergeGateAssumption DEF LockInv
<1>7. OpFacts
  BY <1>2, <1>5 DEF OpFacts
<1>8. ListedInv
  BY <1>4, EmptySeq DEF ListedInv
<1>9. RunInv
  BY <1>2, <1>4, <1>5 DEF RunInv
<1>10. ProgressInv
  BY <1>3 DEF ProgressInv, InProgress
<1>11. SyncInv
  BY <1>2, <1>3, <1>5, MergeGateAssumption DEF SyncInv, Sync, Busy, Agree
<1>12. BlockInv
  BY <1>3 DEF BlockInv, Blocked
<1>13. CountInv
  <2> SUFFICES ASSUME NEW h \in Heads PROVE Within(h)
    BY DEF CountInv
  <2>1. Creators(h) = {}
    BY <1>2, <1>5 DEF Creators
  <2>2. Len(checks[h]) = 0 /\ Cardinality(Creators(h)) = 0
    BY <1>3, <2>1, EmptySeq, FS_EmptySet
  <2>3. QED BY <1>3, <2>2 DEF Within, Expected
<1>14. QED BY <1>1, <1>6, <1>7, <1>8, <1>9, <1>10, <1>11, <1>12, <1>13 DEF GateInv

\* The inductive invariant of the gate, for any number of heads, handlers and mishaps.
THEOREM GateInvariant == Spec => []GateInv
<1>1. GateInv /\ [Next]_vars => GateInv'
  <2> SUFFICES ASSUME GateInv, [Next]_vars PROVE GateInv'
    OBVIOUS
  <2>1. TypeOK' /\ LockInv' /\ OpFacts' /\ ListedInv' /\ RunInv' /\ ProgressInv'
    BY GateTypeStep, LockStep, OpFactsStep, ListedStep, RunInvStep, ProgressStep DEF GateInv
  <2>2. SyncInv'
    BY SyncStep DEF GateInv
  <2>3. BlockInv' /\ CountInv'
    BY <2>1, <2>2, BlockStep, CountStep DEF GateInv
  <2>4. QED BY <2>1, <2>2, <2>3 DEF GateInv
<1>2. QED BY <1>1, GateInit, PTL DEF Spec

\* The handlers of the gate, GitHub's checks and their rows keep their types.
THEOREM GateTypes == Spec => []TypeOK
<1>1. GateInv => TypeOK
  BY DEF GateInv
<1>2. QED BY <1>1, GateInvariant, PTL

\* runExclusive: whatever webhooks, requests, verdicts and skips race for it, a head has one check, and one more for each fault at most.
THEOREM OneCheckPerHeadAlways == Spec => []OneCheckPerHead
<1>1. GateInv => OneCheckPerHead
  <2> SUFFICES ASSUME GateInv, NEW h \in Heads PROVE Len(checks[h]) <= 1 + faults[h]
    BY DEF OneCheckPerHead
  <2>1. Len(checks[h]) \in Nat /\ Cardinality(Creators(h)) \in Nat /\ faults[h] \in Nat
    BY CreatorsFinite, TypeParts DEF GateInv, HistoryTyped
  <2>2. Expected(h) <= 1 + faults[h]
    BY DEF GateInv, CountInv, Within
  <2>3. QED BY <2>1, <2>2 DEF Expected
<1>2. QED BY <1>1, GateInvariant, PTL

\* githubCheckRunRecorder: between handlers the row of a head that met no fault says what GitHub shows.
THEOREM RowTellsCheckAlways == Spec => []RowTellsCheck
<1>1. GateInv => RowTellsCheck
  <2> SUFFICES ASSUME GateInv, NEW h \in Heads, Quiet(h) PROVE Agree(h)
    BY DEF RowTellsCheck, Agree
  <2>1. Sync(h) /\ lock[h] = None
    BY DEF GateInv, SyncInv, Quiet
  <2>2. \A p \in Op : ~Busy(p, h)
    BY <2>1, MergeGateAssumption DEF Sync
  <2>3. QED BY <2>1, <2>2 DEF Sync, Busy
<1>2. QED BY <1>1, GateInvariant, PTL

\* applySkip, postPending, openMergeGate: a failing verdict blocks its head until it is skipped or declined.
THEOREM BlockStandsAlways == Spec => []BlockStands
<1>1. GateInv => BlockStands
  <2> SUFFICES ASSUME GateInv, NEW h \in Heads, Quiet(h), verdict[h] = "blocks", h \notin skipped
               PROVE  \A i \in 1..Len(checks[h]) : checks[h][i] \in {"failure", "in_progress"}
    BY DEF BlockStands
  <2>1. Sync(h) /\ Blocked(h) /\ lock[h] = None
    BY DEF GateInv, SyncInv, BlockInv, Quiet
  <2>2. \A p \in Op : ~Busy(p, h)
    BY <2>1, MergeGateAssumption DEF Sync
  <2>3. Failing(h)
    BY <2>1, <2>2 DEF Blocked, Skipping, Busy
  <2>4. PICK c \in {"failure", "in_progress"} : checks[h] = <<c>>
    BY <2>3 DEF Failing
  <2>5. QED BY <2>4
<1>2. QED BY <1>1, GateInvariant, PTL

\* requestAnalysisRun, restoreUnrequestedCheck: where nothing runs unasked, a check in progress has a run or a handler behind it.
THEOREM InProgressHasRunAlways == Spec => []InProgressHasRun
<1>1. GateInv => InProgressHasRun
  BY DEF GateInv, ProgressInv, InProgress, OnlyAsked, HasRun, InProgressHasRun, Quiet
<1>2. QED BY <1>1, GateInvariant, PTL

=============================================================================
