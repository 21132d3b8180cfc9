------------------------------- MODULE Credits -------------------------------
(***************************************************************************)
(* One organization's credit wallet and the ledger behind it.              *)
(*                                                                         *)
(* Three kinds of consumption (editor runs, metered usage, LLM proxy       *)
(* requests) are gated when they start and charged later, each by one      *)
(* statement that locks the wallet, inserts a ledger row under an id       *)
(* derived from what it charges for, and moves the wallet if and only if   *)
(* the row is new.  Stripe's webhooks grant and revoke, at least once and  *)
(* in any order; failed runs are refunded; an administrator moves the      *)
(* floor and the exemption.                                                *)
(***************************************************************************)
EXTENDS Integers, FiniteSets, FiniteSetsExt

CONSTANTS
    Batch, Runs,            \* requests to start editor runs, and the runs of each
    RunCost,                \* getGenerationCreditCost
    Usage, UsageMicros,     \* metered usage, and what each costs in fractions of a credit
    MicrosPerCredit,        \* fractions in a credit: MICRO_UNITS_PER_UNIT
    Request, RequestCost,   \* LLM proxy requests, and what each costs
    Purchase, PackageCredits,           \* top-up purchases; BillingTopupPackage.creditsGranted
    Refund, RefundOf, RefundCredits,    \* Stripe refunds of purchases: mapRefundAmountToCredits
    Invoice, PlanCredits,               \* subscription invoices; creditsPerSubscription
    InitialBalance,         \* free start credits
    Floors, Exemptions,     \* what an administrator sets credit_floor and unlimited_credits to
    MaxAdmin                \* bound: administrator's changes

Run == UNION {Runs[b] : b \in Batch}

ASSUME CreditsAssumption ==
    /\ \A a, b \in Batch : a # b => Runs[a] \cap Runs[b] = {}
    /\ RunCost \in Nat \ {0} /\ MicrosPerCredit \in Nat \ {0}
    /\ UsageMicros \in [Usage -> Nat \ {0}] /\ RequestCost \in [Request -> Nat \ {0}]
    /\ PackageCredits \in Nat \ {0} /\ PlanCredits \in Nat /\ InitialBalance \in Nat
    /\ RefundOf \in [Refund -> Purchase] /\ \A r \in Refund : RefundCredits[r] \in 0..PackageCredits
    /\ \A f \in Floors : f \in Int /\ f <= 0
    /\ Exemptions \subseteq BOOLEAN /\ MaxAdmin \in Nat

VARIABLES
    balance,       \* billing_customer.credit_balance
    subBalance,    \* subscription_credit_balance: the part of it the plan granted
    remainder,     \* credit_remainder_micros
    creditFloor, unlimited,
    subscribed,    \* subscription_status = active
    ledger,        \* credit_transaction: what each row is for, and its amount
    batch,         \* where each request to start runs is
    run,           \* test_generation.status of each run, and whether it was dispatched
    admitted,      \* usage and requests that passed their gate
    settled,       \* purchases, refunds and invoices that Stripe settled
    taken,         \* (history) what each run took from the balance, net of its refund
    changes        \* administrator's changes so far

wallet == <<balance, subBalance, remainder>>
vars == <<wallet, creditFloor, unlimited, subscribed, ledger, batch, run, admitted, settled, taken, changes>>

Entry == [type: {"GENERATION_CONSUMPTION", "GENERATION_REFUND"}, of: Run]
    \cup [type: {"USAGE_CONSUMPTION"}, of: Usage]
    \cup [type: {"LLM_PROXY_CONSUMPTION"}, of: Request]
    \cup [type: {"TOPUP_PURCHASE"}, of: Purchase] \cup [type: {"TOPUP_REFUND"}, of: Refund]
    \cup [type: {"SUBSCRIPTION_RESET", "SUBSCRIPTION_GRANT"}, of: Invoice]

TypeOK ==
    /\ balance \in Int /\ subBalance \in Nat /\ remainder \in 0..MicrosPerCredit - 1
    /\ creditFloor \in Floors \cup {0} /\ unlimited \in BOOLEAN /\ subscribed \in BOOLEAN
    /\ \A row \in ledger : row.id \in Entry /\ row.amount \in Int
    /\ \A row1, row2 \in ledger : row1.id = row2.id => row1 = row2
    /\ batch \in [Batch -> {"none", "starting", "started", "refused"}]
    /\ run \in [Run -> {"none", "created", "running", "failed"}]
    /\ admitted \subseteq Usage \cup Request
    /\ settled \subseteq Purchase \cup Refund \cup Invoice
    /\ taken \in [Run -> Int] /\ changes \in 0..MaxAdmin

Init ==
    /\ balance = InitialBalance /\ subBalance = 0 /\ remainder = 0
    /\ creditFloor = 0 /\ unlimited = FALSE /\ subscribed = FALSE
    /\ ledger = {}
    /\ batch = [b \in Batch |-> "none"] /\ run = [g \in Run |-> "none"]
    /\ admitted = {} /\ settled = {}
    /\ taken = [g \in Run |-> 0] /\ changes = 0

-----------------------------------------------------------------------------
(* The ledger.                                                             *)

Least(a, b) == IF a < b THEN a ELSE b
Greatest(a, b) == IF a > b THEN a ELSE b

Id(type, of) == [type |-> type, of |-> of]
Recorded(type, of) == \E row \in ledger : row.id = Id(type, of)
Insert(type, of, amount) == ledger' = ledger \cup {[id |-> Id(type, of), amount |-> amount]}

\* Mutant of Take: the plan's part is not consumed with the balance.
TakeTotalOnly(whole, lowest) ==
    /\ balance' = IF unlimited THEN balance ELSE Greatest(balance - whole, lowest)
    /\ subBalance' = subBalance

\* Both balances after a deduction; neither moves under the exemption.
Take(whole, lowest) ==
    /\ balance' = IF unlimited THEN balance ELSE Greatest(balance - whole, lowest)
    /\ subBalance' = IF unlimited THEN subBalance ELSE subBalance - Least(subBalance, whole)

NetTopups ==
    MapThenSumSet(LAMBDA row : row.amount, {row \in ledger : row.id.type \in {"TOPUP_PURCHASE", "TOPUP_REFUND"}})

HasEverPaid == NetTopups > 0 \/ subscribed

\* An overdraft is honoured only for an organization that has paid.
EffectiveFloor == IF creditFloor < 0 /\ ~HasEverPaid THEN 0 ELSE creditFloor

FloorGate == unlimited \/ balance > EffectiveFloor

-----------------------------------------------------------------------------
(* Editor runs (startRuns): gated together, then started and charged one   *)
(* by one, then dispatched.                                                *)

OnlyRuns == UNCHANGED <<remainder, creditFloor, unlimited, subscribed, admitted, settled, changes>>

RunsGate(b) ==
    /\ batch[b] = "none"
    /\ batch' = [batch EXCEPT ![b] =
          IF unlimited \/ balance >= RunCost * Cardinality(Runs[b]) THEN "starting" ELSE "refused"]
    /\ UNCHANGED <<balance, subBalance, ledger, run, taken>> /\ OnlyRuns

\* The run's row is created just before its charge; a charge the wallet cannot cover throws.
StartRun(b, g) ==
    /\ batch[b] = "starting" /\ g \in Runs[b] /\ run[g] = "none"
    /\ run' = [run EXCEPT ![g] = "created"]
    /\ IF unlimited \/ balance >= RunCost
         THEN /\ Insert("GENERATION_CONSUMPTION", g, -RunCost)
              /\ Take(RunCost, balance - RunCost)
              /\ taken' = [taken EXCEPT ![g] = balance - balance']
              /\ UNCHANGED batch
         ELSE /\ batch' = [batch EXCEPT ![b] = "refused"]
              /\ UNCHANGED <<balance, subBalance, ledger, taken>>
    /\ OnlyRuns

Dispatch(b) ==
    /\ batch[b] = "starting" /\ \A g \in Runs[b] : run[g] = "created"
    /\ batch' = [batch EXCEPT ![b] = "started"]
    /\ run' = [g \in Run |-> IF g \in Runs[b] THEN "running" ELSE run[g]]
    /\ UNCHANGED <<balance, subBalance, ledger, taken>> /\ OnlyRuns

FailRun(g) ==
    /\ run[g] = "running" /\ run' = [run EXCEPT ![g] = "failed"]
    /\ UNCHANGED <<balance, subBalance, ledger, batch, taken>> /\ OnlyRuns

\* What a refund gives back, of the balance and of the plan's part of it.
Refunded == IF unlimited THEN 0 ELSE RunCost
RefundedPlan == IF unlimited THEN 0 ELSE Least(RunCost, Greatest(PlanCredits - subBalance, 0))

GiveBack(g) ==
    /\ balance' = balance + Refunded /\ subBalance' = subBalance + RefundedPlan
    /\ taken' = [taken EXCEPT ![g] = @ - Refunded]

\* Mutant of RefundRun: the wallet moves whether or not the row is new.
RefundRunAgain(g) ==
    /\ run[g] = "failed" /\ Recorded("GENERATION_CONSUMPTION", g)
    /\ taken[g] > -2 * RunCost
    /\ IF Recorded("GENERATION_REFUND", g) THEN UNCHANGED ledger ELSE Insert("GENERATION_REFUND", g, RunCost)
    /\ GiveBack(g)
    /\ UNCHANGED <<batch, run>> /\ OnlyRuns

\* The engine reports a failed run, as often as it likes.
RefundRun(g) ==
    /\ run[g] = "failed" /\ Recorded("GENERATION_CONSUMPTION", g) /\ ~Recorded("GENERATION_REFUND", g)
    /\ Insert("GENERATION_REFUND", g, RunCost)
    /\ GiveBack(g)
    /\ UNCHANGED <<batch, run>> /\ OnlyRuns

-----------------------------------------------------------------------------
(* Metered usage (deductCreditsFloored) and the LLM proxy.                 *)

OnlyMeters == UNCHANGED <<creditFloor, unlimited, subscribed, batch, run, settled, taken, changes>>

Admit(x, gate) ==
    /\ x \notin admitted /\ gate
    /\ admitted' = admitted \cup {x}
    /\ UNCHANGED <<wallet, ledger>> /\ OnlyMeters

AdmitUsage(u) == Admit(u, FloorGate)
AdmitRequest(q) == Admit(q, unlimited \/ balance > 0)

\* Mutant of ChargeUsage: a sub-credit charge is carried without being split.
ChargeUsageUnsplit(u) ==
    /\ u \in admitted /\ ~Recorded("USAGE_CONSUMPTION", u)
    /\ LET whole == (remainder + UsageMicros[u]) \div MicrosPerCredit IN
          /\ Take(whole, creditFloor)
          /\ Insert("USAGE_CONSUMPTION", u, -whole)
          /\ remainder' = remainder + UsageMicros[u]
    /\ UNCHANGED admitted /\ OnlyMeters

\* Mutant of ChargeUsage: a charge of no whole credit leaves no row, so a retry counts again.
ChargeUsageWhole(u) ==
    /\ u \in admitted /\ ~Recorded("USAGE_CONSUMPTION", u)
    /\ LET accrued == remainder + UsageMicros[u]
           whole == accrued \div MicrosPerCredit
       IN  /\ Take(whole, creditFloor)
           /\ IF whole > 0 THEN Insert("USAGE_CONSUMPTION", u, -whole) ELSE UNCHANGED ledger
           /\ remainder' = accrued % MicrosPerCredit
    /\ UNCHANGED admitted /\ OnlyMeters

\* Whole credits are taken down to the floor, the rest is carried on.  A retry of a charge
\* that is recorded changes nothing.
ChargeUsage(u) ==
    /\ u \in admitted /\ ~Recorded("USAGE_CONSUMPTION", u)
    /\ LET accrued == remainder + UsageMicros[u]
           whole == accrued \div MicrosPerCredit
       IN  /\ Take(whole, creditFloor)
           /\ Insert("USAGE_CONSUMPTION", u, -whole)
           /\ remainder' = accrued % MicrosPerCredit
    /\ UNCHANGED admitted /\ OnlyMeters

\* Mutant of ChargeRequest: the amount, negative already, is subtracted.
ChargeRequestNegated(q) ==
    /\ q \in admitted /\ ~Recorded("LLM_PROXY_CONSUMPTION", q)
    /\ Take(-RequestCost[q], 0)
    /\ Insert("LLM_PROXY_CONSUMPTION", q, -RequestCost[q])
    /\ UNCHANGED <<remainder, admitted>> /\ OnlyMeters

\* Down to zero, whatever the floor.
ChargeRequest(q) ==
    /\ q \in admitted /\ ~Recorded("LLM_PROXY_CONSUMPTION", q)
    /\ Take(RequestCost[q], 0)
    /\ Insert("LLM_PROXY_CONSUMPTION", q, -RequestCost[q])
    /\ UNCHANGED <<remainder, admitted>> /\ OnlyMeters

-----------------------------------------------------------------------------
(* Stripe.  A webhook may be delivered at any time after its event, in any *)
(* order and again: a delivery that finds its row changes nothing.         *)

OnlyStripe == UNCHANGED <<remainder, creditFloor, unlimited, batch, run, admitted, taken, changes>>

\* A card is charged, a refund succeeds, an invoice is paid.
Settle(x) ==
    /\ x \in (Purchase \cup Refund \cup Invoice) \ settled
    /\ x \in Refund => RefundOf[x] \in settled
    /\ settled' = settled \cup {x}
    /\ UNCHANGED <<balance, subBalance, subscribed, ledger>> /\ OnlyStripe

\* Every subscription event copies the status Stripe reports at that time.
Sync(active) ==
    /\ active => Invoice \cap settled # {}
    /\ subscribed' = active
    /\ UNCHANGED <<balance, subBalance, ledger, settled>> /\ OnlyStripe

GrantTopup(p) ==
    /\ p \in settled /\ ~Recorded("TOPUP_PURCHASE", p)
    /\ Insert("TOPUP_PURCHASE", p, PackageCredits)
    /\ balance' = balance + PackageCredits
    /\ UNCHANGED <<subBalance, subscribed, settled>> /\ OnlyStripe

\* Both balances after `applied` purchased credits are revoked: the plan's part goes last.
Revoke(applied) ==
    /\ balance' = balance - applied
    /\ subBalance' = Greatest(subBalance - Greatest(applied - Greatest(balance - subBalance, 0), 0), 0)

\* Mutant of RevokeTopup: the whole refund is taken, whatever the balance.
RevokeTopupInFull(r) ==
    /\ r \in settled /\ Recorded("TOPUP_PURCHASE", RefundOf[r]) /\ ~Recorded("TOPUP_REFUND", r)
    /\ RefundCredits[r] > 0
    /\ Insert("TOPUP_REFUND", r, -RefundCredits[r]) /\ Revoke(RefundCredits[r])
    /\ UNCHANGED <<subscribed, settled>> /\ OnlyStripe

\* A refund takes back what is left of its credits.  A webhook that finds nothing left, no
\* purchase on record or its own row is acknowledged and changes nothing.
RevokeTopup(r) ==
    /\ r \in settled /\ Recorded("TOPUP_PURCHASE", RefundOf[r]) /\ ~Recorded("TOPUP_REFUND", r)
    /\ LET applied == Least(balance, RefundCredits[r]) IN
          applied > 0 /\ Insert("TOPUP_REFUND", r, -applied) /\ Revoke(applied)
    /\ UNCHANGED <<subscribed, settled>> /\ OnlyStripe

\* Mutant of GrantSubscription: what the old plan left is dropped without a row.
GrantSubscriptionSilently(i) ==
    /\ i \in settled /\ ~Recorded("SUBSCRIPTION_GRANT", i)
    /\ balance' = Greatest(balance - subBalance, 0) + PlanCredits /\ subBalance' = PlanCredits
    /\ Insert("SUBSCRIPTION_GRANT", i, PlanCredits)
    /\ UNCHANGED <<subscribed, settled>> /\ OnlyStripe

\* A cycle's grant replaces what the previous one left; purchased credits stay.  A key that
\* is taken, of either row, rolls everything back.
GrantSubscription(i) ==
    /\ i \in settled /\ ~Recorded("SUBSCRIPTION_GRANT", i)
    /\ subBalance > 0 => ~Recorded("SUBSCRIPTION_RESET", i)
    /\ balance' = Greatest(balance - subBalance, 0) + PlanCredits /\ subBalance' = PlanCredits
    /\ ledger' = ledger \cup {[id |-> Id("SUBSCRIPTION_GRANT", i), amount |-> PlanCredits]}
          \cup (IF subBalance > 0 THEN {[id |-> Id("SUBSCRIPTION_RESET", i), amount |-> -subBalance]} ELSE {})
    /\ UNCHANGED <<subscribed, settled>> /\ OnlyStripe

-----------------------------------------------------------------------------
(* The administrator.  That the payment check of updateCreditFloor and its *)
(* write are two statements adds no state: a payment can be refunded right *)
(* after the write as well.                                                *)

OnlyAdmin ==
    /\ changes < MaxAdmin /\ changes' = changes + 1
    /\ UNCHANGED <<wallet, subscribed, ledger, batch, run, admitted, settled, taken>>

UpdateCreditFloor(floor) ==
    /\ floor < 0 => HasEverPaid
    /\ creditFloor' = floor /\ UNCHANGED unlimited /\ OnlyAdmin

UpdateUnlimitedCredits(exempt) ==
    unlimited' = exempt /\ UNCHANGED creditFloor /\ OnlyAdmin

Next ==
    \/ \E b \in Batch : RunsGate(b) \/ Dispatch(b) \/ \E g \in Runs[b] : StartRun(b, g)
    \/ \E g \in Run : FailRun(g) \/ RefundRun(g)
    \/ \E u \in Usage : AdmitUsage(u) \/ ChargeUsage(u)
    \/ \E q \in Request : AdmitRequest(q) \/ ChargeRequest(q)
    \/ \E x \in Purchase \cup Refund \cup Invoice : Settle(x)
    \/ \E active \in BOOLEAN : Sync(active)
    \/ \E p \in Purchase : GrantTopup(p)
    \/ \E r \in Refund : RevokeTopup(r)
    \/ \E i \in Invoice : GrantSubscription(i)
    \/ \E floor \in Floors : UpdateCreditFloor(floor)
    \/ \E exempt \in Exemptions : UpdateUnlimitedCredits(exempt)

Spec == Init /\ [][Next]_vars

-----------------------------------------------------------------------------
(* Properties.                                                             *)

AmountOf(rows) == MapThenSumSet(LAMBDA row : row.amount, rows)
UsageRows == {row \in ledger : row.id.type = "USAGE_CONSUMPTION"}

\* Metered usage is charged at true cost: the whole credits on the ledger and the carried
\* remainder add up to the cost of exactly the usage on record, whatever was retried, exempted
\* or clamped in between (deductCreditsFloored splits each charge and carries the rest).
UsageAtTrueCost ==
    MapThenSumSet(LAMBDA row : UsageMicros[row.id.of], UsageRows)
        = remainder - MicrosPerCredit * AmountOf(UsageRows)

\* Nothing takes a wallet below its floor: not a charge that was admitted when there was more,
\* not a refund of credits already spent, not a new billing cycle.
ClampedAtFloor == [][balance' < balance => balance' >= creditFloor]_vars

\* Nothing leaves the wallet that the ledger does not account for: the balance is never below
\* the sum of the rows, but for the refunds of charges that an exemption granted in between
\* kept from the wallet (clamped charges leave it above).
Swallowed == {g \in Run : Recorded("GENERATION_REFUND", g) /\ taken[g] = RunCost}
LedgerCoversWallet == balance >= InitialBalance + AmountOf(ledger) - RunCost * Cardinality(Swallowed)

\* The plan's credits are a part of the balance, not a second pool: every charge, refund and
\* revocation moves the two together.
SubscriptionIsPart == subBalance <= Greatest(balance, 0)

\* A refunded run cost nothing, if the organization is exempt at the refund just when it was
\* at the charge, and is refunded for good: nothing moves the wallet for it again, however
\* often the engine reports the failure (refundCreditsForGeneration).
RefundRestoresBalance ==
    [][\A g \in Run :
          IF Recorded("GENERATION_REFUND", g) THEN taken'[g] = taken[g]
          ELSE Recorded("GENERATION_REFUND", g)' /\ (unlimited <=> taken[g] = 0) => taken'[g] = 0]_vars

\* Work charged while an organization is out of credits never lets it start new work: only a
\* payment, a refund or an administrator does.
ExhaustedStaysBlocked ==
    [][~FloorGate /\ UNCHANGED <<creditFloor, unlimited, subscribed>>
       /\ (\A row \in ledger' \ ledger : row.amount <= 0)
       => ~FloorGate']_vars

\* An organization whose every purchase was refunded in full has no overdraft left.
OverdraftFollowsPayment ==
    ~subscribed /\ (\A p \in Purchase : Recorded("TOPUP_PURCHASE", p) =>
        \E r \in Refund : RefundOf[r] = p /\ RefundCredits[r] = PackageCredits /\ Recorded("TOPUP_REFUND", r))
    => EffectiveFloor = 0

\* A request to start runs that is refused charges nothing.
RefusedChargesNothing ==
    \A b \in Batch : batch[b] = "refused" => \A g \in Runs[b] : ~Recorded("GENERATION_CONSUMPTION", g)
=============================================================================
