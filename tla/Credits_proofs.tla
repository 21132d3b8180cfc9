--------------------------- MODULE Credits_proofs ---------------------------
(***************************************************************************)
(* The wallet, for any batches, runs, usage, requests, purchases, refunds, *)
(* invoices, prices and floors: its types, that no step takes it below its *)
(* floor, that usage is charged at true cost, that the ledger covers the    *)
(* wallet and that a refund restores it.  For an organization that is      *)
(* never given an overdraft: it never owes, the plan's credits stay a part *)
(* of the balance, and out of credits it stays blocked.                    *)
(***************************************************************************)
EXTENDS Credits, FiniteSetTheorems, TLAPS

\* The conjuncts of TypeOK: amounts, the ledger, and everything else.
Amounts == balance \in Int /\ subBalance \in Nat /\ remainder \in 0..MicrosPerCredit - 1

LedgerTyped ==
    /\ \A row \in ledger : row.id \in Entry /\ row.amount \in Int
    /\ \A row1, row2 \in ledger : row1.id = row2.id => row1 = row2

Admin == creditFloor \in Floors \cup {0} /\ unlimited \in BOOLEAN /\ subscribed \in BOOLEAN /\ changes \in 0..MaxAdmin
EditorRuns == batch \in [Batch -> {"none", "starting", "started", "refused"}] /\ run \in [Run -> {"none", "created", "running", "failed"}]
Outside == settled \subseteq Purchase \cup Refund \cup Invoice
History == taken \in [Run -> Int]

\* TypeOK in parts, before a step and after it.
LEMMA TypeParts ==
  TypeOK <=> Amounts /\ LedgerTyped /\ Admin /\ EditorRuns /\ Outside /\ History /\ admitted \subseteq Usage \cup Request
  BY DEF TypeOK, Amounts, LedgerTyped, Admin, EditorRuns, Outside, History

LEMMA TypePartsNext ==
  Amounts' /\ LedgerTyped' /\ Admin' /\ EditorRuns' /\ Outside' /\ History' /\ admitted' \subseteq Usage \cup Request
    => TypeOK'
  BY DEF TypeOK, Amounts, LedgerTyped, Admin, EditorRuns, Outside, History

\* Without an overdraft: the organization owes nothing and the plan's part is covered.
Prepaid == creditFloor = 0 /\ 0 <= subBalance /\ subBalance <= balance

\* A run is charged once it exists, so that no charge finds its own row.
ChargedRunsExist == \A row \in ledger : row.id.type = "GENERATION_CONSUMPTION" => run[row.id.of] # "none"

\* The inductive invariant behind the types.
WalletInv == TypeOK /\ ChargedRunsExist

\* What every step of the wallet guarantees.
Sound ==
    /\ WalletInv'
    /\ balance' < balance => balance' >= creditFloor
    /\ Floors \subseteq {0} /\ Prepaid => Prepaid'

-----------------------------------------------------------------------------
(* Arithmetic and the ledger.                                              *)

LEMMA Costs ==
  /\ RunCost \in Nat \ {0} /\ MicrosPerCredit \in Nat \ {0} /\ PackageCredits \in Nat \ {0}
  /\ PlanCredits \in Nat /\ InitialBalance \in Nat /\ MaxAdmin \in Nat
  /\ \A f \in Floors \cup {0} : f \in Int /\ f <= 0
  BY CreditsAssumption

LEMMA RunsAreRuns == ASSUME NEW b \in Batch PROVE Runs[b] \subseteq Run
  BY DEF Run

\* The carry of a charge is less than a credit, its whole part a number of credits.
LEMMA SplitCharge ==
  ASSUME NEW u \in Usage, remainder \in 0..MicrosPerCredit - 1
  PROVE  /\ (remainder + UsageMicros[u]) \div MicrosPerCredit \in Nat
         /\ (remainder + UsageMicros[u]) % MicrosPerCredit \in 0..MicrosPerCredit - 1
<1>1. UsageMicros[u] \in Nat /\ MicrosPerCredit \in Nat \ {0}  BY CreditsAssumption
<1> DEFINE n == remainder + UsageMicros[u]
<1>2. n \in Nat  BY <1>1
<1>3. \A m \in Nat, d \in Nat \ {0} : m \div d \in Nat /\ m % d \in 0..d - 1  OBVIOUS
<1> QED  BY <1>1, <1>2, <1>3

\* A new row of the right type keeps the ledger a partial function from what it is for.
LEMMA InsertTyped ==
  ASSUME LedgerTyped, NEW type, NEW of, NEW amount \in Int, Id(type, of) \in Entry,
         ~Recorded(type, of), Insert(type, of, amount)
  PROVE  LedgerTyped'
<1> DEFINE new == [id |-> Id(type, of), amount |-> amount]
<1>1. ledger' = ledger \cup {new} /\ new.id = Id(type, of) /\ new.amount = amount  BY DEF Insert
<1>2. \A row \in ledger : row.id # new.id  BY <1>1 DEF Recorded
<1> HIDE DEF new
<1>3. QED  BY <1>1, <1>2 DEF LedgerTyped

\* A new row of another kind than a run's charge, and no run undone.
LEMMA InsertOther ==
  ASSUME ChargedRunsExist, UNCHANGED run, NEW type, NEW of, NEW amount,
         type # "GENERATION_CONSUMPTION", Insert(type, of, amount)
  PROVE  ChargedRunsExist'
  BY DEF ChargedRunsExist, Insert, Id

\* What a deduction of a number of credits leaves, down to zero or less.
LEMMA TakeAmounts ==
  ASSUME Amounts, unlimited \in BOOLEAN, NEW whole \in Nat, NEW lowest \in Int, Take(whole, lowest),
         lowest <= 0
  PROVE  /\ balance' \in Int /\ subBalance' \in Nat
         /\ balance' < balance => balance' >= lowest
         /\ Prepaid /\ lowest = 0 => 0 <= subBalance' /\ subBalance' <= balance'
<1>1. CASE unlimited  BY <1>1 DEF Amounts, Take, Prepaid
<1>2. CASE ~unlimited
  <2>1. balance' = Greatest(balance - whole, lowest) /\ subBalance' = subBalance - Least(subBalance, whole)
    BY <1>2 DEF Take
  <2>2. QED  BY <2>1 DEF Amounts, Least, Greatest, Prepaid
<1>3. QED  BY <1>1, <1>2

\* ... and of credits that are there.
LEMMA TakeCovered ==
  ASSUME Amounts, unlimited \in BOOLEAN, NEW whole \in Nat, Take(whole, balance - whole),
         unlimited \/ balance >= whole
  PROVE  /\ balance' \in Int /\ subBalance' \in Nat
         /\ balance' < balance => balance' >= 0
         /\ Prepaid => 0 <= subBalance' /\ subBalance' <= balance'
<1>1. CASE unlimited  BY <1>1 DEF Amounts, Take, Prepaid
<1>2. CASE ~unlimited
  <2>1. balance' = balance - whole /\ subBalance' = subBalance - Least(subBalance, whole) /\ balance >= whole
    BY <1>2 DEF Take, Greatest, Amounts
  <2>2. QED  BY <2>1 DEF Amounts, Least, Prepaid
<1>3. QED  BY <1>1, <1>2

-----------------------------------------------------------------------------
(* Editor runs.                                                            *)

LEMMA RunsGateSound ==
  ASSUME WalletInv, NEW b \in Batch, RunsGate(b)
  PROVE  Sound
<1>1. Amounts' /\ LedgerTyped' /\ Admin' /\ Outside' /\ History' /\ admitted' \subseteq Usage \cup Request
  BY TypeParts DEF WalletInv, RunsGate, OnlyRuns, Amounts, LedgerTyped, Admin, Outside, History
<1>2. EditorRuns'
  BY TypeParts DEF WalletInv, RunsGate, EditorRuns
<1>3. ChargedRunsExist'
  BY DEF WalletInv, RunsGate, ChargedRunsExist
<1>4. QED  BY <1>1, <1>2, <1>3, TypeParts, TypePartsNext DEF WalletInv, RunsGate, OnlyRuns, Sound, Prepaid, Amounts

LEMMA StartRunSound ==
  ASSUME WalletInv, NEW b \in Batch, NEW g \in Runs[b], StartRun(b, g)
  PROVE  Sound
<1>1. g \in Run /\ run[g] = "none" /\ run' = [run EXCEPT ![g] = "created"]  BY RunsAreRuns DEF StartRun
<1>2. Admin' /\ Outside' /\ admitted' \subseteq Usage \cup Request /\ UNCHANGED <<remainder, creditFloor>>
  BY TypeParts DEF WalletInv, StartRun, OnlyRuns, Admin, Outside
<1>3. EditorRuns'
  <2>1. batch' \in [Batch -> {"none", "starting", "started", "refused"}]
    BY TypeParts DEF WalletInv, StartRun, EditorRuns
  <2>2. QED  BY <2>1, <1>1, TypeParts DEF WalletInv, EditorRuns
<1>4. CASE unlimited \/ balance >= RunCost
  <2>1. /\ Insert("GENERATION_CONSUMPTION", g, -RunCost) /\ Take(RunCost, balance - RunCost)
        /\ taken' = [taken EXCEPT ![g] = balance - balance']
    BY <1>4 DEF StartRun
  <2>2. balance' \in Int /\ subBalance' \in Nat /\ (balance' < balance => balance' >= 0)
        /\ (Prepaid => 0 <= subBalance' /\ subBalance' <= balance')
    BY <1>4, <2>1, Costs, TakeCovered, TypeParts DEF WalletInv, Admin
  <2>3. Amounts'  BY <2>2, <1>2, TypeParts DEF WalletInv, Amounts
  <2>4. History'  BY <2>1, <2>2, <1>1, TypeParts DEF WalletInv, History, Amounts
  <2>5. LedgerTyped'
    <3>1. ~Recorded("GENERATION_CONSUMPTION", g)  BY <1>1 DEF WalletInv, ChargedRunsExist, Recorded, Id
    <3>2. Id("GENERATION_CONSUMPTION", g) \in Entry  BY <1>1 DEF Entry, Id
    <3>3. QED  BY <3>1, <3>2, <2>1, Costs, InsertTyped, TypeParts DEF WalletInv
  <2>6. ChargedRunsExist'
    BY <1>1, <2>1, TypeParts DEF WalletInv, ChargedRunsExist, Insert, Id, EditorRuns
  <2>7. QED  BY <1>2, <1>3, <2>2, <2>3, <2>4, <2>5, <2>6, TypeParts, TypePartsNext, Costs DEF WalletInv, Sound, Prepaid, Admin
<1>5. CASE ~(unlimited \/ balance >= RunCost)
  <2>1. UNCHANGED <<balance, subBalance, ledger, taken>>  BY <1>5 DEF StartRun
  <2>2. Amounts' /\ LedgerTyped' /\ History'
    BY <2>1, <1>2, TypeParts DEF WalletInv, Amounts, LedgerTyped, History
  <2>3. ChargedRunsExist'
    BY <1>1, <2>1, TypeParts DEF WalletInv, ChargedRunsExist, EditorRuns
  <2>4. QED  BY <1>2, <1>3, <2>1, <2>2, <2>3, TypeParts, TypePartsNext DEF WalletInv, Sound, Prepaid, Amounts
<1>6. QED  BY <1>4, <1>5

LEMMA DispatchSound ==
  ASSUME WalletInv, NEW b \in Batch, Dispatch(b)
  PROVE  Sound
<1>1. Amounts' /\ LedgerTyped' /\ Admin' /\ Outside' /\ History' /\ admitted' \subseteq Usage \cup Request
  BY TypeParts DEF WalletInv, Dispatch, OnlyRuns, Amounts, LedgerTyped, Admin, Outside, History
<1>2. EditorRuns'
  BY TypeParts DEF WalletInv, Dispatch, EditorRuns
<1>3. ChargedRunsExist'
  <2>1. \A g \in Run : run[g] # "none" => run'[g] # "none"  BY DEF Dispatch
  <2>2. \A row \in ledger : row.id.type = "GENERATION_CONSUMPTION" => row.id.of \in Run
    BY TypeParts DEF WalletInv, LedgerTyped, Entry
  <2>3. QED  BY <2>1, <2>2 DEF WalletInv, ChargedRunsExist, Dispatch
<1>4. QED  BY <1>1, <1>2, <1>3, TypeParts, TypePartsNext DEF WalletInv, Dispatch, OnlyRuns, Sound, Prepaid, Amounts

LEMMA FailRunSound ==
  ASSUME WalletInv, NEW g \in Run, FailRun(g)
  PROVE  Sound
<1>1. Amounts' /\ LedgerTyped' /\ Admin' /\ Outside' /\ History' /\ admitted' \subseteq Usage \cup Request
  BY TypeParts DEF WalletInv, FailRun, OnlyRuns, Amounts, LedgerTyped, Admin, Outside, History
<1>2. EditorRuns'
  BY TypeParts DEF WalletInv, FailRun, EditorRuns
<1>3. ChargedRunsExist'
  BY TypeParts DEF WalletInv, ChargedRunsExist, EditorRuns, FailRun
<1>4. QED  BY <1>1, <1>2, <1>3, TypeParts, TypePartsNext DEF WalletInv, FailRun, OnlyRuns, Sound, Prepaid, Amounts

LEMMA RefundRunSound ==
  ASSUME WalletInv, NEW g \in Run, RefundRun(g)
  PROVE  Sound
<1>1. /\ Insert("GENERATION_REFUND", g, RunCost) /\ ~Recorded("GENERATION_REFUND", g)
      /\ balance' = balance + Refunded /\ subBalance' = subBalance + RefundedPlan
      /\ taken' = [taken EXCEPT ![g] = @ - Refunded]
      /\ UNCHANGED <<batch, run, remainder, creditFloor, unlimited, subscribed, admitted, settled, changes>>
  BY DEF RefundRun, GiveBack, OnlyRuns
<1>2. Refunded \in Nat /\ RefundedPlan \in Nat /\ RefundedPlan <= Refunded
  <2>1. RunCost \in Nat /\ PlanCredits \in Nat /\ subBalance \in Nat
    BY Costs, TypeParts DEF WalletInv, Amounts
  <2>2. QED  BY <2>1 DEF Refunded, RefundedPlan, Least, Greatest
<1>3. Amounts'  BY <1>1, <1>2, TypeParts DEF WalletInv, Amounts
<1>4. Admin' /\ EditorRuns' /\ Outside' /\ admitted' \subseteq Usage \cup Request
  BY <1>1, TypeParts DEF WalletInv, Admin, EditorRuns, Outside
<1>5. History'  BY <1>1, <1>2, TypeParts DEF WalletInv, History
<1>6. LedgerTyped'
  <2>1. Id("GENERATION_REFUND", g) \in Entry  BY DEF Entry, Id
  <2>2. QED  BY <1>1, <2>1, Costs, InsertTyped, TypeParts DEF WalletInv
<1>7. ChargedRunsExist'  BY <1>1, InsertOther DEF WalletInv
<1>8. QED
  BY <1>1, <1>2, <1>3, <1>4, <1>5, <1>6, <1>7, TypeParts, TypePartsNext DEF WalletInv, Sound, Prepaid, Amounts

-----------------------------------------------------------------------------
(* Usage and the LLM proxy.                                                *)

LEMMA AdmitSound ==
  ASSUME WalletInv, NEW x \in Usage \cup Request, NEW gate, Admit(x, gate)
  PROVE  Sound
<1>1. Amounts' /\ LedgerTyped' /\ Admin' /\ EditorRuns' /\ Outside' /\ History' /\ admitted' \subseteq Usage \cup Request
  BY TypeParts DEF WalletInv, Admit, wallet, OnlyMeters, Amounts, LedgerTyped, Admin, EditorRuns, Outside, History
<1>2. ChargedRunsExist'  BY DEF WalletInv, Admit, OnlyMeters, ChargedRunsExist
<1>3. QED  BY <1>1, <1>2, TypeParts, TypePartsNext DEF WalletInv, Admit, wallet, OnlyMeters, Sound, Prepaid, Amounts

\* A charge that is new on the ledger, and takes a number of credits down to zero or less.
LEMMA ChargeSound ==
  ASSUME WalletInv, NEW type, NEW x, NEW whole \in Nat, NEW lowest \in Int, creditFloor <= lowest, lowest <= 0,
         Id(type, x) \in Entry, type # "GENERATION_CONSUMPTION",
         ~Recorded(type, x), Insert(type, x, -whole), Take(whole, lowest),
         remainder' \in 0..MicrosPerCredit - 1, UNCHANGED admitted, OnlyMeters
  PROVE  Sound
<1>1. Admin' /\ EditorRuns' /\ Outside' /\ History' /\ admitted' \subseteq Usage \cup Request
  BY TypeParts DEF WalletInv, OnlyMeters, Admin, EditorRuns, Outside, History
<1>2. creditFloor \in Int  BY Costs, TypeParts DEF WalletInv, Admin
<1>3. /\ balance' \in Int /\ subBalance' \in Nat
      /\ balance' < balance => balance' >= lowest
      /\ Prepaid /\ lowest = 0 => 0 <= subBalance' /\ subBalance' <= balance'
  BY TakeAmounts, TypeParts DEF WalletInv, Admin
<1>4. Amounts'  BY <1>3 DEF Amounts
<1>5. LedgerTyped'  BY InsertTyped, TypeParts DEF WalletInv
<1>6. ChargedRunsExist'  BY InsertOther DEF WalletInv, OnlyMeters
<1>7. QED
  BY <1>1, <1>2, <1>3, <1>4, <1>5, <1>6, TypePartsNext DEF WalletInv, OnlyMeters, Sound, Prepaid

LEMMA ChargeUsageSound ==
  ASSUME WalletInv, NEW u \in Usage, ChargeUsage(u)
  PROVE  Sound
<1> DEFINE accrued == remainder + UsageMicros[u]
           whole == accrued \div MicrosPerCredit
<1>1. /\ ~Recorded("USAGE_CONSUMPTION", u) /\ Insert("USAGE_CONSUMPTION", u, -whole) /\ Take(whole, creditFloor)
      /\ remainder' = accrued % MicrosPerCredit /\ UNCHANGED admitted /\ OnlyMeters
  BY DEF ChargeUsage
<1>2. whole \in Nat /\ accrued % MicrosPerCredit \in 0..MicrosPerCredit - 1
  BY SplitCharge, TypeParts DEF WalletInv, Amounts
<1>3. creditFloor \in Int /\ creditFloor <= 0  BY Costs, TypeParts DEF WalletInv, Admin
<1>4. Id("USAGE_CONSUMPTION", u) \in Entry  BY DEF Entry, Id
<1> HIDE DEF accrued, whole
<1>5. QED  BY <1>1, <1>2, <1>3, <1>4, ChargeSound

LEMMA ChargeRequestSound ==
  ASSUME WalletInv, NEW q \in Request, ChargeRequest(q)
  PROVE  Sound
<1>1. RequestCost[q] \in Nat  BY CreditsAssumption
<1>2. creditFloor \in Int /\ creditFloor <= 0  BY Costs, TypeParts DEF WalletInv, Admin
<1>3. Id("LLM_PROXY_CONSUMPTION", q) \in Entry  BY DEF Entry, Id
<1>4. remainder' \in 0..MicrosPerCredit - 1  BY TypeParts DEF WalletInv, Amounts, ChargeRequest
<1>5. QED  BY <1>1, <1>2, <1>3, <1>4, ChargeSound DEF ChargeRequest

-----------------------------------------------------------------------------
(* Stripe and the administrator.                                           *)

\* What a step of Stripe leaves alone.
LEMMA StripeKeeps ==
  ASSUME WalletInv, OnlyStripe
  PROVE  /\ EditorRuns' /\ History' /\ admitted' \subseteq Usage \cup Request
         /\ creditFloor' \in Floors \cup {0} /\ unlimited' \in BOOLEAN /\ changes' \in 0..MaxAdmin
         /\ UNCHANGED <<creditFloor, remainder, run>>
  BY TypeParts DEF WalletInv, OnlyStripe, EditorRuns, History, Admin

LEMMA SettleSound ==
  ASSUME WalletInv, NEW x \in Purchase \cup Refund \cup Invoice, Settle(x)
  PROVE  Sound
<1>1. Amounts' /\ LedgerTyped' /\ Admin' /\ Outside' /\ ChargedRunsExist'
  BY TypeParts, StripeKeeps DEF WalletInv, Settle, Amounts, LedgerTyped, Admin, Outside, ChargedRunsExist
<1>2. QED  BY <1>1, TypeParts, TypePartsNext, StripeKeeps DEF WalletInv, Settle, Sound, Prepaid, Amounts

LEMMA SyncSound ==
  ASSUME WalletInv, NEW active \in BOOLEAN, Sync(active)
  PROVE  Sound
<1>1. Amounts' /\ LedgerTyped' /\ Admin' /\ Outside' /\ ChargedRunsExist'
  BY TypeParts, StripeKeeps DEF WalletInv, Sync, Amounts, LedgerTyped, Admin, Outside, ChargedRunsExist
<1>2. QED  BY <1>1, TypeParts, TypePartsNext, StripeKeeps DEF WalletInv, Sync, Sound, Prepaid, Amounts

LEMMA GrantTopupSound ==
  ASSUME WalletInv, NEW p \in Purchase, GrantTopup(p)
  PROVE  Sound
<1>1. Amounts' /\ Admin' /\ Outside'
  BY TypeParts, StripeKeeps, Costs DEF WalletInv, GrantTopup, Amounts, Admin, Outside
<1>2. LedgerTyped'
  <2>1. Id("TOPUP_PURCHASE", p) \in Entry  BY DEF Entry, Id
  <2>2. QED  BY <2>1, Costs, InsertTyped, TypeParts DEF WalletInv, GrantTopup
<1>3. ChargedRunsExist'  BY InsertOther, StripeKeeps DEF WalletInv, GrantTopup
<1>4. QED
  BY <1>1, <1>2, <1>3, TypeParts, TypePartsNext, StripeKeeps, Costs DEF WalletInv, GrantTopup, Sound, Prepaid, Amounts

\* Revoking no more than there is leaves a wallet that owes nothing, and the plan's part in it.
LEMMA RevokeAmounts ==
  ASSUME Amounts, NEW applied \in Nat, applied <= balance, Revoke(applied)
  PROVE  /\ balance' \in Nat /\ subBalance' \in Nat
         /\ subBalance <= balance => subBalance' <= balance'
<1>1. balance' = balance - applied /\ balance \in Nat /\ subBalance \in Nat  BY DEF Revoke, Amounts
<1>2. PICK lost \in Nat : /\ subBalance' = Greatest(subBalance - lost, 0)
                          /\ subBalance <= balance => lost >= applied - (balance - subBalance)
  BY <1>1 DEF Revoke, Greatest
<1>3. QED  BY <1>1, <1>2 DEF Greatest

LEMMA RevokeTopupSound ==
  ASSUME WalletInv, NEW r \in Refund, RevokeTopup(r)
  PROVE  Sound
<1> DEFINE applied == Least(balance, RefundCredits[r])
<1>1. /\ OnlyStripe /\ UNCHANGED <<subscribed, settled>> /\ ~Recorded("TOPUP_REFUND", r)
      /\ applied > 0 /\ Insert("TOPUP_REFUND", r, -applied) /\ Revoke(applied)
  BY DEF RevokeTopup
<1>2. Admin' /\ Outside'  BY <1>1, TypeParts, StripeKeeps DEF WalletInv, Admin, Outside
<1>3. creditFloor \in Int /\ creditFloor <= 0 /\ balance \in Int  BY Costs, TypeParts DEF WalletInv, Admin, Amounts
<1>4. applied \in Nat /\ applied <= balance
  <2>1. RefundCredits[r] \in Int  BY CreditsAssumption
  <2>2. QED  BY <2>1, <1>1, <1>3 DEF Least
<1> HIDE DEF applied
<1>5. balance' \in Nat /\ subBalance' \in Nat /\ (subBalance <= balance => subBalance' <= balance')
  BY <1>1, <1>4, RevokeAmounts, TypeParts DEF WalletInv
<1>6. Amounts'  BY <1>5, <1>1, TypeParts, StripeKeeps DEF WalletInv, Amounts
<1>7. LedgerTyped'
  <2>1. Id("TOPUP_REFUND", r) \in Entry  BY DEF Entry, Id
  <2>2. QED  BY <2>1, <1>1, <1>4, InsertTyped, TypeParts DEF WalletInv
<1>8. ChargedRunsExist'  BY <1>1, InsertOther, StripeKeeps DEF WalletInv
<1>9. QED
  BY <1>1, <1>2, <1>3, <1>5, <1>6, <1>7, <1>8, TypePartsNext, StripeKeeps DEF WalletInv, Sound, Prepaid

LEMMA GrantSubscriptionSound ==
  ASSUME WalletInv, NEW i \in Invoice, GrantSubscription(i)
  PROVE  Sound
<1> DEFINE grant == [id |-> Id("SUBSCRIPTION_GRANT", i), amount |-> PlanCredits]
           reset == [id |-> Id("SUBSCRIPTION_RESET", i), amount |-> -subBalance]
<1>1. /\ balance' = Greatest(balance - subBalance, 0) + PlanCredits /\ subBalance' = PlanCredits
      /\ ledger' = ledger \cup {grant} \cup (IF subBalance > 0 THEN {reset} ELSE {})
      /\ ~Recorded("SUBSCRIPTION_GRANT", i) /\ OnlyStripe /\ UNCHANGED <<subscribed, settled>>
  BY DEF GrantSubscription
<1>2. Amounts' /\ Admin' /\ Outside' /\ balance' >= PlanCredits
  BY <1>1, TypeParts, StripeKeeps, Costs DEF WalletInv, Amounts, Admin, Outside, Greatest
<1>3. creditFloor \in Int /\ creditFloor <= 0  BY Costs, TypeParts DEF WalletInv, Admin
<1>4. grant.id \in Entry /\ reset.id \in Entry /\ grant.amount \in Int /\ reset.amount \in Int
  BY TypeParts, Costs DEF WalletInv, Amounts, Entry, Id
<1>5. grant.id # reset.id /\ \A row \in ledger : row.id # grant.id
  BY <1>1 DEF Recorded, Id
<1>6. LedgerTyped'
  <2> HIDE DEF grant, reset
  <2>1. CASE subBalance > 0
    <3>1. \A row \in ledger : row.id # reset.id
      BY <2>1 DEF GrantSubscription, Recorded, reset, Id
    <3>2. ledger' = ledger \cup {grant, reset}  BY <1>1, <2>1
    <3>3. QED  BY <3>1, <3>2, <1>4, <1>5, TypeParts DEF WalletInv, LedgerTyped
  <2>2. CASE ~(subBalance > 0)
    <3>1. ledger' = ledger \cup {grant}  BY <1>1, <2>2
    <3>2. QED  BY <3>1, <1>4, <1>5, TypeParts DEF WalletInv, LedgerTyped
  <2>3. QED  BY <2>1, <2>2
<1>7. ChargedRunsExist'
  <2>1. \A row \in ledger' : row \in ledger \/ row.id.type # "GENERATION_CONSUMPTION"
    BY <1>1 DEF Id
  <2>2. QED  BY <2>1, <1>1, StripeKeeps DEF WalletInv, ChargedRunsExist
<1>8. QED
  BY <1>1, <1>2, <1>3, <1>6, <1>7, TypePartsNext, StripeKeeps, Costs DEF WalletInv, Sound, Prepaid

LEMMA AdminSound ==
  ASSUME WalletInv, NEW floor \in Floors \cup {creditFloor}, creditFloor' = floor, unlimited' \in BOOLEAN, OnlyAdmin
  PROVE  Sound
<1>1. UNCHANGED <<balance, subBalance, remainder, subscribed, ledger, batch, run, admitted, settled, taken>>
      /\ changes < MaxAdmin /\ changes' = changes + 1
  BY DEF OnlyAdmin, wallet
<1>2. Admin'  BY <1>1, TypeParts, Costs DEF WalletInv, Admin
<1>3. Amounts' /\ LedgerTyped' /\ EditorRuns' /\ Outside' /\ History' /\ admitted' \subseteq Usage \cup Request /\ ChargedRunsExist'
  BY <1>1, TypeParts DEF WalletInv, Amounts, LedgerTyped, EditorRuns, Outside, History, ChargedRunsExist
<1>4. Floors \subseteq {0} /\ Prepaid => Prepaid'  BY <1>1 DEF Prepaid
<1>5. ~(balance' < balance)  BY <1>1, TypeParts DEF WalletInv, Amounts
<1>6. QED  BY <1>2, <1>3, <1>4, <1>5, TypePartsNext DEF WalletInv, Sound

-----------------------------------------------------------------------------
(* Sums over the ledger.  MapThenSumSet takes the elements of a set out    *)
(* one by one; what it computes is found by taking a smallest subset that  *)
(* would be an exception.                                                  *)

\* How MapThenSumSet adds up the values w of a set S: h[s] is the sum over the subset s.
Pick(s) == CHOOSE x \in s : TRUE

IsSum(h, w, S) ==
    h = [s \in SUBSET S |-> IF s = {} THEN 0 ELSE w[Pick(s)] + h[s \ {Pick(s)}]]

LEMMA PickIn == ASSUME NEW s, s # {} PROVE Pick(s) \in s
  BY DEF Pick

\* A non-empty set of subsets of a finite set has a member without a smaller one.
LEMMA LeastSubset ==
  ASSUME NEW S, IsFiniteSet(S), NEW Q \in SUBSET SUBSET S, Q # {}
  PROVE  \E T \in Q : \A U \in Q : U \subseteq T => U = T
<1>1. IsWellFoundedOn(StrictSubsetOrdering(S), SUBSET S)
  BY FS_StrictSubsetOrderingWellFounded, FS_FiniteSubsetsOfFinite
<1>2. PICK T \in Q : \A U \in Q : <<U, T>> \notin StrictSubsetOrdering(S)
  BY <1>1, WFMin
<1>3. QED BY <1>2 DEF StrictSubsetOrdering

\* What the recursion says of one subset.
LEMMA SumStep ==
  ASSUME NEW S, NEW w, NEW h, IsSum(h, w, S), NEW T \in SUBSET S
  PROVE  h[T] = IF T = {} THEN 0 ELSE w[Pick(T)] + h[T \ {Pick(T)}]
  BY DEF IsSum

\* Two sums agree on the subsets they have in common.
LEMMA SumUnique ==
  ASSUME NEW S, IsFiniteSet(S), NEW R, NEW w, NEW v, NEW h, NEW g, IsSum(h, w, S), IsSum(g, v, R),
         S \subseteq R, \A x \in S : v[x] = w[x], NEW T \in SUBSET S
  PROVE  h[T] = g[T]
<1> DEFINE Q == {U \in SUBSET S : h[U] # g[U]}
<1> SUFFICES ASSUME Q # {} PROVE FALSE
  OBVIOUS
<1>0. Q \in SUBSET SUBSET S
  OBVIOUS
<1>1. PICK U \in Q : \A V \in Q : V \subseteq U => V = U
  <2> HIDE DEF Q
  <2>1. QED BY <1>0, LeastSubset
<1>2. h[U] = IF U = {} THEN 0 ELSE w[Pick(U)] + h[U \ {Pick(U)}]
  BY SumStep
<1>3. g[U] = IF U = {} THEN 0 ELSE v[Pick(U)] + g[U \ {Pick(U)}]
  <2>1. U \in SUBSET R
    OBVIOUS
  <2>2. QED BY <2>1, SumStep
<1>4. U # {}
  BY <1>2, <1>3
<1>5. Pick(U) \in U
  BY <1>4, PickIn
<1>6. h[U \ {Pick(U)}] = g[U \ {Pick(U)}]
  BY <1>1, <1>5
<1>7. QED BY <1>2, <1>3, <1>4, <1>5, <1>6

\* Every finite set has one.
LEMMA SumExists ==
  ASSUME NEW S, IsFiniteSet(S), NEW w
  PROVE  \E h : IsSum(h, w, S)
<1> DEFINE Q == {U \in SUBSET S : ~ \E h : IsSum(h, w, U)}
<1> SUFFICES ASSUME Q # {} PROVE FALSE
  OBVIOUS
<1>0. Q \in SUBSET SUBSET S
  OBVIOUS
<1>1. PICK T \in Q : \A V \in Q : V \subseteq T => V = T
  <2> HIDE DEF Q
  <2>1. QED BY <1>0, LeastSubset
<1> DEFINE sum(U) == CHOOSE h : IsSum(h, w, U)
           g == [s \in SUBSET T |-> IF s = {} THEN 0 ELSE w[Pick(s)] + sum(s \ {Pick(s)})[s \ {Pick(s)}]]
<1>2. ASSUME NEW U \in SUBSET T, U # T PROVE IsSum(sum(U), w, U)
  <2>1. \E h : IsSum(h, w, U)
    BY <1>1, <1>2
  <2>2. QED BY <2>1
<1>3. ASSUME NEW U \in SUBSET T, U # T PROVE g[U] = sum(U)[U]
  <2>1. sum(U)[U] = IF U = {} THEN 0 ELSE w[Pick(U)] + sum(U)[U \ {Pick(U)}]
    BY <1>2, <1>3, SumStep
  <2>2. CASE U = {}
    BY <2>1, <2>2
  <2>3. CASE U # {}
    <3>1. PICK V \in SUBSET T : V = U \ {Pick(U)}
      OBVIOUS
    <3>2. Pick(U) \in U
      BY <2>3, PickIn
    <3>3. IsSum(sum(V), w, V) /\ IsSum(sum(U), w, U)
      BY <1>2, <1>3, <3>1, <3>2
    <3>4. IsFiniteSet(V) /\ V \subseteq U
      BY <3>1, FS_Subset
    <3> HIDE DEF sum
    <3>5. sum(V)[V] = sum(U)[V]
      BY <3>3, <3>4, SumUnique
    <3>6. QED BY <2>1, <2>3, <3>1, <3>5
  <2>4. QED BY <2>2, <2>3
<1>4. IsSum(g, w, T)
  <2> HIDE DEF sum
  <2>1. ASSUME NEW s \in SUBSET T, s # {} PROVE g[s \ {Pick(s)}] = sum(s \ {Pick(s)})[s \ {Pick(s)}]
    <3>1. s \ {Pick(s)} \in SUBSET T /\ s \ {Pick(s)} # T
      BY <2>1, PickIn
    <3> HIDE DEF g
    <3>2. QED BY <3>1, <1>3
  <2>2. g = [s \in SUBSET T |-> IF s = {} THEN 0 ELSE w[Pick(s)] + g[s \ {Pick(s)}]]
    BY <2>1
  <2> HIDE DEF g
  <2>3. QED BY <2>2 DEF IsSum
<1>5. QED BY <1>4

\* Sums of integers are integers, and do not depend on the order: any element may be taken
\* out first.
LEMMA SumTakesOut ==
  ASSUME NEW S, IsFiniteSet(S), NEW w, \A x \in S : w[x] \in Int, NEW h, IsSum(h, w, S), NEW T \in SUBSET S
  PROVE  h[T] \in Int /\ \A x \in T : h[T] = w[x] + h[T \ {x}]
<1> DEFINE Q == {U \in SUBSET S : ~(h[U] \in Int /\ \A x \in U : h[U] = w[x] + h[U \ {x}])}
<1> SUFFICES ASSUME Q # {} PROVE FALSE
  OBVIOUS
<1>0. Q \in SUBSET SUBSET S
  OBVIOUS
<1>1. PICK U \in Q : \A V \in Q : V \subseteq U => V = U
  <2> HIDE DEF Q
  <2>1. QED BY <1>0, LeastSubset
<1>2. ASSUME NEW V \in SUBSET S, V \subseteq U, V # U
      PROVE  h[V] \in Int /\ \A x \in V : h[V] = w[x] + h[V \ {x}]
  BY <1>1, <1>2
<1>3. h[U] = IF U = {} THEN 0 ELSE w[Pick(U)] + h[U \ {Pick(U)}]
  <2>1. U \in SUBSET S
    OBVIOUS
  <2> HIDE DEF Q
  <2>2. QED BY <2>1, SumStep
<1>4. U # {}
  BY <1>1, <1>3
<1>5. PICK c \in U : c = Pick(U)
  BY <1>4, PickIn
<1>6. h[U] = w[c] + h[U \ {c}] /\ w[c] \in Int /\ h[U \ {c}] \in Int
  BY <1>2, <1>3, <1>4, <1>5
<1>7. ASSUME NEW x \in U PROVE h[U] = w[x] + h[U \ {x}]
  <2>1. CASE x = c
    BY <1>6, <2>1
  <2>2. CASE x # c
    <3>1. PICK V \in SUBSET S : V = U \ {c, x}
      OBVIOUS
    <3>2. h[U \ {c}] = w[x] + h[V]
      <4>1. (U \ {c}) \ {x} = V
        BY <3>1
      <4>2. QED BY <1>2, <2>2, <4>1
    <3>3. h[U \ {x}] = w[c] + h[V]
      <4>1. (U \ {x}) \ {c} = V
        BY <3>1
      <4>2. QED BY <1>2, <2>2, <4>1
    <3>4. h[V] \in Int /\ w[x] \in Int
      BY <1>2, <3>1
    <3>5. QED BY <1>6, <3>2, <3>3, <3>4
  <2>3. QED BY <2>1, <2>2
<1>8. h[U] \in Int
  BY <1>6
<1>9. QED
  <2> HIDE DEF Q
  <2>1. U \notin Q
    BY <1>7, <1>8 DEF Q
  <2>2. QED BY <1>1, <2>1

\* What adding up over a set that grows by one element comes to.
LEMMA SumGrows ==
  ASSUME NEW S, IsFiniteSet(S), NEW x, x \notin S, NEW R, R = S \cup {x}, NEW w, \A y \in R : w[y] \in Int, NEW v,
         \A y \in S : v[y] = w[y],
         NEW h, IsSum(h, v, S), NEW g, IsSum(g, w, R)
  PROVE  h[S] \in Int /\ g[R] = w[x] + h[S]
<1>1. IsFiniteSet(R) /\ x \in R /\ R \in SUBSET R
  BY FS_AddElement
<1>2. ASSUME NEW T \in SUBSET R PROVE g[T] \in Int /\ \A y \in T : g[T] = w[y] + g[T \ {y}]
  BY <1>1, SumTakesOut
<1>3. R \ {x} = S
  OBVIOUS
<1>4. h[S] = g[S]
  BY SumUnique
<1>5. S \in SUBSET R
  OBVIOUS
<1>6. QED BY <1>1, <1>2, <1>3, <1>4, <1>5

LEMMA AmountIsSum ==
  ASSUME NEW S, IsFiniteSet(S)
  PROVE  \E h : IsSum(h, [row \in S |-> row.amount], S) /\ AmountOf(S) = h[S]
<1> DEFINE w == [row \in S |-> row.amount]
           Sums(g) == g = [s \in SUBSET S |-> IF s = {} THEN 0
                           ELSE (CHOOSE x \in s : TRUE).amount + g[s \ {CHOOSE x \in s : TRUE}]]
           h == CHOOSE g : Sums(g)
<1>1. AmountOf(S) = h[S]
  BY DEF AmountOf, MapThenSumSet, MapThenFoldSet
<1>2. ASSUME NEW g PROVE IsSum(g, w, S) <=> Sums(g)
  <2>1. ASSUME NEW s \in SUBSET S, s # {} PROVE w[Pick(s)] = (CHOOSE x \in s : TRUE).amount
    BY <2>1, PickIn DEF Pick
  <2>2. QED BY <2>1 DEF IsSum, Pick
<1>3. Sums(h)
  <2>1. PICK g : IsSum(g, w, S)
    BY SumExists
  <2>2. Sums(g)
    BY <1>2, <2>1
  <2> HIDE DEF Sums
  <2>3. QED BY <2>2
<1>4. QED BY <1>1, <1>2, <1>3

\* The cost of the usage that rows are for, as UsageAtTrueCost sums it.
CostOf(rows) == MapThenSumSet(LAMBDA row : UsageMicros[row.id.of], rows)

LEMMA CostIsSum ==
  ASSUME NEW S, IsFiniteSet(S)
  PROVE  \E h : IsSum(h, [row \in S |-> UsageMicros[row.id.of]], S) /\ CostOf(S) = h[S]
<1> DEFINE w == [row \in S |-> UsageMicros[row.id.of]]
           Sums(g) == g = [s \in SUBSET S |-> IF s = {} THEN 0
                           ELSE UsageMicros[(CHOOSE x \in s : TRUE).id.of] + g[s \ {CHOOSE x \in s : TRUE}]]
           h == CHOOSE g : Sums(g)
<1>1. CostOf(S) = h[S]
  BY DEF CostOf, MapThenSumSet, MapThenFoldSet
<1>2. ASSUME NEW g PROVE IsSum(g, w, S) <=> Sums(g)
  <2>1. ASSUME NEW s \in SUBSET S, s # {} PROVE w[Pick(s)] = UsageMicros[(CHOOSE x \in s : TRUE).id.of]
    BY <2>1, PickIn DEF Pick
  <2>2. QED BY <2>1 DEF IsSum, Pick
<1>3. Sums(h)
  <2>1. PICK g : IsSum(g, w, S)
    BY SumExists
  <2>2. Sums(g)
    BY <1>2, <2>1
  <2> HIDE DEF Sums
  <2>3. QED BY <2>2
<1>4. QED BY <1>1, <1>2, <1>3

\* One more row adds its amount, and its usage's cost.
LEMMA AmountGrows ==
  ASSUME NEW S, IsFiniteSet(S), NEW new, new \notin S, \A row \in S \cup {new} : row.amount \in Int
  PROVE  AmountOf(S) \in Int /\ AmountOf(S \cup {new}) = AmountOf(S) + new.amount
<1> DEFINE R == S \cup {new}
           w == [row \in R |-> row.amount]
           v == [row \in S |-> row.amount]
<1>1. IsFiniteSet(R)
  BY FS_AddElement
<1>2. PICK h : IsSum(h, v, S) /\ AmountOf(S) = h[S]
  BY AmountIsSum
<1>3. PICK g : IsSum(g, w, R) /\ AmountOf(R) = g[R]
  <2> HIDE DEF R
  <2>1. QED BY <1>1, AmountIsSum
<1>4. (\A row \in R : w[row] \in Int) /\ w[new] = new.amount
      /\ \A row \in S : v[row] = w[row]
  OBVIOUS
<1> HIDE DEF w, v
<1>5. h[S] \in Int /\ g[R] = w[new] + h[S]
  <2>1. R = S \cup {new}
    OBVIOUS
  <2> HIDE DEF R
  <2>2. QED BY <2>1, <1>2, <1>3, <1>4, SumGrows
<1>6. QED BY <1>2, <1>3, <1>4, <1>5

LEMMA AmountTyped ==
  ASSUME NEW S, IsFiniteSet(S), \A row \in S : row.amount \in Int
  PROVE  AmountOf(S) \in Int
<1> DEFINE w == [row \in S |-> row.amount]
<1>1. PICK h : IsSum(h, w, S) /\ AmountOf(S) = h[S]
  BY AmountIsSum
<1>2. \A row \in S : w[row] \in Int
  OBVIOUS
<1>3. S \in SUBSET S
  OBVIOUS
<1> HIDE DEF w
<1>4. QED BY <1>1, <1>2, <1>3, SumTakesOut

LEMMA CostGrows ==
  ASSUME NEW S, IsFiniteSet(S), NEW new, new \notin S, \A row \in S \cup {new} : UsageMicros[row.id.of] \in Int
  PROVE  CostOf(S) \in Int /\ CostOf(S \cup {new}) = CostOf(S) + UsageMicros[new.id.of]
<1> DEFINE R == S \cup {new}
           w == [row \in R |-> UsageMicros[row.id.of]]
           v == [row \in S |-> UsageMicros[row.id.of]]
<1>1. IsFiniteSet(R)
  BY FS_AddElement
<1>2. PICK h : IsSum(h, v, S) /\ CostOf(S) = h[S]
  BY CostIsSum
<1>3. PICK g : IsSum(g, w, R) /\ CostOf(R) = g[R]
  <2> HIDE DEF R
  <2>1. QED BY <1>1, CostIsSum
<1>4. (\A row \in R : w[row] \in Int) /\ w[new] = UsageMicros[new.id.of]
      /\ \A row \in S : v[row] = w[row]
  OBVIOUS
<1> HIDE DEF w, v
<1>5. h[S] \in Int /\ g[R] = w[new] + h[S]
  <2>1. R = S \cup {new}
    OBVIOUS
  <2> HIDE DEF R
  <2>2. QED BY <2>1, <1>2, <1>3, <1>4, SumGrows
<1>6. QED BY <1>2, <1>3, <1>4, <1>5

\* An empty ledger sums to nothing.
LEMMA NothingSums == AmountOf({}) = 0 /\ CostOf({}) = 0
<1>1. IsFiniteSet({})
  BY FS_EmptySet
<1>2. PICK h : IsSum(h, [row \in {} |-> row.amount], {}) /\ AmountOf({}) = h[{}]
  BY <1>1, AmountIsSum
<1>3. PICK g : IsSum(g, [row \in {} |-> UsageMicros[row.id.of]], {}) /\ CostOf({}) = g[{}]
  BY <1>1, CostIsSum
<1>4. QED BY <1>2, <1>3 DEF IsSum

-----------------------------------------------------------------------------
(* The induction step.                                                     *)

LEMMA InitSound == Init => WalletInv /\ Prepaid
<1> SUFFICES ASSUME Init PROVE WalletInv /\ Prepaid  OBVIOUS
<1>1. Amounts  BY Costs DEF Init, Amounts
<1>2. LedgerTyped /\ ChargedRunsExist  BY DEF Init, LedgerTyped, ChargedRunsExist
<1>3. Outside /\ admitted \subseteq Usage \cup Request  BY DEF Init, Outside
<1>4. Admin
  <2>1. 0 \in 0..MaxAdmin  BY Costs
  <2>2. QED  BY <2>1 DEF Init, Admin
<1>5. EditorRuns /\ History  BY DEF Init, EditorRuns, History
<1>6. QED  BY <1>1, <1>2, <1>3, <1>4, <1>5, TypeParts, Costs DEF Init, WalletInv, Prepaid

LEMMA StepSound == WalletInv /\ [Next]_vars => WalletInv' /\ (UNCHANGED vars \/ Sound)
<1> SUFFICES ASSUME WalletInv, [Next]_vars PROVE WalletInv' /\ (UNCHANGED vars \/ Sound)  OBVIOUS
<1>1. CASE UNCHANGED vars
  <2>1. TypeOK'  BY <1>1 DEF WalletInv, TypeOK, vars, wallet
  <2>2. ChargedRunsExist'  BY <1>1 DEF WalletInv, ChargedRunsExist, vars
  <2>3. QED  BY <1>1, <2>1, <2>2 DEF WalletInv
<1>2. CASE Next
  <2>1. Sound
    <3>1. ASSUME NEW b \in Batch, RunsGate(b) \/ Dispatch(b) \/ \E g \in Runs[b] : StartRun(b, g)  PROVE Sound
      BY <3>1, RunsGateSound, DispatchSound, StartRunSound
    <3>2. ASSUME NEW g \in Run, FailRun(g) \/ RefundRun(g)  PROVE Sound
      BY <3>2, FailRunSound, RefundRunSound
    <3>3. ASSUME NEW u \in Usage, AdmitUsage(u) \/ ChargeUsage(u)  PROVE Sound
      BY <3>3, AdmitSound, ChargeUsageSound DEF AdmitUsage
    <3>4. ASSUME NEW q \in Request, AdmitRequest(q) \/ ChargeRequest(q)  PROVE Sound
      BY <3>4, AdmitSound, ChargeRequestSound DEF AdmitRequest
    <3>5. ASSUME NEW floor \in Floors, UpdateCreditFloor(floor)  PROVE Sound
      BY <3>5, AdminSound, TypeParts DEF UpdateCreditFloor, WalletInv, Admin
    <3>6. ASSUME NEW exempt \in Exemptions, UpdateUnlimitedCredits(exempt)  PROVE Sound
      BY <3>6, AdminSound, CreditsAssumption DEF UpdateUnlimitedCredits
    <3>7. QED
      BY <1>2, <3>1, <3>2, <3>3, <3>4, <3>5, <3>6, SettleSound, SyncSound, GrantTopupSound, RevokeTopupSound,
         GrantSubscriptionSound DEF Next
  <2>2. QED  BY <2>1 DEF Sound
<1>3. QED  BY <1>1, <1>2

-----------------------------------------------------------------------------
(* What a step does to the ledger.  Only seven operations write a row.     *)

Still == UNCHANGED <<balance, remainder, ledger, taken>>

\* A run is charged when it starts, if the wallet covers it.
ChargeRun(g) ==
    /\ run[g] = "none"
    /\ unlimited \/ balance >= RunCost
    /\ Insert("GENERATION_CONSUMPTION", g, -RunCost) /\ Take(RunCost, balance - RunCost)
    /\ taken' = [taken EXCEPT ![g] = balance - balance']
    /\ UNCHANGED remainder

LEMMA WhoWrites ==
  ASSUME [Next]_vars
  PROVE  \/ Still
         \/ \E g \in Run : ChargeRun(g) \/ RefundRun(g)
         \/ \E u \in Usage : ChargeUsage(u)
         \/ \E q \in Request : ChargeRequest(q)
         \/ \E p \in Purchase : GrantTopup(p)
         \/ \E r \in Refund : RevokeTopup(r)
         \/ \E i \in Invoice : GrantSubscription(i)
<1>1. ASSUME NEW b \in Batch, RunsGate(b) \/ Dispatch(b) PROVE Still
  BY <1>1 DEF RunsGate, Dispatch, OnlyRuns, Still
<1>2. ASSUME NEW b \in Batch, NEW g \in Runs[b], StartRun(b, g)
      PROVE  Still \/ (g \in Run /\ ChargeRun(g))
  <2>1. CASE unlimited \/ balance >= RunCost
    BY <1>2, <2>1, RunsAreRuns DEF StartRun, OnlyRuns, ChargeRun
  <2>2. CASE ~(unlimited \/ balance >= RunCost)
    BY <1>2, <2>2 DEF StartRun, OnlyRuns, Still
  <2>3. QED BY <2>1, <2>2
<1>3. ASSUME NEW g \in Run, FailRun(g) PROVE Still
  BY <1>3 DEF FailRun, OnlyRuns, Still
<1>4. ASSUME NEW x, AdmitUsage(x) \/ AdmitRequest(x) PROVE Still
  BY <1>4 DEF AdmitUsage, AdmitRequest, Admit, wallet, OnlyMeters, Still
<1>5. ASSUME NEW x, Settle(x) \/ Sync(x) PROVE Still
  BY <1>5 DEF Settle, Sync, OnlyStripe, Still
<1>6. ASSUME NEW x, UpdateCreditFloor(x) \/ UpdateUnlimitedCredits(x) PROVE Still
  BY <1>6 DEF UpdateCreditFloor, UpdateUnlimitedCredits, OnlyAdmin, wallet, Still
<1>7. CASE UNCHANGED vars
  BY <1>7 DEF vars, wallet, Still
<1>8. QED BY <1>1, <1>2, <1>3, <1>4, <1>5, <1>6, <1>7 DEF Next

\* A charge is for something the ledger has no row of yet.
LEMMA ChargeRunIsNew ==
  ASSUME WalletInv, NEW g \in Run, ChargeRun(g)
  PROVE  ~Recorded("GENERATION_CONSUMPTION", g)
  BY DEF WalletInv, ChargedRunsExist, ChargeRun, Recorded, Id

\* Posting one new row: it was not in the ledger, and what it is for is on record now.
LEMMA PostedRow ==
  ASSUME NEW type, NEW of, NEW amount, ~Recorded(type, of), Insert(type, of, amount)
  PROVE  \E new : /\ new = [id |-> Id(type, of), amount |-> amount]
                  /\ new \notin ledger /\ ledger' = ledger \cup {new}
                  /\ new.id = Id(type, of) /\ new.id.type = type /\ new.id.of = of /\ new.amount = amount
<1> DEFINE new == [id |-> Id(type, of), amount |-> amount]
<1>1. new \notin ledger
  BY DEF Recorded
<1>2. QED BY <1>1 DEF Insert, Id

-----------------------------------------------------------------------------
(* Usage at true cost.                                                     *)

\* The ledger is finite, and its usage rows and the carry are the usage's cost.
TrueCostInv == WalletInv /\ IsFiniteSet(ledger) /\ UsageAtTrueCost

LEMMA UsageCost == UsageAtTrueCost <=> CostOf(UsageRows) = remainder - MicrosPerCredit * AmountOf(UsageRows)
  BY DEF UsageAtTrueCost, CostOf

LEMMA UsageCostNext ==
  UsageAtTrueCost' <=> CostOf(UsageRows') = remainder' - MicrosPerCredit * AmountOf(UsageRows')
  BY DEF UsageAtTrueCost, CostOf, AmountOf, MapThenSumSet, MapThenFoldSet

\* Rows of another kind leave usage alone.
LEMMA OtherRows ==
  ASSUME IsFiniteSet(ledger), UsageAtTrueCost, UNCHANGED remainder, NEW new, IsFiniteSet(new),
         ledger' = ledger \cup new, \A row \in new : row.id.type # "USAGE_CONSUMPTION"
  PROVE  IsFiniteSet(ledger') /\ UsageAtTrueCost'
<1>1. IsFiniteSet(ledger')
  BY FS_Union
<1>2. UsageRows' = UsageRows
  BY DEF UsageRows
<1>3. QED BY <1>1, <1>2, UsageCost, UsageCostNext

\* What is owed before and after a charge: the carry and the new whole credits are the old
\* carry and the cost.
LEMMA SplitExact ==
  ASSUME NEW n \in Int, NEW d \in Int, d > 0, NEW q \in Int, q = n \div d, NEW r \in Int, r = n % d
  PROVE  n = d * q + r
  OBVIOUS

LEMMA Distributes ==
  ASSUME NEW m \in Int, NEW a \in Int, NEW k \in Int
  PROVE  m * (a - k) = m * a - m * k /\ m * a \in Int /\ m * k \in Int
  OBVIOUS

LEMMA ChargeKeepsTrueCost ==
  ASSUME TrueCostInv, NEW u \in Usage, ChargeUsage(u)
  PROVE  IsFiniteSet(ledger') /\ UsageAtTrueCost'
<1> DEFINE accrued == remainder + UsageMicros[u]
           whole == accrued \div MicrosPerCredit
           S == UsageRows
<1>1. /\ ~Recorded("USAGE_CONSUMPTION", u) /\ Insert("USAGE_CONSUMPTION", u, -whole)
      /\ remainder' = accrued % MicrosPerCredit
  BY DEF ChargeUsage
<1>2. UsageMicros[u] \in Nat /\ MicrosPerCredit \in Nat \ {0} /\ remainder \in Nat /\ accrued \in Nat
  BY CreditsAssumption, TypeParts DEF TrueCostInv, WalletInv, Amounts
<1>3. accrued = MicrosPerCredit * whole + remainder' /\ whole \in Nat /\ remainder' \in Nat
  <2>1. whole \in Nat /\ accrued % MicrosPerCredit \in Nat
    BY <1>2
  <2>2. whole = accrued \div MicrosPerCredit
    OBVIOUS
  <2> HIDE DEF whole, accrued
  <2>3. QED BY <1>1, <1>2, <2>1, <2>2, SplitExact
<1> HIDE DEF accrued, whole
<1>4. PICK new : /\ new \notin ledger /\ ledger' = ledger \cup {new}
                 /\ new.id.type = "USAGE_CONSUMPTION" /\ new.id.of = u /\ new.amount = -whole
  BY <1>1, PostedRow
<1>5. IsFiniteSet(ledger') /\ IsFiniteSet(S)
  BY <1>4, FS_AddElement, FS_Subset DEF TrueCostInv, UsageRows
<1>6. UsageRows' = S \cup {new} /\ new \notin S
  BY <1>4 DEF UsageRows
<1>7. \A row \in S \cup {new} : row.amount \in Int /\ UsageMicros[row.id.of] \in Int
  <2>1. \A row \in S : row.amount \in Int /\ row.id.of \in Usage
    BY TypeParts DEF TrueCostInv, WalletInv, LedgerTyped, Entry, UsageRows
  <2>2. \A x \in Usage : UsageMicros[x] \in Int
    BY CreditsAssumption
  <2>3. QED BY <2>1, <2>2, <1>3, <1>4
<1> HIDE DEF S
<1>8. AmountOf(S) \in Int /\ AmountOf(S \cup {new}) = AmountOf(S) + new.amount
  BY <1>5, <1>6, <1>7, AmountGrows
<1>9. CostOf(S) \in Int /\ CostOf(S \cup {new}) = CostOf(S) + UsageMicros[u]
  BY <1>4, <1>5, <1>6, <1>7, CostGrows
<1>10. CostOf(S) = remainder - MicrosPerCredit * AmountOf(S)
  BY UsageCost DEF TrueCostInv, S
<1>11. CostOf(S \cup {new}) = remainder' - MicrosPerCredit * AmountOf(S \cup {new})
  <2>1. AmountOf(S) + new.amount = AmountOf(S) - whole
    BY <1>3, <1>4, <1>8
  <2>2. CostOf(S) + UsageMicros[u] = remainder' - MicrosPerCredit * (AmountOf(S) - whole)
    <3>1. remainder + UsageMicros[u] = MicrosPerCredit * whole + remainder'
      BY <1>3 DEF accrued
    <3>2. remainder \in Int /\ UsageMicros[u] \in Int /\ MicrosPerCredit \in Int /\ whole \in Int
          /\ remainder' \in Int /\ AmountOf(S) \in Int /\ CostOf(S) \in Int
      BY <1>2, <1>3, <1>8, <1>9
    <3> DEFINE posted == MicrosPerCredit * AmountOf(S)
               added == MicrosPerCredit * whole
               total == MicrosPerCredit * (AmountOf(S) - whole)
    <3>3. total = posted - added /\ posted \in Int /\ added \in Int
      BY <3>2, Distributes
    <3>4. CostOf(S) = remainder - posted /\ remainder + UsageMicros[u] = added + remainder'
      BY <3>1, <1>10
    <3> HIDE DEF posted, added, total
    <3>5. CostOf(S) + UsageMicros[u] = (remainder - posted) + UsageMicros[u]
      BY <3>2, <3>3, <3>4
    <3>6. @ = (added + remainder') - posted
      BY <3>2, <3>3, <3>4
    <3>7. @ = remainder' - total
      BY <3>2, <3>3
    <3>8. QED BY <3>5, <3>6, <3>7 DEF total
  <2>3. QED BY <2>1, <2>2, <1>8, <1>9
<1>12. QED
  BY <1>5, <1>6, <1>11, UsageCostNext

LEMMA TrueCostStep == TrueCostInv /\ [Next]_vars => TrueCostInv'
<1> SUFFICES ASSUME TrueCostInv, [Next]_vars PROVE IsFiniteSet(ledger') /\ UsageAtTrueCost'
  BY StepSound DEF TrueCostInv
<1>0. IsFiniteSet(ledger) /\ UsageAtTrueCost /\ WalletInv
  BY DEF TrueCostInv
<1>1. CASE Still
  <2>1. UsageRows' = UsageRows /\ remainder' = remainder /\ ledger' = ledger
    BY <1>1 DEF Still, UsageRows
  <2>2. QED BY <1>0, <2>1, UsageCost, UsageCostNext
<1>2. ASSUME NEW type, type # "USAGE_CONSUMPTION", NEW of, NEW amount, Insert(type, of, amount), UNCHANGED remainder
      PROVE  IsFiniteSet(ledger') /\ UsageAtTrueCost'
  <2> DEFINE new == [id |-> Id(type, of), amount |-> amount]
  <2>1. new.id.type = type /\ ledger' = ledger \cup {new} /\ IsFiniteSet({new})
    BY <1>2, FS_Singleton DEF Insert, Id
  <2> HIDE DEF new
  <2>2. QED BY <1>0, <1>2, <2>1, OtherRows
<1>3. ASSUME NEW g \in Run, ChargeRun(g) \/ RefundRun(g) PROVE IsFiniteSet(ledger') /\ UsageAtTrueCost'
  BY <1>2, <1>3 DEF ChargeRun, RefundRun, OnlyRuns
<1>4. ASSUME NEW q \in Request, ChargeRequest(q) PROVE IsFiniteSet(ledger') /\ UsageAtTrueCost'
  BY <1>2, <1>4 DEF ChargeRequest
<1>5. ASSUME NEW p \in Purchase, GrantTopup(p) PROVE IsFiniteSet(ledger') /\ UsageAtTrueCost'
  BY <1>2, <1>5 DEF GrantTopup, OnlyStripe
<1>6. ASSUME NEW r \in Refund, RevokeTopup(r) PROVE IsFiniteSet(ledger') /\ UsageAtTrueCost'
  BY <1>2, <1>6 DEF RevokeTopup, OnlyStripe
<1>7. ASSUME NEW i \in Invoice, GrantSubscription(i) PROVE IsFiniteSet(ledger') /\ UsageAtTrueCost'
  <2> DEFINE grant == [id |-> Id("SUBSCRIPTION_GRANT", i), amount |-> PlanCredits]
             reset == [id |-> Id("SUBSCRIPTION_RESET", i), amount |-> -subBalance]
             new == {grant} \cup (IF subBalance > 0 THEN {reset} ELSE {})
  <2>1. ledger' = ledger \cup new /\ UNCHANGED remainder
    BY <1>7 DEF GrantSubscription, OnlyStripe
  <2>2. \A row \in new : row.id.type # "USAGE_CONSUMPTION"
    BY DEF Id
  <2>3. IsFiniteSet(new)
    BY FS_Singleton, FS_EmptySet, FS_Union
  <2> HIDE DEF new
  <2>4. QED BY <1>0, <2>1, <2>2, <2>3, OtherRows
<1>8. QED
  BY <1>0, <1>1, <1>3, <1>4, <1>5, <1>6, <1>7, WhoWrites, ChargeKeepsTrueCost

LEMMA TrueCostInit == Init => TrueCostInv
<1> SUFFICES ASSUME Init PROVE TrueCostInv
  OBVIOUS
<1>1. WalletInv
  BY InitSound
<1>2. UsageRows = {} /\ IsFiniteSet(ledger) /\ remainder = 0
  BY FS_EmptySet DEF Init, UsageRows
<1>3. UsageAtTrueCost
  BY <1>2, NothingSums, UsageCost, Costs
<1>4. QED BY <1>1, <1>2, <1>3 DEF TrueCostInv

-----------------------------------------------------------------------------
(* Refunds of runs.                                                        *)

\* A run that is charged took its price, or nothing if the organization was exempt, until it
\* is refunded; a refund is of a charge.
Balanced(g) ==
    /\ Recorded("GENERATION_REFUND", g) => Recorded("GENERATION_CONSUMPTION", g)
    /\ Recorded("GENERATION_CONSUMPTION", g) /\ ~Recorded("GENERATION_REFUND", g) => taken[g] \in {0, RunCost}

BalancedInv == WalletInv /\ \A g \in Run : Balanced(g)

\* The rows and the history of a run.
SameRun(g) ==
    /\ Recorded("GENERATION_CONSUMPTION", g)' = Recorded("GENERATION_CONSUMPTION", g)
    /\ Recorded("GENERATION_REFUND", g)' = Recorded("GENERATION_REFUND", g)
    /\ taken'[g] = taken[g]

\* Rows about anything else than runs.
LEMMA OtherWork ==
  ASSUME UNCHANGED taken, NEW new, ledger' = ledger \cup new,
         \A row \in new : row.id.type \notin {"GENERATION_CONSUMPTION", "GENERATION_REFUND"}
  PROVE  \A g \in Run : SameRun(g)
<1> SUFFICES ASSUME NEW g \in Run PROVE SameRun(g)
  OBVIOUS
<1>1. ASSUME NEW type \in {"GENERATION_CONSUMPTION", "GENERATION_REFUND"}
      PROVE  Recorded(type, g)' = Recorded(type, g)
  BY DEF Recorded, Id
<1>2. QED BY <1>1 DEF SameRun

\* A row is on record, and no other row comes with it.
LEMMA OnRecord ==
  ASSUME NEW type, NEW of, NEW amount, Insert(type, of, amount)
  PROVE  /\ Recorded(type, of)'
         /\ \A kind, x : kind # type \/ x # of => (Recorded(kind, x)' <=> Recorded(kind, x))
<1> DEFINE new == [id |-> Id(type, of), amount |-> amount]
<1>1. ledger' = ledger \cup {new} /\ new.id = Id(type, of)
  BY DEF Insert
<1>2. \A kind, x : kind # type \/ x # of => Id(kind, x) # Id(type, of)
  <2>1. \A kind, x : Id(kind, x).type = kind /\ Id(kind, x).of = x
    BY DEF Id
  <2>2. QED BY <2>1
<1> HIDE DEF new
<1>3. QED BY <1>1, <1>2 DEF Recorded

\* Who writes about a run: its charge and its refund.
LEMMA WhoWritesRuns ==
  ASSUME BalancedInv, [Next]_vars
  PROVE  \/ \A g \in Run : SameRun(g)
         \/ \E g \in Run : ChargeRun(g) \/ RefundRun(g)
<1>1. CASE Still
  BY <1>1 DEF Still, SameRun, Recorded
<1>2. ASSUME NEW type, type \notin {"GENERATION_CONSUMPTION", "GENERATION_REFUND"}, NEW of, NEW amount,
             Insert(type, of, amount), UNCHANGED taken
      PROVE  \A g \in Run : SameRun(g)
  <2> DEFINE rows == {[id |-> Id(type, of), amount |-> amount]}
  <2>1. ledger' = ledger \cup rows
    BY <1>2 DEF Insert
  <2>2. \A row \in rows : row.id.type \notin {"GENERATION_CONSUMPTION", "GENERATION_REFUND"}
    BY <1>2 DEF Id
  <2> HIDE DEF rows
  <2>3. QED BY <1>2, <2>1, <2>2, OtherWork
<1>3. ASSUME NEW x, ChargeUsage(x) \/ ChargeRequest(x) PROVE \A g \in Run : SameRun(g)
  BY <1>2, <1>3 DEF ChargeUsage, ChargeRequest, OnlyMeters
<1>4. ASSUME NEW x, GrantTopup(x) \/ RevokeTopup(x) PROVE \A g \in Run : SameRun(g)
  BY <1>2, <1>4 DEF GrantTopup, RevokeTopup, OnlyStripe
<1>5. ASSUME NEW i \in Invoice, GrantSubscription(i) PROVE \A g \in Run : SameRun(g)
  <2> DEFINE grant == [id |-> Id("SUBSCRIPTION_GRANT", i), amount |-> PlanCredits]
             reset == [id |-> Id("SUBSCRIPTION_RESET", i), amount |-> -subBalance]
             new == {grant} \cup (IF subBalance > 0 THEN {reset} ELSE {})
  <2>1. ledger' = ledger \cup new /\ UNCHANGED taken
    BY <1>5 DEF GrantSubscription, OnlyStripe
  <2>2. \A row \in new : row.id.type \notin {"GENERATION_CONSUMPTION", "GENERATION_REFUND"}
    BY DEF Id
  <2> HIDE DEF new
  <2>3. QED BY <2>1, <2>2, OtherWork
<1>6. QED BY <1>1, <1>3, <1>4, <1>5, WhoWrites

\* A charge takes the price of the run, or nothing.
LEMMA RunCharged ==
  ASSUME BalancedInv, NEW g \in Run, ChargeRun(g)
  PROVE  /\ ~Recorded("GENERATION_CONSUMPTION", g) /\ ~Recorded("GENERATION_REFUND", g)
         /\ Recorded("GENERATION_CONSUMPTION", g)' /\ ~Recorded("GENERATION_REFUND", g)'
         /\ taken'[g] = (IF unlimited THEN 0 ELSE RunCost)
         /\ balance' = balance - taken'[g]
         /\ \A h \in Run : h # g => SameRun(h)
<1>1. balance \in Int /\ taken \in [Run -> Int] /\ RunCost \in Int /\ RunCost > 0
  BY Costs DEF BalancedInv, WalletInv, TypeOK
<1>2. ~Recorded("GENERATION_CONSUMPTION", g) /\ ~Recorded("GENERATION_REFUND", g)
  BY ChargeRunIsNew DEF BalancedInv, Balanced
<1>3. Recorded("GENERATION_CONSUMPTION", g)' /\ ~Recorded("GENERATION_REFUND", g)'
  BY <1>2, OnRecord DEF ChargeRun
<1>4. balance' = IF unlimited THEN balance ELSE balance - RunCost
  BY <1>1 DEF ChargeRun, Take, Greatest
<1>5. taken' = [taken EXCEPT ![g] = IF unlimited THEN 0 ELSE RunCost]
  BY <1>1, <1>4 DEF ChargeRun
<1>6. ASSUME NEW h \in Run, h # g PROVE SameRun(h)
  <2>1. \A type : Recorded(type, h)' <=> Recorded(type, h)
    BY <1>6, OnRecord DEF ChargeRun
  <2>2. taken'[h] = taken[h]
    BY <1>1, <1>5, <1>6
  <2>3. QED BY <2>1, <2>2 DEF SameRun, Recorded
<1>7. QED BY <1>1, <1>2, <1>3, <1>4, <1>5, <1>6

\* A refund gives the price back, or nothing.
LEMMA RunRefunded ==
  ASSUME BalancedInv, NEW g \in Run, RefundRun(g)
  PROVE  /\ Recorded("GENERATION_CONSUMPTION", g) /\ ~Recorded("GENERATION_REFUND", g)
         /\ Recorded("GENERATION_CONSUMPTION", g)' /\ Recorded("GENERATION_REFUND", g)'
         /\ taken[g] \in {0, RunCost}
         /\ taken'[g] = taken[g] - (IF unlimited THEN 0 ELSE RunCost)
         /\ balance' = balance + (IF unlimited THEN 0 ELSE RunCost)
         /\ \A h \in Run : h # g => SameRun(h)
<1>1. balance \in Int /\ taken \in [Run -> Int] /\ RunCost \in Int
  BY Costs DEF BalancedInv, WalletInv, TypeOK
<1>2. Recorded("GENERATION_CONSUMPTION", g) /\ ~Recorded("GENERATION_REFUND", g) /\ taken[g] \in {0, RunCost}
  BY DEF RefundRun, BalancedInv, Balanced
<1>3. Recorded("GENERATION_CONSUMPTION", g)' /\ Recorded("GENERATION_REFUND", g)'
  BY <1>2, OnRecord DEF RefundRun
<1>4. /\ balance' = balance + (IF unlimited THEN 0 ELSE RunCost)
      /\ taken' = [taken EXCEPT ![g] = taken[g] - (IF unlimited THEN 0 ELSE RunCost)]
  BY DEF RefundRun, GiveBack, Refunded
<1>5. ASSUME NEW h \in Run, h # g PROVE SameRun(h)
  <2>1. \A type : Recorded(type, h)' <=> Recorded(type, h)
    BY <1>5, OnRecord DEF RefundRun
  <2>2. taken'[h] = taken[h]
    BY <1>1, <1>4, <1>5
  <2>3. QED BY <2>1, <2>2 DEF SameRun, Recorded
<1>6. QED BY <1>1, <1>2, <1>3, <1>4, <1>5

LEMMA BalancedStep == BalancedInv /\ [Next]_vars => BalancedInv'
<1> SUFFICES ASSUME BalancedInv, [Next]_vars PROVE \A g \in Run : Balanced(g)'
  BY StepSound DEF BalancedInv
<1>1. ASSUME NEW g \in Run, SameRun(g) PROVE Balanced(g)'
  BY <1>1 DEF SameRun, BalancedInv, Balanced
<1>2. ASSUME NEW g \in Run, ChargeRun(g) PROVE \A h \in Run : Balanced(h)'
  <2>1. Balanced(g)'
    BY <1>2, RunCharged DEF Balanced
  <2>2. QED BY <1>1, <1>2, <2>1, RunCharged
<1>3. ASSUME NEW g \in Run, RefundRun(g) PROVE \A h \in Run : Balanced(h)'
  <2>1. Balanced(g)'
    BY <1>3, RunRefunded DEF Balanced
  <2>2. QED BY <1>1, <1>3, <2>1, RunRefunded
<1>4. QED BY <1>1, <1>2, <1>3, WhoWritesRuns

LEMMA BalancedInit == Init => BalancedInv
<1>1. Init => \A g \in Run : Balanced(g)
  BY DEF Init, Balanced, Recorded
<1>2. QED BY <1>1, InitSound DEF BalancedInv

-----------------------------------------------------------------------------
(* The wallet and the ledger.                                              *)

\* Runs charged under an exemption and not refunded have rows, but took nothing; a refund
\* under an exemption has a row, but may give nothing back.
Unpaid == {g \in Run : /\ Recorded("GENERATION_CONSUMPTION", g) /\ ~Recorded("GENERATION_REFUND", g)
                       /\ taken[g] = 0}
Slack == RunCost * Cardinality(Unpaid) - RunCost * Cardinality(Swallowed)

\* The rows account for what left the wallet.
CoveredInv ==
    /\ BalancedInv /\ IsFiniteSet(ledger) /\ IsFiniteSet(Unpaid) /\ IsFiniteSet(Swallowed)
    /\ balance >= InitialBalance + AmountOf(ledger) + Slack

LEMMA CoverNext ==
  ASSUME BalancedInv', IsFiniteSet(ledger'), IsFiniteSet(Unpaid'), IsFiniteSet(Swallowed'),
         balance' >= InitialBalance + AmountOf(ledger') + Slack'
  PROVE  CoveredInv'
  BY DEF CoveredInv, AmountOf, MapThenSumSet, MapThenFoldSet

LEMMA SlackTyped == CoveredInv => Slack \in Int /\ Cardinality(Unpaid) \in Nat /\ Cardinality(Swallowed) \in Nat
<1> SUFFICES ASSUME CoveredInv PROVE Slack \in Int /\ Cardinality(Unpaid) \in Nat /\ Cardinality(Swallowed) \in Nat
  OBVIOUS
<1>1. Cardinality(Unpaid) \in Nat /\ Cardinality(Swallowed) \in Nat
  BY FS_CardinalityType DEF CoveredInv
<1>2. QED BY <1>1, Costs DEF Slack

\* What the slack becomes when one run joins or leaves either set.
LEMMA SlackMoves ==
  ASSUME CoveredInv, NEW g \in Run
  PROVE  /\ Unpaid' = Unpaid /\ Swallowed' = Swallowed => Slack' = Slack
         /\ g \notin Unpaid /\ Unpaid' = Unpaid \cup {g} /\ Swallowed' = Swallowed => Slack' = Slack + RunCost
         /\ g \in Unpaid /\ Unpaid' = Unpaid \ {g} /\ Swallowed' = Swallowed => Slack' = Slack - RunCost
         /\ g \notin Swallowed /\ Unpaid' = Unpaid /\ Swallowed' = Swallowed \cup {g} => Slack' = Slack - RunCost
<1>1. Cardinality(Unpaid) \in Nat /\ Cardinality(Swallowed) \in Nat /\ RunCost \in Int
      /\ IsFiniteSet(Unpaid) /\ IsFiniteSet(Swallowed)
  BY SlackTyped, Costs DEF CoveredInv
<1>2. PICK u \in Int, s \in Int : u = Cardinality(Unpaid) /\ s = Cardinality(Swallowed)
  BY <1>1
<1>3. /\ Slack = RunCost * u - RunCost * s
      /\ Slack' = RunCost * Cardinality(Unpaid') - RunCost * Cardinality(Swallowed')
  BY <1>2 DEF Slack
<1>4. PICK x \in Int, y \in Int : x = RunCost * u /\ y = RunCost * s
  BY <1>1, <1>2
<1>5. RunCost * (u + 1) = x + RunCost /\ RunCost * (u - 1) = x - RunCost /\ RunCost * (s + 1) = y + RunCost
  BY <1>1, <1>2, <1>4
<1>6. g \notin Unpaid => Cardinality(Unpaid \cup {g}) = u + 1
  BY <1>1, <1>2, FS_AddElement
<1>7. g \in Unpaid => Cardinality(Unpaid \ {g}) = u - 1
  BY <1>1, <1>2, FS_RemoveElement
<1>8. g \notin Swallowed => Cardinality(Swallowed \cup {g}) = s + 1
  BY <1>1, <1>2, FS_AddElement
<1>9. Slack = x - y
  BY <1>3, <1>4
<1>10. Unpaid' = Unpaid /\ Swallowed' = Swallowed => Slack' = Slack
  BY DEF Slack
<1>11. ASSUME g \notin Unpaid, Unpaid' = Unpaid \cup {g}, Swallowed' = Swallowed PROVE Slack' = Slack + RunCost
  <2>1. Slack' = (x + RunCost) - y
    BY <1>2, <1>3, <1>4, <1>5, <1>6, <1>11
  <2>2. QED BY <1>1, <1>4, <1>9, <2>1
<1>12. ASSUME g \in Unpaid, Unpaid' = Unpaid \ {g}, Swallowed' = Swallowed PROVE Slack' = Slack - RunCost
  <2>1. Slack' = (x - RunCost) - y
    BY <1>2, <1>3, <1>4, <1>5, <1>7, <1>12
  <2>2. QED BY <1>1, <1>4, <1>9, <2>1
<1>13. ASSUME g \notin Swallowed, Unpaid' = Unpaid, Swallowed' = Swallowed \cup {g} PROVE Slack' = Slack - RunCost
  <2>1. Slack' = x - (y + RunCost)
    BY <1>2, <1>3, <1>4, <1>5, <1>8, <1>13
  <2>2. QED BY <1>1, <1>4, <1>9, <2>1
<1>14. QED BY <1>10, <1>11, <1>12, <1>13

\* A deduction takes no more than the row says.
LEMMA TakesAtMost ==
  ASSUME balance \in Int, NEW whole \in Nat, NEW lowest \in Int, Take(whole, lowest)
  PROVE  balance' >= balance - whole
  BY DEF Take, Greatest

\* A step that posts one new row and takes no more than it says, but for d.
LEMMA RowKeepsCover ==
  ASSUME CoveredInv, WalletInv', NEW type, NEW of, NEW amount \in Int, ~Recorded(type, of),
         Insert(type, of, amount), NEW d \in Int, balance' >= balance + amount + d, Slack' = Slack + d
  PROVE  IsFiniteSet(ledger') /\ balance' >= InitialBalance + AmountOf(ledger') + Slack'
<1>1. PICK new : new \notin ledger /\ ledger' = ledger \cup {new} /\ new.amount = amount
  BY PostedRow
<1>2. IsFiniteSet(ledger')
  BY <1>1, FS_AddElement DEF CoveredInv
<1>3. \A row \in ledger \cup {new} : row.amount \in Int
  BY <1>1, TypeParts DEF CoveredInv, BalancedInv, WalletInv, LedgerTyped
<1>4. AmountOf(ledger) \in Int /\ AmountOf(ledger') = AmountOf(ledger) + amount
  BY <1>1, <1>3, AmountGrows DEF CoveredInv
<1>5. balance \in Int /\ balance' \in Int /\ InitialBalance \in Int /\ Slack \in Int
  BY Costs, SlackTyped DEF CoveredInv, BalancedInv, WalletInv, TypeOK
<1>6. balance >= InitialBalance + AmountOf(ledger) + Slack
  BY DEF CoveredInv
<1>7. balance' >= InitialBalance + (AmountOf(ledger) + amount) + (Slack + d)
  BY <1>4, <1>5, <1>6
<1>8. QED BY <1>2, <1>4, <1>7

\* What the previous cycle left is written off by a row of its own.
LEMMA CycleKeepsCover ==
  ASSUME CoveredInv, WalletInv', NEW i \in Invoice, GrantSubscription(i), Slack' = Slack
  PROVE  IsFiniteSet(ledger') /\ balance' >= InitialBalance + AmountOf(ledger') + Slack'
<1> DEFINE grant == [id |-> Id("SUBSCRIPTION_GRANT", i), amount |-> PlanCredits]
           reset == [id |-> Id("SUBSCRIPTION_RESET", i), amount |-> -subBalance]
           S == ledger \cup {grant}
<1>1. /\ ledger' = S \cup (IF subBalance > 0 THEN {reset} ELSE {})
      /\ balance' = Greatest(balance - subBalance, 0) + PlanCredits
      /\ subBalance > 0 => ~Recorded("SUBSCRIPTION_RESET", i)
      /\ ~Recorded("SUBSCRIPTION_GRANT", i)
  BY DEF GrantSubscription
<1>2. grant \notin ledger /\ grant.amount = PlanCredits /\ reset.amount = -subBalance
      /\ (subBalance > 0 => reset \notin S)
  BY <1>1 DEF Recorded, Id
<1>3. \A row \in ledger : row.amount \in Int
  BY TypeParts DEF CoveredInv, BalancedInv, WalletInv, LedgerTyped
<1>4. balance \in Int /\ subBalance \in Nat /\ InitialBalance \in Int /\ PlanCredits \in Int /\ Slack \in Int
  BY Costs, SlackTyped DEF CoveredInv, BalancedInv, WalletInv, TypeOK
<1>5. balance >= InitialBalance + AmountOf(ledger) + Slack /\ IsFiniteSet(ledger)
  BY DEF CoveredInv
<1> HIDE DEF grant, reset
<1>6. AmountOf(ledger) \in Int /\ AmountOf(S) = AmountOf(ledger) + PlanCredits
  BY <1>2, <1>3, <1>4, <1>5, AmountGrows
<1>7. IsFiniteSet(S)
  BY <1>5, FS_AddElement
<1>8. \A row \in S \cup {reset} : row.amount \in Int
  BY <1>2, <1>3, <1>4
<1> HIDE DEF S
<1>9. CASE subBalance > 0
  <2>1. ledger' = S \cup {reset} /\ IsFiniteSet(ledger')
    BY <1>1, <1>7, <1>9, FS_AddElement
  <2>2. AmountOf(ledger') = AmountOf(ledger) + PlanCredits - subBalance
    BY <1>2, <1>4, <1>6, <1>7, <1>8, <1>9, <2>1, AmountGrows
  <2>3. balance' >= balance - subBalance + PlanCredits /\ balance' \in Int
    BY <1>1, <1>4 DEF Greatest
  <2>4. QED BY <1>4, <1>5, <1>6, <2>1, <2>2, <2>3
<1>10. CASE subBalance = 0
  <2>1. ledger' = S
    BY <1>1, <1>10
  <2>2. balance' >= balance + PlanCredits /\ balance' \in Int
    BY <1>1, <1>4, <1>10 DEF Greatest
  <2>3. QED BY <1>4, <1>5, <1>6, <1>7, <2>1, <2>2
<1>11. QED BY <1>4, <1>9, <1>10

LEMMA CoverStep == CoveredInv /\ [Next]_vars => CoveredInv'
<1> DEFINE Covered == IsFiniteSet(ledger') /\ balance' >= InitialBalance + AmountOf(ledger') + Slack'
           Finite == IsFiniteSet(Unpaid') /\ IsFiniteSet(Swallowed')
<1> SUFFICES ASSUME CoveredInv, [Next]_vars PROVE Covered /\ Finite
  BY BalancedStep, CoverNext DEF CoveredInv
<1>0. /\ BalancedInv /\ WalletInv /\ WalletInv' /\ IsFiniteSet(ledger) /\ IsFiniteSet(Unpaid) /\ IsFiniteSet(Swallowed)
      /\ balance \in Int /\ subBalance \in Nat /\ RunCost \in Int /\ RunCost > 0 /\ Slack \in Int
      /\ remainder \in 0..MicrosPerCredit - 1 /\ creditFloor \in Int /\ taken \in [Run -> Int]
  BY StepSound, Costs, SlackTyped DEF CoveredInv, BalancedInv, WalletInv, TypeOK
\* The sets move with the runs that are charged or refunded.
<1>1. (\A g \in Run : SameRun(g)) => Unpaid' = Unpaid /\ Swallowed' = Swallowed
  BY DEF SameRun, Unpaid, Swallowed
<1>2. ASSUME NEW g \in Run, \A h \in Run : h # g => SameRun(h)
      PROVE  \A h \in Run \ {g} : (h \in Unpaid' <=> h \in Unpaid) /\ (h \in Swallowed' <=> h \in Swallowed)
  BY <1>2 DEF SameRun, Unpaid, Swallowed
<1>3. Unpaid \subseteq Run /\ Unpaid' \subseteq Run /\ Swallowed \subseteq Run /\ Swallowed' \subseteq Run
  BY DEF Unpaid, Swallowed
<1>4. ASSUME NEW g \in Run, ChargeRun(g) PROVE Covered /\ Finite
  <2>1. g \notin Unpaid /\ g \notin Swallowed /\ g \notin Swallowed' /\ (g \in Unpaid' <=> unlimited)
    BY <1>0, <1>4, RunCharged DEF Unpaid, Swallowed
  <2>2. Swallowed' = Swallowed /\ Unpaid' = IF unlimited THEN Unpaid \cup {g} ELSE Unpaid
    BY <1>0, <1>2, <1>3, <1>4, <2>1, RunCharged
  <2>3. PICK d \in Int : d = IF unlimited THEN RunCost ELSE 0
    BY <1>0
  <2>4. Slack' = Slack + d
    BY <1>0, <2>1, <2>2, <2>3, SlackMoves
  <2>5. balance' >= balance + (-RunCost) + d
    BY <1>0, <1>4, <2>3, RunCharged
  <2>6. ~Recorded("GENERATION_CONSUMPTION", g) /\ Insert("GENERATION_CONSUMPTION", g, -RunCost)
    BY <1>0, <1>4, RunCharged DEF ChargeRun
  <2>7. -RunCost \in Int
    BY <1>0
  <2>8. Covered
    BY <1>0, <2>3, <2>4, <2>5, <2>6, <2>7, RowKeepsCover
  <2>9. Finite
    BY <1>0, <2>2, FS_AddElement
  <2>10. QED BY <2>8, <2>9
<1>5. ASSUME NEW g \in Run, RefundRun(g) PROVE Covered /\ Finite
  <2>1. /\ g \notin Swallowed /\ g \notin Unpaid' /\ (g \in Unpaid <=> taken[g] = 0)
        /\ g \in Swallowed' <=> unlimited /\ taken[g] = RunCost
    BY <1>0, <1>5, RunRefunded DEF Unpaid, Swallowed
  <2>2. /\ Unpaid' = Unpaid \ {g}
        /\ Swallowed' = IF unlimited /\ taken[g] = RunCost THEN Swallowed \cup {g} ELSE Swallowed
    <3>1. \A h \in Run \ {g} : (h \in Unpaid' <=> h \in Unpaid) /\ (h \in Swallowed' <=> h \in Swallowed)
      BY <1>0, <1>2, <1>5, RunRefunded
    <3>2. Unpaid' = Unpaid \ {g}
      BY <1>3, <2>1, <3>1
    <3>3. g \in Swallowed' => Swallowed' = Swallowed \cup {g}
      BY <1>3, <2>1, <3>1
    <3>4. g \notin Swallowed' => Swallowed' = Swallowed
      BY <1>3, <2>1, <3>1
    <3>5. QED BY <2>1, <3>2, <3>3, <3>4
  <2>3. PICK d \in Int : d = IF taken[g] = 0 \/ unlimited THEN -RunCost ELSE 0
    BY <1>0
  <2>4. Slack' = Slack + d
    <3>1. CASE taken[g] = 0
      BY <1>0, <2>1, <2>2, <2>3, <3>1, SlackMoves
    <3>2. CASE taken[g] = RunCost
      <4>1. Unpaid' = Unpaid
        BY <1>0, <2>1, <2>2, <3>2
      <4>2. QED BY <1>0, <2>1, <2>2, <2>3, <3>2, <4>1, SlackMoves
    <3>3. QED BY <1>0, <1>5, <3>1, <3>2, RunRefunded
  <2>5. balance' >= balance + RunCost + d
    BY <1>0, <1>5, <2>3, RunRefunded
  <2>6. ~Recorded("GENERATION_REFUND", g) /\ Insert("GENERATION_REFUND", g, RunCost)
    BY <1>5 DEF RefundRun
  <2>7. Covered
    BY <1>0, <2>3, <2>4, <2>5, <2>6, RowKeepsCover
  <2>8. Finite
    BY <1>0, <2>2, FS_AddElement, FS_RemoveElement
  <2>9. QED BY <2>7, <2>8
\* Nothing else concerns a run.
<1>6. ASSUME \A g \in Run : SameRun(g) PROVE Covered /\ Finite
  <2>1. Unpaid' = Unpaid /\ Swallowed' = Swallowed /\ Slack' = Slack
    BY <1>1, <1>6 DEF Slack
  <2>2. ASSUME NEW type, NEW of, NEW amount \in Int, ~Recorded(type, of), Insert(type, of, amount),
               balance' >= balance + amount
        PROVE  Covered
    <3>1. balance' >= balance + amount + 0 /\ Slack' = Slack + 0
      BY <1>0, <2>1, <2>2
    <3>2. QED BY <1>0, <2>2, <3>1, RowKeepsCover
  <2>3. CASE Still
    <3>1. ledger' = ledger /\ balance' = balance
      BY <2>3 DEF Still
    <3>2. QED BY <2>1, <3>1 DEF CoveredInv
  <2>4. ASSUME NEW u \in Usage, ChargeUsage(u) PROVE Covered
    <3> DEFINE whole == (remainder + UsageMicros[u]) \div MicrosPerCredit
    <3>1. Take(whole, creditFloor) /\ Insert("USAGE_CONSUMPTION", u, -whole) /\ ~Recorded("USAGE_CONSUMPTION", u)
      BY <2>4 DEF ChargeUsage
    <3>2. whole \in Nat
      BY <1>0, SplitCharge
    <3> HIDE DEF whole
    <3>3. balance' >= balance + (-whole)
      BY <1>0, <3>1, <3>2, TakesAtMost
    <3>4. QED BY <2>2, <3>1, <3>2, <3>3
  <2>5. ASSUME NEW q \in Request, ChargeRequest(q) PROVE Covered
    <3>1. RequestCost[q] \in Nat
      BY CreditsAssumption
    <3>2. balance' >= balance + (-RequestCost[q])
      BY <1>0, <2>5, <3>1, TakesAtMost DEF ChargeRequest
    <3>3. QED BY <2>2, <2>5, <3>1, <3>2 DEF ChargeRequest
  <2>6. ASSUME NEW p \in Purchase, GrantTopup(p) PROVE Covered
    <3>1. balance' >= balance + PackageCredits
      BY <1>0, <2>6, Costs DEF GrantTopup
    <3>2. QED BY <2>2, <2>6, <3>1, Costs DEF GrantTopup
  <2>7. ASSUME NEW r \in Refund, RevokeTopup(r) PROVE Covered
    <3> DEFINE applied == Least(balance, RefundCredits[r])
    <3>1. /\ ~Recorded("TOPUP_REFUND", r) /\ Insert("TOPUP_REFUND", r, -applied)
          /\ balance' = balance - applied
      BY <2>7 DEF RevokeTopup, Revoke
    <3>2. applied \in Int
      BY <1>0, CreditsAssumption DEF Least
    <3> HIDE DEF applied
    <3>3. balance' >= balance + (-applied)
      BY <1>0, <3>1, <3>2
    <3>4. QED BY <2>2, <3>1, <3>2, <3>3
  <2>8. ASSUME NEW i \in Invoice, GrantSubscription(i) PROVE Covered
    BY <1>0, <2>1, <2>8, CycleKeepsCover
  <2>9. (\E g \in Run : ChargeRun(g) \/ RefundRun(g)) => Covered
    BY <1>4, <1>5
  <2>10. QED BY <1>0, <2>1, <2>3, <2>4, <2>5, <2>6, <2>7, <2>8, <2>9, WhoWrites
<1>7. QED BY <1>0, <1>4, <1>5, <1>6, WhoWritesRuns

LEMMA CoverInit == Init => CoveredInv
<1> SUFFICES ASSUME Init PROVE CoveredInv
  OBVIOUS
<1>1. ledger = {} /\ IsFiniteSet(ledger) /\ balance = InitialBalance
  BY FS_EmptySet DEF Init
<1>2. Unpaid = {} /\ Swallowed = {}
  BY <1>1 DEF Unpaid, Swallowed, Recorded
<1>3. Slack = 0 /\ IsFiniteSet(Unpaid) /\ IsFiniteSet(Swallowed)
  BY <1>2, FS_EmptySet, Costs DEF Slack
<1>4. balance >= InitialBalance + AmountOf(ledger) + Slack
  BY <1>1, <1>3, NothingSums, Costs
<1>5. QED BY <1>1, <1>3, <1>4, BalancedInit DEF CoveredInv

\* What runs charged under an exemption are short of only adds to the cover.
LEMMA CoverCovers == CoveredInv => LedgerCoversWallet
<1> SUFFICES ASSUME CoveredInv PROVE LedgerCoversWallet
  OBVIOUS
<1>1. Cardinality(Unpaid) \in Nat /\ Cardinality(Swallowed) \in Nat /\ RunCost \in Nat
  BY SlackTyped, Costs
<1>2. RunCost * Cardinality(Unpaid) \in Nat /\ RunCost * Cardinality(Swallowed) \in Nat
  BY <1>1
<1>3. balance \in Int /\ InitialBalance \in Int
  BY Costs DEF CoveredInv, BalancedInv, WalletInv, TypeOK
<1>4. AmountOf(ledger) \in Int
  <2>1. IsFiniteSet(ledger) /\ \A row \in ledger : row.amount \in Int
    BY TypeParts DEF CoveredInv, BalancedInv, WalletInv, LedgerTyped
  <2>2. QED BY <2>1, AmountTyped
<1>5. balance >= InitialBalance + AmountOf(ledger) + (RunCost * Cardinality(Unpaid) - RunCost * Cardinality(Swallowed))
  BY DEF CoveredInv, Slack
<1>6. QED BY <1>2, <1>3, <1>4, <1>5 DEF LedgerCoversWallet

-----------------------------------------------------------------------------
(* Out of credits.                                                         *)

LEMMA BlockedStep ==
  ASSUME Floors \subseteq {0}, WalletInv, Prepaid, [Next]_vars, ~FloorGate,
         UNCHANGED <<creditFloor, unlimited, subscribed>>,
         \A row \in ledger' \ ledger : row.amount <= 0
  PROVE  ~FloorGate'
<1>1. /\ creditFloor = 0 /\ ~unlimited /\ balance \in Int /\ subBalance \in Nat
      /\ remainder \in 0..MicrosPerCredit - 1
  BY DEF WalletInv, TypeOK, Prepaid, FloorGate
<1>2. balance = 0
  BY <1>1 DEF Prepaid, FloorGate, EffectiveFloor
<1>3. SUFFICES balance' = 0
  BY <1>1 DEF FloorGate, EffectiveFloor
<1>4. ASSUME NEW type, NEW of, NEW amount \in Int, amount > 0, ~Recorded(type, of), Insert(type, of, amount)
      PROVE  FALSE
  BY <1>4, PostedRow
<1>5. ASSUME NEW g \in Run, ChargeRun(g) \/ RefundRun(g) PROVE FALSE
  <2>1. RunCost \in Int /\ RunCost > 0
    BY Costs
  <2>2. ~ChargeRun(g)
    BY <1>1, <1>2, <2>1 DEF ChargeRun
  <2>3. QED BY <1>4, <1>5, <2>1, <2>2 DEF RefundRun
<1>6. ASSUME NEW whole \in Nat, Take(whole, 0) PROVE balance' = 0
  BY <1>1, <1>2, <1>6 DEF Take, Greatest
<1>7. ASSUME NEW u \in Usage, ChargeUsage(u) PROVE balance' = 0
  <2> DEFINE whole == (remainder + UsageMicros[u]) \div MicrosPerCredit
  <2>1. Take(whole, 0)
    BY <1>1, <1>7 DEF ChargeUsage
  <2>2. whole \in Nat
    BY <1>1, SplitCharge
  <2> HIDE DEF whole
  <2>3. QED BY <1>6, <2>1, <2>2
<1>8. ASSUME NEW q \in Request, ChargeRequest(q) PROVE balance' = 0
  BY <1>6, <1>8, CreditsAssumption DEF ChargeRequest
<1>9. ASSUME NEW p \in Purchase, GrantTopup(p) PROVE FALSE
  BY <1>4, <1>9, Costs DEF GrantTopup
<1>10. ASSUME NEW r \in Refund, RevokeTopup(r) PROVE FALSE
  <2>1. RefundCredits[r] \in Int /\ Least(balance, RefundCredits[r]) > 0
    BY <1>10, CreditsAssumption DEF RevokeTopup
  <2>2. QED BY <1>2, <2>1 DEF Least
<1>11. ASSUME NEW i \in Invoice, GrantSubscription(i) PROVE balance' = 0
  <2> DEFINE grant == [id |-> Id("SUBSCRIPTION_GRANT", i), amount |-> PlanCredits]
  <2>1. grant \in ledger' /\ ~Recorded("SUBSCRIPTION_GRANT", i)
        /\ balance' = Greatest(balance - subBalance, 0) + PlanCredits
    BY <1>11 DEF GrantSubscription
  <2>2. grant \notin ledger /\ grant.amount = PlanCredits
    BY <2>1 DEF Recorded
  <2> HIDE DEF grant
  <2>3. PlanCredits = 0
    BY <2>1, <2>2, Costs
  <2>4. QED BY <1>1, <1>2, <2>1, <2>3 DEF Greatest
<1>12. CASE Still
  BY <1>2, <1>12 DEF Still
<1>13. QED BY <1>5, <1>7, <1>8, <1>9, <1>10, <1>11, <1>12, WhoWrites

-----------------------------------------------------------------------------
(* The theorems.                                                           *)

\* The wallet's types, for every organization and history of operations on its row.
THEOREM WalletTypes == Spec => []TypeOK
<1>1. Init => WalletInv  BY InitSound
<1>2. WalletInv /\ [Next]_vars => WalletInv'  BY StepSound
<1>3. WalletInv => TypeOK  BY DEF WalletInv
<1>4. QED  BY <1>1, <1>2, <1>3, PTL DEF Spec

\* No charge, revocation or new cycle takes a wallet below its floor, however many were
\* admitted before it and whatever the administrator changed in between.
THEOREM WalletClampedAtFloor == Spec => ClampedAtFloor
<1>1. Init => WalletInv  BY InitSound
<1>2. WalletInv /\ [Next]_vars => WalletInv'  BY StepSound
<1>3. WalletInv /\ [Next]_vars => [balance' < balance => balance' >= creditFloor]_vars
  BY StepSound DEF Sound
<1>4. QED  BY <1>1, <1>2, <1>3, PTL DEF Spec, ClampedAtFloor

\* An organization that is never given an overdraft never owes, and what it has of the plan is
\* never more than what it has: no order of charges, refunds, revocations and cycles, exempt or
\* not, separates the two balances.
THEOREM PlanStaysPart ==
  ASSUME Floors \subseteq {0}
  PROVE  Spec => []SubscriptionIsPart
<1>1. Init => WalletInv /\ Prepaid  BY InitSound
<1>2. WalletInv /\ Prepaid /\ [Next]_vars => (WalletInv /\ Prepaid)'
  BY StepSound DEF Sound, Prepaid, vars, wallet
<1>3. WalletInv /\ Prepaid => SubscriptionIsPart
  BY TypeParts DEF WalletInv, Prepaid, Amounts, SubscriptionIsPart, Greatest
<1>4. QED  BY <1>1, <1>2, <1>3, PTL DEF Spec

\* Metered usage is charged at true cost, whatever is retried, clamped or exempted and in
\* whatever order charges of any sizes come: no fraction of a credit is lost or counted twice by
\* the split of deductCreditsFloored.
THEOREM UsageAlwaysAtTrueCost == Spec => []UsageAtTrueCost
<1>1. TrueCostInv => UsageAtTrueCost  BY DEF TrueCostInv
<1>2. QED  BY <1>1, TrueCostInit, TrueCostStep, PTL DEF Spec

\* Nothing leaves the wallet without a row of the ledger that accounts for it, whatever the
\* floors, clamps, refunds and cycles, and whenever the organization is exempt: the balance is
\* short of the rows' sum by no more than the refunds that an exemption kept from it.
THEOREM WalletAlwaysCovered == Spec => []LedgerCoversWallet
<1>1. QED  BY CoverInit, CoverStep, CoverCovers, PTL DEF Spec

\* A refund gives back what the charge took, if the organization is exempt at both or at
\* neither, and the run moves the wallet no more after that, however often and however late
\* the engine reports its failure.
THEOREM RefundAlwaysRestores == Spec => RefundRestoresBalance
<1>1. ASSUME BalancedInv, [Next]_vars, NEW g \in Run
      PROVE  IF Recorded("GENERATION_REFUND", g) THEN taken'[g] = taken[g]
             ELSE Recorded("GENERATION_REFUND", g)' /\ (unlimited <=> taken[g] = 0) => taken'[g] = 0
  <2>1. CASE SameRun(g)
    BY <2>1 DEF SameRun
  <2>2. CASE ChargeRun(g)
    BY <1>1, <2>2, RunCharged
  <2>3. CASE RefundRun(g)
    <3>1. RunCost \in Int /\ RunCost # 0
      BY Costs
    <3>2. QED BY <1>1, <2>3, <3>1, RunRefunded
  <2>4. QED BY <1>1, <2>1, <2>2, <2>3, WhoWritesRuns, RunCharged, RunRefunded
<1>2. BalancedInv /\ [Next]_vars
      => [\A g \in Run :
             IF Recorded("GENERATION_REFUND", g) THEN taken'[g] = taken[g]
             ELSE Recorded("GENERATION_REFUND", g)' /\ (unlimited <=> taken[g] = 0) => taken'[g] = 0]_vars
  BY <1>1
<1>3. QED  BY <1>2, BalancedInit, BalancedStep, PTL DEF Spec, RefundRestoresBalance

\* Work that was admitted earlier and is charged when an organization without an overdraft is
\* out of credits never reopens the gate to new work.
THEOREM ExhaustedWalletStaysBlocked ==
  ASSUME Floors \subseteq {0}
  PROVE  Spec => ExhaustedStaysBlocked
<1>1. Init => WalletInv /\ Prepaid  BY InitSound
<1>2. WalletInv /\ Prepaid /\ [Next]_vars => (WalletInv /\ Prepaid)'
  BY StepSound DEF Sound, Prepaid, vars, wallet
<1>3. WalletInv /\ Prepaid /\ [Next]_vars
      => [~FloorGate /\ UNCHANGED <<creditFloor, unlimited, subscribed>>
          /\ (\A row \in ledger' \ ledger : row.amount <= 0)
          => ~FloorGate']_vars
  BY BlockedStep
<1>4. QED  BY <1>1, <1>2, <1>3, PTL DEF Spec, ExhaustedStaysBlocked
=============================================================================
