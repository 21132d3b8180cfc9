---------------------------- MODULE Recharge_proofs ----------------------------
(***************************************************************************)
(* The wallet's refills, for any caps, prices, months, processes and       *)
(* purchases: types; credit is extended once; and what is charged in a     *)
(* month stays under the ceiling, but for what the total loses track of.   *)
(***************************************************************************)
EXTENDS Recharge, FiniteSetTheorems, TLAPS

-----------------------------------------------------------------------------
(* Types.                                                                  *)

RechargeRecords == [at : {"idle", "checked", "reserved", "failed"}, month : Months \cup {NoMonth}]
SaleRecords == [at : {"idle", "asked", "reserved", "refused", "sold"}, month : Months \cup {Nowhen}]

LEMMA MonthsTyped == Months \subseteq Nat \ {0}
  BY SpendCapAssumption DEF Months

LEMMA MonthTyped == SpendTypeOK => Month \in Months
  BY DEF SpendTypeOK, Month, Months

LEMMA TotalsTyped ==
  ASSUME SpendTypeOK, NEW m \in Months
  PROVE  /\ Draw(m) \/ ReleaseReservation(m) \/ RecordRefund(m) => charged' \in [Months -> Int]
         /\ charged[m] \in Int /\ Price \in Nat \ {0}
<1>1. charged \in [Months -> Int] /\ charged[m] \in Int /\ Price \in Nat \ {0}
  BY SpendCapAssumption DEF SpendTypeOK
<1>2. charged[m] + Price \in Int /\ charged[m] - Price \in Int /\ Greatest(0, charged[m] - Price) \in Int
  BY <1>1 DEF Greatest
<1>3. QED BY <1>1, <1>2 DEF Draw, ReleaseReservation, RecordRefund

LEMMA AppliedTyped == SpendTypeOK => Applied \in Nat /\ balance - Applied \in Nat /\ balance + PackageCredits \in Nat
  BY SpendCapAssumption DEF SpendTypeOK, Applied, Least

LEMMA StrayTyped ==
  ASSUME SpendTypeOK, NEW m \in Months, strays' = [strays EXCEPT ![m] = @ + 1]
  PROVE  strays' \in [Months -> Nat]
  BY DEF SpendTypeOK

LEMMA WorldTypes == SpendTypeOK /\ World => SpendTypeOK'
<1> SUFFICES ASSUME SpendTypeOK, World PROVE SpendTypeOK'
  OBVIOUS
<1>1. CASE Tick
  BY <1>1, SpendCapAssumption DEF Tick, SpendTypeOK, Time
<1>2. CASE Consume
  BY <1>2 DEF Consume, SpendTypeOK
<1>3. CASE UpdateCap
  BY <1>3 DEF UpdateCap, SpendTypeOK, Greatest
<1>4. QED BY <1>1, <1>2, <1>3 DEF World

LEMMA RechargeInitTypes == Init => TypeOK
<1> SUFFICES ASSUME Init PROVE TypeOK
  OBVIOUS
<1>1. SpendTypeOK
  BY SpendCapAssumption DEF Init, SpendInit, SpendTypeOK, Time
<1>2. StripeTypeOK
  BY DEF Init, StripeInit, StripeTypeOK
<1>3. VercelTypeOK
  BY DEF Init, VercelInit, VercelTypeOK
<1>4. QED BY <1>1, <1>2, <1>3 DEF Init, TypeOK

LEMMA RechargeGoes ==
  ASSUME StripeTypeOK, NEW a \in Recharger, NEW at \in {"idle", "checked", "reserved", "failed"},
         recharge' = [recharge EXCEPT ![a].at = at]
  PROVE  recharge' \in [Recharger -> RechargeRecords]
<1>1. [recharge[a] EXCEPT !.at = at] \in RechargeRecords
  BY DEF StripeTypeOK, RechargeRecords
<1>2. recharge' = [recharge EXCEPT ![a] = [recharge[a] EXCEPT !.at = at]]
  OBVIOUS
<1>3. QED BY <1>1, <1>2 DEF StripeTypeOK, RechargeRecords

LEMMA RechargeSet ==
  ASSUME StripeTypeOK, NEW a \in Recharger, NEW at \in {"idle", "checked", "reserved", "failed"}, NEW m \in Months \cup {NoMonth},
         recharge' = [recharge EXCEPT ![a] = [at |-> at, month |-> m]]
  PROVE  recharge' \in [Recharger -> RechargeRecords]
  BY DEF StripeTypeOK, RechargeRecords

LEMMA AskStripeTyped ==
  ASSUME StripeTypeOK, SpendTypeOK, NEW a \in Recharger, AskStripe(a)
  PROVE  intent' \in [Intent -> {"none", "open", "paid", "declined"}] /\ bookedIn' \in [Intent -> Months \cup {NoMonth}]
<1>1. recharge[a].month \in Months \cup {NoMonth} /\ now \in Intent
  BY DEF StripeTypeOK, SpendTypeOK, Intent
<1>2. QED BY <1>1 DEF AskStripe, StripeTypeOK

LEMMA RechargeTypes ==
  ASSUME SpendTypeOK, StripeTypeOK, NEW a \in Recharger,
         CheckRecharge(a) \/ NoPaymentMethod(a) \/ Reserve(a) \/ Charge(a) \/ ChargeFails(a) \/ AnswerLost(a)
           \/ ReleaseRecharge(a) \/ RechargerDies(a)
  PROVE  SpendTypeOK' /\ StripeTypeOK'
<1>0. StripeTypeOK <=> /\ recharge \in [Recharger -> RechargeRecords] /\ backoff \in BOOLEAN
                       /\ intent \in [Intent -> {"none", "open", "paid", "declined"}] /\ bookedIn \in [Intent -> Months \cup {NoMonth}]
                       /\ granted \in [Intent -> Months \cup {NoMonth}] /\ revoked \subseteq Intent /\ unrecorded \subseteq Checkout
  BY DEF StripeTypeOK, RechargeRecords
<1>1. CASE CheckRecharge(a)
  <2>1. recharge' \in [Recharger -> RechargeRecords]
    BY <1>1, RechargeGoes DEF CheckRecharge
  <2>2. QED BY <1>0, <1>1, <2>1 DEF CheckRecharge, OnlyRecharge, SpendTypeOK, StripeTypeOK, RechargeRecords
<1>2. CASE NoPaymentMethod(a)
  BY <1>2 DEF NoPaymentMethod, OnlyRecharge, SpendTypeOK, StripeTypeOK
<1>3. CASE Reserve(a)
  <2>1. recharge' \in [Recharger -> RechargeRecords]
    BY <1>3, RechargeGoes, RechargeSet, MonthTyped DEF Reserve
  <2>2. charged' \in [Months -> Int]
    BY <1>3, TotalsTyped, MonthTyped DEF Reserve, SpendTypeOK
  <2>3. QED BY <1>0, <1>3, <2>1, <2>2 DEF Reserve, OnlyRecharge, SpendTypeOK, StripeTypeOK, RechargeRecords
<1>4. CASE Charge(a)
  <2>1. recharge' \in [Recharger -> RechargeRecords]
    BY <1>4, RechargeSet DEF Charge, Idle
  <2>2. intent' \in [Intent -> {"none", "open", "paid", "declined"}] /\ bookedIn' \in [Intent -> Months \cup {NoMonth}]
    BY <1>4, AskStripeTyped DEF Charge
  <2>3. backoff' \in BOOLEAN
    BY <1>0, <1>4 DEF Charge
  <2>4. QED BY <1>0, <1>4, <2>1, <2>2, <2>3 DEF Charge, OnlyRecharge, SpendTypeOK, StripeTypeOK, RechargeRecords
<1>5. CASE ChargeFails(a) \/ AnswerLost(a)
  <2>1. recharge' \in [Recharger -> RechargeRecords]
    BY <1>5, RechargeGoes DEF ChargeFails, AnswerLost
  <2>2. intent' \in [Intent -> {"none", "open", "paid", "declined"}] /\ bookedIn' \in [Intent -> Months \cup {NoMonth}]
    BY <1>0, <1>5, AskStripeTyped DEF ChargeFails, AnswerLost
  <2>3. backoff' \in BOOLEAN
    BY <1>0, <1>5 DEF ChargeFails, AnswerLost
  <2>4. strays' \in [Months -> Nat]
    <3>1. strays' = strays \/ strays' = [strays EXCEPT ![recharge[a].month] = @ + 1]
      BY <1>5 DEF ChargeFails, AnswerLost, OnlyRecharge
    <3>2. \A m \in Months : strays[m] + 1 \in Nat
      BY DEF SpendTypeOK
    <3>3. QED BY <3>1, <3>2 DEF SpendTypeOK
  <2>5. QED BY <1>0, <1>5, <2>1, <2>2, <2>3, <2>4 DEF ChargeFails, AnswerLost, OnlyRecharge, SpendTypeOK, StripeTypeOK, RechargeRecords
<1>6. CASE ReleaseRecharge(a)
  <2>1. recharge' \in [Recharger -> RechargeRecords]
    BY <1>6, RechargeSet DEF ReleaseRecharge, Idle
  <2>2. charged' \in [Months -> Int]
    <3>1. charged' = [charged EXCEPT ![recharge[a].month] = @ - Price]
      BY <1>6 DEF ReleaseRecharge, ReleaseReservation
    <3>2. \A m \in Months : charged[m] - Price \in Int
      BY SpendCapAssumption DEF SpendTypeOK
    <3>3. QED BY <3>1, <3>2 DEF SpendTypeOK
  <2>3. QED BY <1>0, <1>6, <2>1, <2>2 DEF ReleaseRecharge, OnlyRecharge, SpendTypeOK, StripeTypeOK, RechargeRecords
<1>7. CASE RechargerDies(a)
  <2>1. recharge' \in [Recharger -> RechargeRecords]
    BY <1>7, RechargeSet DEF RechargerDies, Idle
  <2>2. QED BY <1>0, <1>7, <2>1 DEF RechargerDies, OnlyRecharge, SpendTypeOK, StripeTypeOK, RechargeRecords
<1>8. QED BY <1>1, <1>2, <1>3, <1>4, <1>5, <1>6, <1>7

LEMMA WebhookTypes ==
  ASSUME SpendTypeOK, StripeTypeOK,
         \/ BackoffExpires
         \/ \E c \in Checkout : OpenCheckout(c) \/ PayCheckout(c) \/ RecordManualCharge(c) \/ RecordingLost(c)
         \/ \E i \in Intent : GrantTopup(i) \/ RevokeTopup(i)
  PROVE  SpendTypeOK' /\ StripeTypeOK'
<1>1. CASE BackoffExpires
  BY <1>1 DEF BackoffExpires, OnlyRecharge, SpendTypeOK, StripeTypeOK
<1>2. ASSUME NEW c \in Checkout, OpenCheckout(c) \/ PayCheckout(c) \/ RecordingLost(c) PROVE SpendTypeOK' /\ StripeTypeOK'
  BY <1>2 DEF OpenCheckout, PayCheckout, RecordingLost, OnlyStripe, SpendTypeOK, StripeTypeOK, Intent
<1>3. ASSUME NEW c \in Checkout, RecordManualCharge(c) PROVE SpendTypeOK' /\ StripeTypeOK'
  <2>1. charged' \in [Months -> Int] /\ Month \in Months
    BY <1>3, TotalsTyped, MonthTyped DEF RecordManualCharge
  <2>2. QED BY <1>3, <2>1 DEF RecordManualCharge, OnlyStripe, SpendTypeOK, StripeTypeOK, Intent
<1>4. ASSUME NEW i \in Intent, GrantTopup(i) PROVE SpendTypeOK' /\ StripeTypeOK'
  BY <1>4, MonthTyped, AppliedTyped DEF GrantTopup, OnlyStripe, SpendTypeOK, StripeTypeOK, Intent
<1>5. ASSUME NEW i \in Intent, RevokeTopup(i) PROVE SpendTypeOK' /\ StripeTypeOK'
  <2>1. granted[i] \in Months
    BY <1>5 DEF RevokeTopup, StripeTypeOK
  <2>2. charged' \in [Months -> Int]
    BY <1>5, <2>1, TotalsTyped DEF RevokeTopup
  <2>3. strays' \in [Months -> Nat]
    BY <1>5, <2>1 DEF RevokeTopup, SpendTypeOK
  <2>4. balance' \in Nat
    BY <1>5, AppliedTyped DEF RevokeTopup
  <2>5. QED BY <1>5, <2>2, <2>3, <2>4 DEF RevokeTopup, OnlyStripe, SpendTypeOK, StripeTypeOK
<1>6. QED BY <1>1, <1>2, <1>3, <1>4, <1>5

-----------------------------------------------------------------------------
(* Types of the other rail.                                                *)

LEMMA SaleSet ==
  ASSUME VercelTypeOK, NEW s \in Sale, NEW at \in {"idle", "asked", "reserved", "refused", "sold"}, NEW m \in Months \cup {Nowhen},
         sale' = [sale EXCEPT ![s] = [at |-> at, month |-> m]]
  PROVE  sale' \in [Sale -> SaleRecords]
  BY DEF VercelTypeOK, SaleRecords

LEMMA SaleGoes ==
  ASSUME VercelTypeOK, NEW s \in Sale, NEW at \in {"idle", "asked", "reserved", "refused", "sold"},
         sale' = [sale EXCEPT ![s].at = at]
  PROVE  sale' \in [Sale -> SaleRecords]
<1>1. [sale[s] EXCEPT !.at = at] \in SaleRecords
  BY DEF VercelTypeOK, SaleRecords
<1>2. sale' = [sale EXCEPT ![s] = [sale[s] EXCEPT !.at = at]]
  OBVIOUS
<1>3. QED BY <1>1, <1>2 DEF VercelTypeOK, SaleRecords

LEMMA RaisingTyped ==
  ASSUME VercelTypeOK, NEW s \in Sale, NEW by \in Submitter, NEW step \in {"no", "posting", "linking"},
         raising' = [raising EXCEPT ![<<s, by>>] = step]
  PROVE  raising' \in [Sale \X Submitter -> {"no", "posting", "linking"}]
  BY DEF VercelTypeOK

LEMMA SubmittersTyped == "sale" \in Submitter /\ "retry" \in Submitter
  BY DEF Submitter

LEMMA PurchaseTypes ==
  ASSUME SpendTypeOK, VercelTypeOK, NEW s \in Sale,
         AskToBuy(s) \/ ReserveSale(s) \/ Grant(s) \/ GrantFails(s) \/ ReleaseSale(s) \/ SaleDies(s)
  PROVE  SpendTypeOK' /\ VercelTypeOK'
<1>0. VercelTypeOK <=> /\ sale \in [Sale -> SaleRecords]
                       /\ bookedAs \in [Sale -> Months \cup {Nowhen}]
                       /\ raising \in [Sale \X Submitter -> {"no", "posting", "linking"}]
                       /\ atVercel \in [Sale -> {"none", "owed", "paid", "refunded"}]
                       /\ linked \subseteq Sale /\ status \in [Sale -> {"none", "submitted", "paid", "refunded"}]
                       /\ takenBack \subseteq Sale /\ planGrants \subseteq Sale
  BY DEF VercelTypeOK, SaleRecords
<1>a. Month \in Months
  BY MonthTyped
<1>1. sale' \in [Sale -> SaleRecords]
  <2>1. CASE AskToBuy(s) \/ GrantFails(s)
    BY <2>1, SaleGoes DEF AskToBuy, GrantFails
  <2>2. CASE ReserveSale(s)
    BY <1>a, <2>2, SaleGoes, SaleSet DEF ReserveSale
  <2>3. CASE Grant(s)
    BY <2>3, SaleGoes DEF Grant
  <2>4. CASE ReleaseSale(s) \/ SaleDies(s)
    BY <2>4, SaleSet DEF ReleaseSale, SaleDies
  <2>5. QED BY <2>1, <2>2, <2>3, <2>4
<1>2. charged' \in [Months -> Int]
  <2>1. charged' = charged \/ charged' = [charged EXCEPT ![Month] = @ + Price] \/ charged' = [charged EXCEPT ![sale[s].month] = @ - Price]
    BY DEF AskToBuy, ReserveSale, Grant, GrantFails, ReleaseSale, SaleDies, ReleaseReservation, Draw
  <2>2. \A m \in Months : charged[m] + Price \in Int /\ charged[m] - Price \in Int
    BY SpendCapAssumption DEF SpendTypeOK
  <2>3. QED BY <2>1, <2>2 DEF SpendTypeOK
<1>3. balance' \in Nat
  <2>1. balance' = balance \/ balance' = balance + PackageCredits
    BY DEF AskToBuy, ReserveSale, Grant, GrantFails, ReleaseSale, SaleDies
  <2>2. QED BY <2>1, SpendCapAssumption DEF SpendTypeOK
<1>4. raising' \in [Sale \X Submitter -> {"no", "posting", "linking"}]
  <2>1. raising' = raising \/ raising' = [raising EXCEPT ![<<s, "sale">>] = "posting"]
    BY DEF AskToBuy, ReserveSale, Grant, GrantFails, ReleaseSale, SaleDies
  <2>2. QED BY <1>0, <2>1, RaisingTyped, SubmittersTyped
<1>5. bookedAs' \in [Sale -> Months \cup {Nowhen}]
  <2>1. bookedAs' = bookedAs \/ bookedAs' = [bookedAs EXCEPT ![s] = Month]
    BY DEF AskToBuy, ReserveSale, Grant, GrantFails, ReleaseSale, SaleDies
  <2>2. QED BY <1>0, <1>a, <2>1
<1>6. UNCHANGED <<now, cap, ceiling, strays, atVercel, linked, status, takenBack, planGrants>>
  BY DEF AskToBuy, ReserveSale, Grant, GrantFails, ReleaseSale, SaleDies, OnlySale
<1>7. QED BY <1>0, <1>1, <1>2, <1>3, <1>4, <1>5, <1>6 DEF SpendTypeOK, VercelTypeOK, SaleRecords

LEMMA RaiseTypes ==
  ASSUME SpendTypeOK, VercelTypeOK, NEW s \in Sale, NEW by \in Submitter,
         Retry(s) \/ Post(s, by) \/ PostFails(s, by) \/ Link(s, by) \/ LinkFails(s, by)
  PROVE  SpendTypeOK' /\ VercelTypeOK'
<1>1. raising' \in [Sale \X Submitter -> {"no", "posting", "linking"}]
  <2>1. \/ raising' = [raising EXCEPT ![<<s, "retry">>] = "posting"]
        \/ \E step \in {"no", "posting", "linking"} : raising' = [raising EXCEPT ![<<s, by>>] = step]
    BY DEF Retry, Post, PostFails, Link, LinkFails
  <2>2. QED BY <2>1, RaisingTyped, SubmittersTyped
<1>2. atVercel' \in [Sale -> {"none", "owed", "paid", "refunded"}]
  <2>1. atVercel' = atVercel \/ atVercel' = [atVercel EXCEPT ![s] = "owed"]
    BY DEF Retry, Post, PostFails, Link, LinkFails
  <2>2. QED BY <2>1 DEF VercelTypeOK
<1>3. linked' \subseteq Sale /\ status' \in [Sale -> {"none", "submitted", "paid", "refunded"}]
  <2>1. \/ linked' = linked /\ status' = status
        \/ linked' = linked \cup {s} /\ status' = [status EXCEPT ![s] = "submitted"]
    BY DEF Retry, Post, PostFails, Link, LinkFails
  <2>2. QED BY <2>1 DEF VercelTypeOK
<1>4. UNCHANGED <<spendVars, sale, bookedAs, takenBack, planGrants>>
  BY DEF Retry, Post, PostFails, Link, LinkFails, OnlyRaise
<1>5. QED BY <1>1, <1>2, <1>3, <1>4 DEF spendVars, SpendTypeOK, VercelTypeOK

LEMMA MarkTyped ==
  ASSUME VercelTypeOK, NEW s \in Sale, NEW to \in {"paid", "refunded"}, Mark(s, to)
  PROVE  status' \in [Sale -> {"none", "submitted", "paid", "refunded"}]
  BY DEF VercelTypeOK, Mark

LEMMA VercelWebhookTypes ==
  ASSUME SpendTypeOK, VercelTypeOK, NEW s \in Sale,
         CustomerPays(s) \/ VercelRefunds(s) \/ InvoicePaid(s) \/ InvoiceRefunded(s)
  PROVE  SpendTypeOK' /\ VercelTypeOK'
<1>1. CASE CustomerPays(s) \/ VercelRefunds(s)
  BY <1>1 DEF CustomerPays, VercelRefunds, Settle, spendVars, SpendTypeOK, VercelTypeOK
<1>2. CASE InvoicePaid(s)
  <2>1. status' \in [Sale -> {"none", "submitted", "paid", "refunded"}]
    BY <1>2, MarkTyped DEF InvoicePaid
  <2>2. balance' \in Nat /\ planGrants' \subseteq Sale
    BY <1>2, VercelAssumption DEF InvoicePaid, SpendTypeOK, VercelTypeOK
  <2>3. UNCHANGED <<now, cap, ceiling, charged, strays, sale, bookedAs, raising, atVercel, linked, takenBack>>
    BY <1>2 DEF InvoicePaid, OnlyPaid
  <2>4. QED BY <2>1, <2>2, <2>3 DEF SpendTypeOK, VercelTypeOK
<1>3. CASE InvoiceRefunded(s)
  <2>1. status' \in [Sale -> {"none", "submitted", "paid", "refunded"}]
    BY <1>3, MarkTyped DEF InvoiceRefunded
  <2>2. balance' \in Nat /\ takenBack' \subseteq Sale
    BY <1>3, AppliedTyped DEF InvoiceRefunded, SpendTypeOK, VercelTypeOK
  <2>3. charged' \in [Months -> Int]
    <3>1. charged' = charged \/ charged' = [charged EXCEPT ![bookedAs[s]] = Greatest(0, @ - Price)]
      BY <1>3 DEF InvoiceRefunded, RecordRefund
    <3>2. \A m \in Months : Greatest(0, charged[m] - Price) \in Int
      BY SpendCapAssumption DEF SpendTypeOK, Greatest
    <3>3. QED BY <3>1, <3>2 DEF SpendTypeOK
  <2>4. strays' \in [Months -> Nat]
    <3>1. \/ strays' = strays \/ strays' = [strays EXCEPT ![bookedAs[s]] = @]
          \/ strays' = [strays EXCEPT ![bookedAs[s]] = @ + 1]
      BY <1>3 DEF InvoiceRefunded
    <3>2. \A m \in Months : strays[m] + 1 \in Nat
      BY DEF SpendTypeOK
    <3>3. QED BY <3>1, <3>2 DEF SpendTypeOK
  <2>5. UNCHANGED <<now, cap, ceiling, sale, bookedAs, raising, atVercel, linked, planGrants>>
    BY <1>3 DEF InvoiceRefunded
  <2>6. QED BY <2>1, <2>2, <2>3, <2>4, <2>5 DEF SpendTypeOK, VercelTypeOK
<1>4. QED BY <1>1, <1>2, <1>3

LEMMA StepTypes == TypeOK /\ [Next]_vars => TypeOK'
<1> SUFFICES ASSUME TypeOK, [Next]_vars PROVE TypeOK'
  OBVIOUS
<1>0. SpendTypeOK /\ StripeTypeOK /\ VercelTypeOK /\ provider \in {"stripe", "vercel"}
  BY DEF TypeOK
<1>1. UNCHANGED spendVars => SpendTypeOK'
  BY <1>0 DEF spendVars, SpendTypeOK
<1>2. UNCHANGED stripeVars => StripeTypeOK'
  BY <1>0 DEF stripeVars, StripeTypeOK
<1>3. UNCHANGED vercelVars => VercelTypeOK'
  BY <1>0 DEF vercelVars, VercelTypeOK
<1>4. CASE UNCHANGED vars
  BY <1>0, <1>1, <1>2, <1>3, <1>4 DEF vars, TypeOK
<1>5. CASE World /\ UNCHANGED <<provider, stripeVars, vercelVars>>
  BY <1>0, <1>2, <1>3, <1>5, WorldTypes DEF TypeOK
<1>6. CASE OnStripe
  <2>1. SpendTypeOK' /\ StripeTypeOK'
    BY <1>0, <1>6, RechargeTypes, WebhookTypes DEF OnStripe, StripeStep
  <2>2. QED BY <1>0, <1>3, <1>6, <2>1 DEF OnStripe, TypeOK
<1>7. CASE OnVercel
  <2>1. SpendTypeOK' /\ VercelTypeOK'
    BY <1>0, <1>7, PurchaseTypes, RaiseTypes, VercelWebhookTypes, SubmittersTyped DEF OnVercel, VercelStep
  <2>2. QED BY <1>0, <1>2, <1>7, <2>1 DEF OnVercel, TypeOK
<1>8. QED BY <1>4, <1>5, <1>6, <1>7 DEF Next

\* Types: the total of a month, the balance, the purchases and their invoices stay what the tables hold; the
\* balance, which no refund may take below zero, stays a natural number.
THEOREM RechargeTypesHold == Spec => []TypeOK
  BY RechargeInitTypes, StepTypes, PTL DEF Spec

-----------------------------------------------------------------------------
(* Credit is extended once.                                                *)

Linking(s, by) == raising[<<s, by>>] = "linking"

\* An answer that names an invoice is in one submitter's hands, and until it is linked the purchase is owed.
LinkInv ==
    /\ \A s \in Sale, by \in Submitter : Linking(s, by) => s \notin linked /\ atVercel[s] # "none"
    /\ \A s \in linked : atVercel[s] # "none"
    /\ \A s \in Sale : \A by, other \in Submitter : Linking(s, by) /\ Linking(s, other) => by = other

OneOwed == \A s, t \in Outstanding : s = t

OwedInv == LinkInv /\ OneOwed

LEMMA OwedInit == Init => OwedInv
  BY DEF Init, VercelInit, OwedInv, LinkInv, OneOwed, Linking, Outstanding, Sold

LEMMA OwedKeeps ==
  ASSUME OwedInv, UNCHANGED <<raising, atVercel, linked>>, Outstanding' \subseteq Outstanding
  PROVE  OwedInv'
  BY DEF OwedInv, LinkInv, OneOwed, Linking

LEMMA OwedPurchase ==
  ASSUME VercelTypeOK, OwedInv, NEW s \in Sale,
         AskToBuy(s) \/ ReserveSale(s) \/ Grant(s) \/ GrantFails(s) \/ ReleaseSale(s) \/ SaleDies(s)
  PROVE  OwedInv'
<1>1. UNCHANGED <<atVercel, linked, status>>
  BY DEF AskToBuy, ReserveSale, Grant, GrantFails, ReleaseSale, SaleDies, OnlySale
<1>2. CASE Grant(s) /\ Outstanding = {}
  <2>1. \A t \in Sale : t # s => sale'[t] = sale[t]
    BY <1>2 DEF Grant, VercelTypeOK
  <2>2. Outstanding' \subseteq {s}
    BY <1>1, <1>2, <2>1 DEF Outstanding, Sold
  <2>3. \A t \in Sale, by \in Submitter : raising'[<<t, by>>] = "linking" => raising[<<t, by>>] = "linking"
    BY <1>2, SubmittersTyped DEF Grant, VercelTypeOK
  <2>4. QED BY <1>1, <2>2, <2>3 DEF OwedInv, LinkInv, OneOwed, Linking
<1>3. CASE ~(Grant(s) /\ Outstanding = {})
  <2>1. UNCHANGED raising
    BY <1>3 DEF AskToBuy, ReserveSale, Grant, GrantFails, ReleaseSale, SaleDies
  <2>2. \A t \in Sale : t # s => sale'[t] = sale[t]
    BY <1>3 DEF AskToBuy, ReserveSale, Grant, GrantFails, ReleaseSale, SaleDies, VercelTypeOK
  <2>3. sale'[s].at # "sold"
    BY <1>3 DEF AskToBuy, ReserveSale, Grant, GrantFails, ReleaseSale, SaleDies, VercelTypeOK
  <2>4. Outstanding' \subseteq Outstanding
    BY <1>1, <2>2, <2>3 DEF Outstanding, Sold
  <2>5. QED BY <1>1, <2>1, <2>4, OwedKeeps
<1>4. QED BY <1>2, <1>3

LEMMA OwedRaise ==
  ASSUME VercelTypeOK, OwedInv, NEW s \in Sale, NEW by \in Submitter,
         Retry(s) \/ Post(s, by) \/ PostFails(s, by) \/ Link(s, by) \/ LinkFails(s, by)
  PROVE  OwedInv'
<1>1. UNCHANGED sale
  BY DEF Retry, Post, PostFails, Link, LinkFails, OnlyRaise
<1>2. Sold' = Sold
  BY <1>1 DEF Sold
<1>3. CASE Retry(s) \/ PostFails(s, by) \/ LinkFails(s, by)
  <2>1. UNCHANGED <<linked, status>> /\ Outstanding' = Outstanding
    BY <1>2, <1>3 DEF Retry, PostFails, LinkFails, Outstanding
  <2>2. \A t \in Sale : atVercel[t] # "none" => atVercel'[t] # "none"
    BY <1>3 DEF Retry, PostFails, LinkFails, VercelTypeOK
  <2>3. \A t \in Sale, b \in Submitter : Linking(t, b)' => Linking(t, b)
    BY <1>3, SubmittersTyped DEF Retry, PostFails, LinkFails, VercelTypeOK, Linking
  <2>4. QED BY <2>1, <2>2, <2>3 DEF OwedInv, LinkInv, OneOwed, VercelTypeOK
<1>4. CASE Post(s, by)
  <2>1. UNCHANGED <<linked, status>> /\ Outstanding' = Outstanding
    BY <1>2, <1>4 DEF Post, Outstanding
  <2>2. atVercel[s] = "none" /\ atVercel'[s] # "none" /\ \A t \in Sale : atVercel[t] # "none" => atVercel'[t] # "none"
    BY <1>4 DEF Post, VercelTypeOK
  <2>3. s \notin linked /\ \A b \in Submitter : ~Linking(s, b)
    BY <2>2 DEF OwedInv, LinkInv
  <2>4. \A t \in Sale, b \in Submitter : Linking(t, b)' => Linking(t, b) \/ (t = s /\ b = by)
    BY <1>4 DEF Post, VercelTypeOK, Linking
  <2>5. QED BY <2>1, <2>2, <2>3, <2>4 DEF OwedInv, LinkInv, OneOwed, VercelTypeOK
<1>5. CASE Link(s, by)
  <2>1. UNCHANGED atVercel /\ linked' = linked \cup {s}
    BY <1>5 DEF Link
  <2>2. Linking(s, by)
    BY <1>5 DEF Link, Linking
  <2>3. \A t \in Sale, b \in Submitter : Linking(t, b)' => Linking(t, b) /\ ~(t = s /\ b = by)
    BY <1>5 DEF Link, VercelTypeOK, Linking
  <2>4. \A t \in Sale : t # s => status'[t] = status[t]
    BY <1>5 DEF Link, VercelTypeOK
  <2>5. s \notin linked /\ atVercel[s] # "none"
    BY <2>2 DEF OwedInv, LinkInv
  <2>6. Outstanding' \subseteq Outstanding
    BY <1>2, <2>1, <2>4, <2>5 DEF Outstanding, Sold
  <2>7. LinkInv'
    BY <2>1, <2>2, <2>3, <2>5 DEF OwedInv, LinkInv
  <2>8. QED BY <2>6, <2>7 DEF OwedInv, OneOwed
<1>6. QED BY <1>3, <1>4, <1>5

LEMMA OwedMark ==
  ASSUME VercelTypeOK, NEW s \in Sale, NEW to \in {"paid", "refunded"}, Mark(s, to), UNCHANGED <<sale, linked>>
  PROVE  Outstanding' \subseteq Outstanding
<1>1. \A t \in Sale : status'[t] = "submitted" => status[t] = "submitted"
  BY DEF Mark, VercelTypeOK
<1>2. QED BY <1>1 DEF Outstanding, Sold

LEMMA OwedWebhook ==
  ASSUME VercelTypeOK, OwedInv, NEW s \in Sale,
         CustomerPays(s) \/ VercelRefunds(s) \/ InvoicePaid(s) \/ InvoiceRefunded(s)
  PROVE  OwedInv'
<1>1. CASE CustomerPays(s) \/ VercelRefunds(s)
  <2>1. UNCHANGED <<sale, raising, linked, status>>
    BY <1>1 DEF CustomerPays, VercelRefunds, Settle
  <2>2. \A t \in Sale : atVercel[t] # "none" => atVercel'[t] # "none"
    BY <1>1 DEF CustomerPays, VercelRefunds, Settle, VercelTypeOK
  <2>3. QED BY <2>1, <2>2 DEF OwedInv, LinkInv, OneOwed, Linking, Outstanding, Sold, VercelTypeOK
<1>2. CASE InvoicePaid(s) \/ InvoiceRefunded(s)
  <2>1. UNCHANGED <<sale, raising, atVercel, linked>>
    BY <1>2 DEF InvoicePaid, OnlyPaid, InvoiceRefunded
  <2>2. Outstanding' \subseteq Outstanding
    BY <1>2, <2>1, OwedMark DEF InvoicePaid, InvoiceRefunded
  <2>3. QED BY <2>1, <2>2, OwedKeeps
<1>3. QED BY <1>1, <1>2

LEMMA OwedStep == TypeOK /\ OwedInv /\ [Next]_vars => OwedInv'
<1> SUFFICES ASSUME TypeOK, OwedInv, [Next]_vars PROVE OwedInv'
  OBVIOUS
<1>1. VercelTypeOK
  BY DEF TypeOK
<1>2. UNCHANGED vercelVars => OwedInv'
  BY OwedKeeps DEF vercelVars, Outstanding, Sold
<1>3. CASE OnVercel
  BY <1>1, <1>3, OwedPurchase, OwedRaise, OwedWebhook, SubmittersTyped DEF OnVercel, VercelStep
<1>4. QED BY <1>2, <1>3 DEF Next, OnStripe, vars

\* OneUnpaidPurchase: whatever calls of purchase race, at most one package is sold and not paid for.
THEOREM OneUnpaidPurchaseAlways == Spec => []OneUnpaidPurchase
<1>1. TypeOK /\ OwedInv => OneUnpaidPurchase
  <2> SUFFICES ASSUME OwedInv PROVE Cardinality(Outstanding) <= 1
    BY DEF OneUnpaidPurchase
  <2>1. CASE Outstanding = {}
    <3>1. Cardinality(Outstanding) = 0
      BY <2>1, FS_EmptySet
    <3>2. QED BY <3>1
  <2>2. ASSUME NEW s \in Outstanding PROVE Cardinality(Outstanding) <= 1
    <3>1. Outstanding = {s}
      BY DEF OwedInv, OneOwed
    <3>2. Cardinality(Outstanding) = 1
      BY <3>1, FS_Singleton
    <3>3. QED BY <3>2
  <2>3. QED BY <2>1, <2>2
<1>2. QED BY <1>1, RechargeTypesHold, OwedInit, OwedStep, PTL DEF Spec

-----------------------------------------------------------------------------
(* Counting.                                                               *)

LEMMA Smaller ==
  ASSUME NEW T, IsFiniteSet(T), NEW S, S \subseteq T
  PROVE  IsFiniteSet(S) /\ Cardinality(S) \in Nat /\ Cardinality(T) \in Nat /\ Cardinality(S) <= Cardinality(T)
  BY FS_Subset, FS_CardinalityType

LEMMA OneMore ==
  ASSUME NEW T, IsFiniteSet(T), NEW x, NEW S, S \subseteq T \cup {x}
  PROVE  IsFiniteSet(S) /\ Cardinality(S) \in Nat /\ Cardinality(T) \in Nat /\ Cardinality(S) <= Cardinality(T) + 1
<1>1. IsFiniteSet(T \cup {x}) /\ Cardinality(T) \in Nat
  BY FS_AddElement, FS_CardinalityType
<1>2. Cardinality(T \cup {x}) = Cardinality(T) \/ Cardinality(T \cup {x}) = Cardinality(T) + 1
  BY FS_AddElement
<1>3. Cardinality(S) \in Nat /\ IsFiniteSet(S) /\ Cardinality(S) <= Cardinality(T \cup {x})
  BY <1>1, FS_Subset, FS_CardinalityType
<1>4. QED BY <1>1, <1>2, <1>3

LEMMA OneLess ==
  ASSUME NEW T, IsFiniteSet(T), NEW x \in T, NEW S, S \subseteq T \ {x}
  PROVE  IsFiniteSet(S) /\ Cardinality(S) \in Nat /\ Cardinality(T) \in Nat /\ Cardinality(S) + 1 <= Cardinality(T)
<1>1. IsFiniteSet(T \ {x}) /\ Cardinality(T \ {x}) = Cardinality(T) - 1 /\ Cardinality(T) \in Nat
  BY FS_RemoveElement, FS_CardinalityType
<1>2. Cardinality(S) \in Nat /\ IsFiniteSet(S) /\ Cardinality(S) <= Cardinality(T \ {x})
  BY <1>1, FS_Subset, FS_CardinalityType
<1>3. QED BY <1>1, <1>2

LEMMA TimesMono == ASSUME NEW p \in Nat, NEW x \in Nat, NEW y \in Nat, x <= y PROVE p * x <= p * y
<1> DEFINE d == y - x
<1>1. d \in Nat /\ y = x + d
  OBVIOUS
<1>2. p * y = p * x + p * d
  BY <1>1
<1>3. p * d \in Nat /\ p * x \in Nat
  BY <1>1
<1> HIDE DEF d
<1>4. QED BY <1>2, <1>3

LEMMA TimesNext == ASSUME NEW p \in Nat, NEW x \in Nat PROVE p * (x + 1) = p * x + p /\ p * x \in Nat
  OBVIOUS

-----------------------------------------------------------------------------
(* What is held of a month's ceiling, and what was charged under it.       *)

\* Reservations made in a month that are still held.
Held(m) ==
    IF provider = "stripe"
      THEN {a \in Recharger : recharge[a].at \in {"reserved", "failed"} /\ recharge[a].month = m}
      ELSE {s \in Sale : sale[s].at \in {"reserved", "refused"} /\ sale[s].month = m}

\* Charges made under a month, by hand or not, and not given back.
Counted(m) ==
    IF provider = "stripe"
      THEN {i \in Intent : intent[i] = "paid" /\ bookedIn[i] = m /\ i \notin revoked}
      ELSE ChargedTo(m)

Load(m) == Cardinality(Held(m)) + Cardinality(Counted(m))
Recharged(m) == Cardinality(Held(m)) + Cardinality(ChargedTo(m))

\* The month's total counts every reservation and charge, and was under the ceiling when each was reserved.
Covered(m) ==
    /\ Price * Load(m) <= charged[m] + Price * strays[m]
    /\ Price * Recharged(m) <= ceiling + Price * strays[m]

\* What is granted, unrecorded or recorded was paid; what is raised or linked was sold.
PaidInv ==
    /\ \A i \in Intent : granted[i] # NoMonth => intent[i] = "paid"
    /\ \A c \in Checkout : c \in unrecorded \/ bookedIn[c] # NoMonth => intent[c] = "paid"

SoldInv ==
    /\ \A s \in Sale, by \in Submitter : raising[<<s, by>>] # "no" => sale[s].at = "sold"
    /\ \A s \in linked : sale[s].at = "sold"

CapInv == cap <= ceiling /\ (\A m \in Months : Covered(m)) /\ PaidInv /\ SoldInv

LEMMA FiniteSides == IsFiniteSet(Recharger) /\ IsFiniteSet(Intent) /\ IsFiniteSet(Sale) /\ Time \subseteq Intent
<1>1. IsFiniteSet(Time)
  BY FS_Interval, SpendCapAssumption DEF Time
<1>2. QED BY <1>1, StripeAssumption, VercelAssumption, FS_Union DEF Intent

LEMMA Numbers ==
  ASSUME NEW m
  PROVE  /\ IsFiniteSet(Held(m)) /\ IsFiniteSet(Counted(m)) /\ IsFiniteSet(ChargedTo(m))
         /\ Cardinality(Held(m)) \in Nat /\ Cardinality(Counted(m)) \in Nat /\ Cardinality(ChargedTo(m)) \in Nat
         /\ Cardinality(ChargedTo(m)) <= Cardinality(Counted(m))
         /\ Load(m) \in Nat /\ Recharged(m) \in Nat /\ Recharged(m) <= Load(m)
<1>1. IsFiniteSet(Held(m)) /\ Cardinality(Held(m)) \in Nat
  <2>1. Held(m) \subseteq Recharger \/ Held(m) \subseteq Sale
    BY DEF Held
  <2>2. QED BY <2>1, FiniteSides, Smaller
<1>2. IsFiniteSet(Counted(m)) /\ Cardinality(Counted(m)) \in Nat
  <2>1. Counted(m) \subseteq Intent \/ Counted(m) \subseteq Sale
    BY DEF Counted, ChargedTo, Sold
  <2>2. QED BY <2>1, FiniteSides, Smaller
<1>3. ChargedTo(m) \subseteq Counted(m)
  BY FiniteSides DEF Counted, ChargedTo
<1>4. IsFiniteSet(ChargedTo(m)) /\ Cardinality(ChargedTo(m)) \in Nat /\ Cardinality(ChargedTo(m)) <= Cardinality(Counted(m))
  BY <1>2, <1>3, Smaller
<1>5. QED BY <1>1, <1>2, <1>4 DEF Load, Recharged

LEMMA NumbersNext ==
  ASSUME NEW m
  PROVE  Load(m)' \in Nat /\ Recharged(m)' \in Nat
<1>1. IsFiniteSet(Held(m)') /\ Cardinality(Held(m)') \in Nat
  <2>1. Held(m)' \subseteq Recharger \/ Held(m)' \subseteq Sale
    BY DEF Held
  <2>2. QED BY <2>1, FiniteSides, Smaller
<1>2. IsFiniteSet(Counted(m)') /\ Cardinality(Counted(m)') \in Nat
  <2>1. Counted(m)' \subseteq Intent \/ Counted(m)' \subseteq Sale
    BY DEF Counted, ChargedTo, Sold
  <2>2. QED BY <2>1, FiniteSides, Smaller
<1>3. ChargedTo(m)' \subseteq Counted(m)'
  BY FiniteSides DEF Counted, ChargedTo
<1>4. Cardinality(ChargedTo(m)') \in Nat
  BY <1>2, <1>3, Smaller
<1>5. QED BY <1>1, <1>2, <1>4 DEF Load, Recharged

\* How one step may change a month.
Quiet(m) == Load(m)' <= Load(m) /\ Recharged(m)' <= Recharged(m) /\ charged'[m] = charged[m] /\ strays'[m] = strays[m]
Draws(m) ==
    /\ Load(m)' <= Load(m) + 1 /\ charged'[m] = charged[m] + Price /\ strays'[m] = strays[m]
    /\ Recharged(m)' <= Recharged(m) \/ (Recharged(m)' <= Recharged(m) + 1 /\ charged[m] + Price <= ceiling)
Strays(m) ==
    /\ Load(m)' <= Load(m) + 1 /\ Recharged(m)' <= Recharged(m) + 1
    /\ charged'[m] = charged[m] /\ strays'[m] = strays[m] + 1
Frees(m) ==
    /\ Load(m)' + 1 <= Load(m) /\ Recharged(m)' <= Recharged(m)
    /\ charged'[m] >= charged[m] - Price /\ strays'[m] = strays[m]
Drifts(m) ==
    /\ Load(m)' <= Load(m) /\ Recharged(m)' <= Recharged(m)
    /\ charged'[m] >= charged[m] - Price /\ strays'[m] = strays[m] + 1

LEMMA LowerTop ==
  ASSUME NEW p \in Nat, NEW x \in Nat, NEW y \in Nat, NEW z \in Nat, NEW k \in Nat, p * x <= p * y, p * y <= z + p * k
  PROVE  p * x <= z + p * k
<1>1. p * x \in Nat /\ p * y \in Nat /\ p * k \in Nat
  OBVIOUS
<1>2. QED BY <1>1

LEMMA HigherTop ==
  ASSUME NEW x \in Nat, NEW y \in Nat, NEW z \in Nat, NEW w \in Nat, x <= y + z, y <= w
  PROVE  x <= w + z
  OBVIOUS

LEMMA CoveredKeeps ==
  ASSUME SpendTypeOK, SpendTypeOK', NEW m \in Months, Covered(m), ceiling <= ceiling',
         Quiet(m) \/ (UNCHANGED ceiling /\ (Draws(m) \/ Strays(m) \/ Frees(m) \/ Drifts(m)))
  PROVE  Covered(m)'
<1> DEFINE p == Price
           n == Load(m)     a == Recharged(m)    c == charged[m]     k == strays[m]
           n2 == Load(m)'   a2 == Recharged(m)'  c2 == charged'[m]   k2 == strays'[m]
           pn == p * n      pa == p * a     pk == p * k
           pn2 == p * n2    pa2 == p * a2   pk2 == p * k2
<1>1. /\ p \in Nat /\ n \in Nat /\ a \in Nat /\ k \in Nat /\ c \in Int
      /\ n2 \in Nat /\ a2 \in Nat /\ k2 \in Nat /\ c2 \in Int
      /\ ceiling \in Nat /\ ceiling' \in Nat /\ a <= n
  BY Numbers, NumbersNext, SpendCapAssumption DEF SpendTypeOK
<1>2. pn <= c + pk /\ pa <= ceiling + pk
  BY DEF Covered
<1>3. \/ n2 <= n /\ a2 <= a /\ c2 = c /\ k2 = k
      \/ n2 <= n + 1 /\ c2 = c + p /\ k2 = k /\ (a2 <= a \/ (a2 <= a + 1 /\ c + p <= ceiling))
      \/ n2 <= n + 1 /\ a2 <= a + 1 /\ c2 = c /\ k2 = k + 1
      \/ n2 + 1 <= n /\ a2 <= a /\ c2 >= c - p /\ k2 = k
      \/ n2 <= n /\ a2 <= a /\ c2 >= c - p /\ k2 = k + 1
  BY DEF Quiet, Draws, Strays, Frees, Drifts
<1>4. (pn2 <= c2 + pk2 /\ pa2 <= ceiling' + pk2) => Covered(m)'
  BY DEF Covered
<1> HIDE DEF p, n, a, c, k, n2, a2, c2, k2
<1>5. pn \in Nat /\ pa \in Nat /\ pk \in Nat /\ pn2 \in Nat /\ pa2 \in Nat /\ pk2 \in Nat
  BY <1>1
<1>6. pa <= pn
  BY <1>1, TimesMono
<1>7. (n2 <= n => pn2 <= pn) /\ (a2 <= a => pa2 <= pa) /\ (k2 = k => pk2 = pk)
  BY <1>1, TimesMono
<1>8. (n2 <= n + 1 => pn2 <= pn + p) /\ (a2 <= a + 1 => pa2 <= pa + p)
  <2>1. p * (n + 1) = pn + p /\ p * (a + 1) = pa + p /\ n + 1 \in Nat /\ a + 1 \in Nat
    BY <1>1, TimesNext
  <2>2. (n2 <= n + 1 => pn2 <= p * (n + 1)) /\ (a2 <= a + 1 => pa2 <= p * (a + 1))
    BY <1>1, <2>1, TimesMono
  <2>3. QED BY <2>1, <2>2
<1>9. (k2 = k + 1 => pk2 = pk + p) /\ (n2 + 1 <= n => pn2 + p <= pn)
  <2>1. p * (k + 1) = pk + p /\ p * (n2 + 1) = pn2 + p /\ n2 + 1 \in Nat
    BY <1>1, TimesNext
  <2>2. n2 + 1 <= n => p * (n2 + 1) <= pn
    BY <1>1, <2>1, TimesMono
  <2>3. QED BY <2>1, <2>2
<1> HIDE DEF pn, pa, pk, pn2, pa2, pk2
<1>10. pn2 <= c2 + pk2 /\ pa2 <= ceiling + pk2
  <2>1. CASE n2 <= n /\ a2 <= a /\ c2 = c /\ k2 = k
    BY <1>1, <1>2, <1>5, <1>7, <2>1
  <2>2. CASE n2 <= n + 1 /\ c2 = c + p /\ k2 = k /\ (a2 <= a \/ (a2 <= a + 1 /\ c + p <= ceiling))
    BY <1>1, <1>2, <1>5, <1>6, <1>7, <1>8, <2>2
  <2>3. CASE n2 <= n + 1 /\ a2 <= a + 1 /\ c2 = c /\ k2 = k + 1
    BY <1>1, <1>2, <1>5, <1>8, <1>9, <2>3
  <2>4. CASE n2 + 1 <= n /\ a2 <= a /\ c2 >= c - p /\ k2 = k
    BY <1>1, <1>2, <1>5, <1>7, <1>9, <2>4
  <2>5. CASE n2 <= n /\ a2 <= a /\ c2 >= c - p /\ k2 = k + 1
    BY <1>1, <1>2, <1>5, <1>7, <1>9, <2>5
  <2>6. QED BY <1>3, <2>1, <2>2, <2>3, <2>4, <2>5
<1>11. pa2 <= ceiling' + pk2
  BY <1>1, <1>5, <1>10, HigherTop
<1>12. QED BY <1>4, <1>10, <1>11

-----------------------------------------------------------------------------
(* What a change of the sets does to the numbers.                          *)

LEMMA SetsShrink ==
  ASSUME NEW m, Held(m)' \subseteq Held(m), Counted(m)' \subseteq Counted(m), ChargedTo(m)' \subseteq ChargedTo(m)
  PROVE  Load(m)' <= Load(m) /\ Recharged(m)' <= Recharged(m)
<1>1. Cardinality(Held(m)') <= Cardinality(Held(m)) /\ Cardinality(Held(m)') \in Nat
  BY Numbers, Smaller
<1>2. Cardinality(Counted(m)') <= Cardinality(Counted(m)) /\ Cardinality(Counted(m)') \in Nat
  BY Numbers, Smaller
<1>3. Cardinality(ChargedTo(m)') <= Cardinality(ChargedTo(m)) /\ Cardinality(ChargedTo(m)') \in Nat
  BY Numbers, Smaller
<1>4. QED BY <1>1, <1>2, <1>3, Numbers DEF Load, Recharged

LEMMA OneHeld ==
  ASSUME NEW m, NEW x, Held(m)' \subseteq Held(m) \cup {x}, Counted(m)' \subseteq Counted(m), ChargedTo(m)' \subseteq ChargedTo(m)
  PROVE  Load(m)' <= Load(m) + 1 /\ Recharged(m)' <= Recharged(m) + 1
<1>1. Cardinality(Held(m)') <= Cardinality(Held(m)) + 1 /\ Cardinality(Held(m)') \in Nat
  BY Numbers, OneMore
<1>2. Cardinality(Counted(m)') <= Cardinality(Counted(m)) /\ Cardinality(Counted(m)') \in Nat
  BY Numbers, Smaller
<1>3. Cardinality(ChargedTo(m)') <= Cardinality(ChargedTo(m)) /\ Cardinality(ChargedTo(m)') \in Nat
  BY Numbers, Smaller
<1>4. QED BY <1>1, <1>2, <1>3, Numbers DEF Load, Recharged

LEMMA OneCounted ==
  ASSUME NEW m, NEW x, Held(m)' \subseteq Held(m), Counted(m)' \subseteq Counted(m) \cup {x}, ChargedTo(m)' \subseteq ChargedTo(m) \cup {x}
  PROVE  /\ Load(m)' <= Load(m) + 1 /\ Recharged(m)' <= Recharged(m) + 1
         /\ ChargedTo(m)' \subseteq ChargedTo(m) => Recharged(m)' <= Recharged(m)
<1>1. Cardinality(Held(m)') <= Cardinality(Held(m)) /\ Cardinality(Held(m)') \in Nat
  BY Numbers, Smaller
<1>2. Cardinality(Counted(m)') <= Cardinality(Counted(m)) + 1 /\ Cardinality(Counted(m)') \in Nat
  BY Numbers, OneMore
<1>3. Cardinality(ChargedTo(m)') <= Cardinality(ChargedTo(m)) + 1 /\ Cardinality(ChargedTo(m)') \in Nat
  BY Numbers, OneMore
<1>4. ChargedTo(m)' \subseteq ChargedTo(m) => Cardinality(ChargedTo(m)') <= Cardinality(ChargedTo(m))
  BY Numbers, Smaller
<1>5. QED BY <1>1, <1>2, <1>3, <1>4, Numbers DEF Load, Recharged

LEMMA HeldFreed ==
  ASSUME NEW m, NEW x \in Held(m), Held(m)' \subseteq Held(m) \ {x}, Counted(m)' \subseteq Counted(m), ChargedTo(m)' \subseteq ChargedTo(m)
  PROVE  Load(m)' + 1 <= Load(m) /\ Recharged(m)' <= Recharged(m)
<1>1. Cardinality(Held(m)') + 1 <= Cardinality(Held(m)) /\ Cardinality(Held(m)') \in Nat
  BY Numbers, OneLess
<1>2. Cardinality(Counted(m)') <= Cardinality(Counted(m)) /\ Cardinality(Counted(m)') \in Nat
  BY Numbers, Smaller
<1>3. Cardinality(ChargedTo(m)') <= Cardinality(ChargedTo(m)) /\ Cardinality(ChargedTo(m)') \in Nat
  BY Numbers, Smaller
<1>4. QED BY <1>1, <1>2, <1>3, Numbers DEF Load, Recharged

LEMMA CountedFreed ==
  ASSUME NEW m, NEW x \in Counted(m), Held(m)' \subseteq Held(m), Counted(m)' \subseteq Counted(m) \ {x}, ChargedTo(m)' \subseteq ChargedTo(m)
  PROVE  Load(m)' + 1 <= Load(m) /\ Recharged(m)' <= Recharged(m)
<1>1. Cardinality(Held(m)') <= Cardinality(Held(m)) /\ Cardinality(Held(m)') \in Nat
  BY Numbers, Smaller
<1>2. Cardinality(Counted(m)') + 1 <= Cardinality(Counted(m)) /\ Cardinality(Counted(m)') \in Nat
  BY Numbers, OneLess
<1>3. Cardinality(ChargedTo(m)') <= Cardinality(ChargedTo(m)) /\ Cardinality(ChargedTo(m)') \in Nat
  BY Numbers, Smaller
<1>4. QED BY <1>1, <1>2, <1>3, Numbers DEF Load, Recharged

LEMMA HeldCharged ==
  ASSUME NEW m, NEW x \in Held(m), NEW y, Held(m)' \subseteq Held(m) \ {x},
         Counted(m)' \subseteq Counted(m) \cup {y}, ChargedTo(m)' \subseteq ChargedTo(m) \cup {y}
  PROVE  Load(m)' <= Load(m) /\ Recharged(m)' <= Recharged(m)
<1>1. Cardinality(Held(m)') + 1 <= Cardinality(Held(m)) /\ Cardinality(Held(m)') \in Nat
  BY Numbers, OneLess
<1>2. Cardinality(Counted(m)') <= Cardinality(Counted(m)) + 1 /\ Cardinality(Counted(m)') \in Nat
  BY Numbers, OneMore
<1>3. Cardinality(ChargedTo(m)') <= Cardinality(ChargedTo(m)) + 1 /\ Cardinality(ChargedTo(m)') \in Nat
  BY Numbers, OneMore
<1>4. QED BY <1>1, <1>2, <1>3, Numbers DEF Load, Recharged

LEMMA RoomIsUnderCeiling == SpendTypeOK /\ cap <= ceiling /\ HasRoom => charged[Month] + Price <= ceiling
  BY MonthTyped, SpendCapAssumption DEF HasRoom, SpendTypeOK

LEMMA OneChange ==
  ASSUME SpendTypeOK, NEW m \in Months, NEW k, NEW v, NEW f, f = charged, charged' = [f EXCEPT ![k] = v]
  PROVE  (k = m => charged'[m] = v) /\ (k # m => charged'[m] = charged[m])
  BY DEF SpendTypeOK

-----------------------------------------------------------------------------
(* Recharges.                                                              *)

LEMMA CardSets ==
  ASSUME provider = "stripe", UNCHANGED provider, NEW m
  PROVE  /\ Held(m) = {a \in Recharger : recharge[a].at \in {"reserved", "failed"} /\ recharge[a].month = m}
         /\ Held(m)' = {a \in Recharger : recharge'[a].at \in {"reserved", "failed"} /\ recharge'[a].month = m}
         /\ Counted(m) = {i \in Intent : intent[i] = "paid" /\ bookedIn[i] = m /\ i \notin revoked}
         /\ Counted(m)' = {i \in Intent : intent'[i] = "paid" /\ bookedIn'[i] = m /\ i \notin revoked'}
         /\ ChargedTo(m) = {t \in Time : intent[t] = "paid" /\ bookedIn[t] = m /\ t \notin revoked}
         /\ ChargedTo(m)' = {t \in Time : intent'[t] = "paid" /\ bookedIn'[t] = m /\ t \notin revoked'}
  BY DEF Held, Counted, ChargedTo

LEMMA CardSame ==
  ASSUME provider = "stripe", UNCHANGED <<provider, intent, bookedIn>>, revoked \subseteq revoked', NEW m
  PROVE  Counted(m)' \subseteq Counted(m) /\ ChargedTo(m)' \subseteq ChargedTo(m)
<1>1. Counted(m)' \subseteq Counted(m)
  BY DEF Counted
<1>2. ChargedTo(m)' \subseteq ChargedTo(m)
  BY DEF ChargedTo
<1>3. QED BY <1>1, <1>2

LEMMA HeldSame ==
  ASSUME provider = "stripe", UNCHANGED <<provider, recharge>>, NEW m
  PROVE  Held(m)' = Held(m)
  BY DEF Held

\* A recharge that leaves holds nothing.
LEMMA HeldLess ==
  ASSUME provider = "stripe", UNCHANGED provider, StripeTypeOK, NEW a \in Recharger, NEW m,
         recharge' = [recharge EXCEPT ![a] = recharge'[a]], recharge'[a].at \notin {"reserved", "failed"}
  PROVE  /\ Held(m)' \subseteq Held(m) \ {a}
         /\ recharge[a].at \in {"reserved", "failed"} => (a \in Held(m) <=> recharge[a].month = m)
  BY CardSets DEF StripeTypeOK

\* A recharge that fails holds what it held.
LEMMA HeldStays ==
  ASSUME provider = "stripe", UNCHANGED provider, StripeTypeOK, NEW a \in Recharger, NEW m,
         recharge[a].at = "reserved", recharge' = [recharge EXCEPT ![a].at = "failed"]
  PROVE  Held(m)' \subseteq Held(m)
<1>1. \A b \in Recharger : recharge'[b].month = recharge[b].month /\ (b # a => recharge'[b].at = recharge[b].at)
  BY DEF StripeTypeOK
<1>2. QED BY <1>1, CardSets

LEMMA AskedCharges ==
  ASSUME provider = "stripe", UNCHANGED <<provider, revoked>>, SpendTypeOK, StripeTypeOK, NEW a \in Recharger, NEW m, AskStripe(a)
  PROVE  /\ Counted(m)' \subseteq Counted(m) \cup {now} /\ ChargedTo(m)' \subseteq ChargedTo(m) \cup {now}
         /\ recharge[a].month # m \/ intent'[now] = "declined" => Counted(m)' \subseteq Counted(m) /\ ChargedTo(m)' \subseteq ChargedTo(m)
<1>1. now \in Intent /\ Time \subseteq Intent
  BY FiniteSides DEF SpendTypeOK
<1>2. CASE UNCHANGED <<intent, bookedIn>>
  BY <1>2, CardSame
<1>3. CASE intent[now] = "none" /\ bookedIn' = [bookedIn EXCEPT ![now] = recharge[a].month]
  <2>1. \A i \in Intent : i # now => intent'[i] = intent[i] /\ bookedIn'[i] = bookedIn[i]
    BY <1>1, <1>3 DEF AskStripe, StripeTypeOK
  <2>2. bookedIn'[now] = recharge[a].month
    BY <1>1, <1>3 DEF StripeTypeOK
  <2>3. QED BY <1>1, <2>1, <2>2, CardSets
<1>4. QED BY <1>2, <1>3 DEF AskStripe

\* What one step does to one month's total and what it lost track of.
Changes(m) == Quiet(m) \/ (UNCHANGED ceiling /\ (Draws(m) \/ Strays(m) \/ Frees(m) \/ Drifts(m)))

LEMMA ReserveChanges ==
  ASSUME provider = "stripe", UNCHANGED provider, SpendTypeOK, StripeTypeOK, cap <= ceiling,
         NEW a \in Recharger, NEW m \in Months, Reserve(a)
  PROVE  Changes(m)
<1>0. UNCHANGED <<ceiling, strays, intent, bookedIn, revoked>>
  BY DEF Reserve, OnlyRecharge
<1>1. Counted(m)' \subseteq Counted(m) /\ ChargedTo(m)' \subseteq ChargedTo(m)
  BY <1>0, CardSame
<1>2. CASE HasRoom
  <2>1. charged' = [charged EXCEPT ![Month] = charged[Month] + Price] /\ recharge' = [recharge EXCEPT ![a] = [at |-> "reserved", month |-> Month]]
    BY <1>2 DEF Reserve, Draw
  <2>2. \A b \in Recharger : b # a => recharge'[b] = recharge[b]
    BY <2>1 DEF StripeTypeOK
  <2>3. recharge'[a].month = Month
    BY <2>1 DEF StripeTypeOK
  <2>4. (m = Month => charged'[m] = charged[m] + Price) /\ (m # Month => charged'[m] = charged[m])
    BY <2>1, OneChange
  <2>5. CASE m = Month
    <3>1. Held(m)' \subseteq Held(m) \cup {a}
      BY <2>2, CardSets
    <3>2. QED BY <1>0, <1>1, <1>2, <2>4, <2>5, <3>1, OneHeld, RoomIsUnderCeiling DEF Changes, Draws
  <2>6. CASE m # Month
    <3>1. Held(m)' \subseteq Held(m)
      BY <2>2, <2>3, <2>6, CardSets
    <3>2. QED BY <1>0, <1>1, <2>4, <2>6, <3>1, SetsShrink DEF Changes, Quiet
  <2>7. QED BY <2>5, <2>6
<1>3. CASE ~HasRoom
  <2>1. charged' = charged /\ recharge' = [recharge EXCEPT ![a].at = "idle"]
    BY <1>3 DEF Reserve
  <2>2. \A b \in Recharger : b # a => recharge'[b] = recharge[b]
    BY <2>1 DEF StripeTypeOK
  <2>3. recharge'[a].at = "idle"
    BY <2>1 DEF StripeTypeOK
  <2>4. Held(m)' \subseteq Held(m)
    BY <2>2, <2>3, CardSets
  <2>5. QED BY <1>0, <1>1, <2>1, <2>4, SetsShrink DEF Changes, Quiet
<1>4. QED BY <1>2, <1>3

LEMMA IdleHolds ==
  ASSUME provider = "stripe", UNCHANGED provider, StripeTypeOK, NEW a \in Recharger, NEW m, Idle(a)
  PROVE  /\ Held(m)' \subseteq Held(m) \ {a}
         /\ recharge[a].at \in {"reserved", "failed"} => (a \in Held(m) <=> recharge[a].month = m)
<1>1. recharge' = [recharge EXCEPT ![a] = recharge'[a]] /\ recharge'[a].at = "idle"
  BY DEF Idle, StripeTypeOK
<1>2. QED BY <1>1, HeldLess

LEMMA ChargeChanges ==
  ASSUME provider = "stripe", UNCHANGED provider, SpendTypeOK, StripeTypeOK, NEW a \in Recharger, NEW m \in Months, Charge(a)
  PROVE  Changes(m)
<1>0. UNCHANGED <<charged, strays, revoked>> /\ recharge[a].at = "reserved" /\ AskStripe(a) /\ Idle(a)
  BY DEF Charge, OnlyRecharge
<1>1. /\ Held(m)' \subseteq Held(m) \ {a} /\ (recharge[a].month = m => a \in Held(m))
      /\ Counted(m)' \subseteq Counted(m) \cup {now} /\ ChargedTo(m)' \subseteq ChargedTo(m) \cup {now}
      /\ recharge[a].month # m => Counted(m)' \subseteq Counted(m) /\ ChargedTo(m)' \subseteq ChargedTo(m)
  BY <1>0, IdleHolds, AskedCharges
<1>2. Load(m)' <= Load(m) /\ Recharged(m)' <= Recharged(m)
  <2>1. CASE recharge[a].month = m
    BY <1>1, <2>1, HeldCharged
  <2>2. CASE recharge[a].month # m
    BY <1>1, <2>2, SetsShrink
  <2>3. QED BY <2>1, <2>2
<1>3. QED BY <1>0, <1>2 DEF Changes, Quiet

LEMMA FailChanges ==
  ASSUME provider = "stripe", UNCHANGED provider, SpendTypeOK, StripeTypeOK, NEW a \in Recharger, NEW m \in Months, ChargeFails(a)
  PROVE  Changes(m)
<1>0. UNCHANGED <<charged, strays, revoked>> /\ recharge[a].at = "reserved" /\ recharge' = [recharge EXCEPT ![a].at = "failed"]
  BY DEF ChargeFails, OnlyRecharge
<1>1. Held(m)' \subseteq Held(m)
  BY <1>0, HeldStays
<1>2. Counted(m)' \subseteq Counted(m) /\ ChargedTo(m)' \subseteq ChargedTo(m)
  BY <1>0, AskedCharges, CardSame DEF ChargeFails
<1>3. QED BY <1>0, <1>1, <1>2, SetsShrink DEF Changes, Quiet

LEMMA LostChanges ==
  ASSUME provider = "stripe", UNCHANGED provider, SpendTypeOK, StripeTypeOK, NEW a \in Recharger, NEW m \in Months, AnswerLost(a)
  PROVE  Changes(m)
<1>0. /\ UNCHANGED <<charged, revoked, ceiling>> /\ recharge[a].at = "reserved" /\ AskStripe(a)
      /\ recharge' = [recharge EXCEPT ![a].at = "failed"] /\ strays' = [strays EXCEPT ![recharge[a].month] = @ + 1]
  BY DEF AnswerLost, OnlyRecharge
<1>1. Held(m)' \subseteq Held(m)
  BY <1>0, HeldStays
<1>2. /\ Counted(m)' \subseteq Counted(m) \cup {now} /\ ChargedTo(m)' \subseteq ChargedTo(m) \cup {now}
      /\ recharge[a].month # m => Counted(m)' \subseteq Counted(m) /\ ChargedTo(m)' \subseteq ChargedTo(m)
  BY <1>0, AskedCharges
<1>3. strays'[m] = (IF recharge[a].month = m THEN strays[m] + 1 ELSE strays[m])
  BY <1>0 DEF SpendTypeOK
<1>4. CASE recharge[a].month = m
  BY <1>0, <1>1, <1>2, <1>3, <1>4, OneCounted DEF Changes, Strays
<1>5. CASE recharge[a].month # m
  BY <1>0, <1>1, <1>2, <1>3, <1>5, SetsShrink DEF Changes, Quiet
<1>6. QED BY <1>4, <1>5

LEMMA ReleaseChanges ==
  ASSUME provider = "stripe", UNCHANGED provider, SpendTypeOK, StripeTypeOK, NEW a \in Recharger, NEW m \in Months, ReleaseRecharge(a)
  PROVE  Changes(m)
<1>0. /\ UNCHANGED <<strays, ceiling, intent, bookedIn, revoked>> /\ recharge[a].at = "failed" /\ Idle(a)
      /\ charged' = [charged EXCEPT ![recharge[a].month] = @ - Price]
  BY DEF ReleaseRecharge, OnlyRecharge, ReleaseReservation
<1>1. Held(m)' \subseteq Held(m) \ {a} /\ (recharge[a].month = m => a \in Held(m))
  BY <1>0, IdleHolds
<1>2. Counted(m)' \subseteq Counted(m) /\ ChargedTo(m)' \subseteq ChargedTo(m)
  BY <1>0, CardSame
<1>3. charged'[m] = (IF recharge[a].month = m THEN charged[m] - Price ELSE charged[m])
  BY <1>0 DEF SpendTypeOK
<1>4. CASE recharge[a].month = m
  <2>1. Load(m)' + 1 <= Load(m) /\ Recharged(m)' <= Recharged(m)
    BY <1>1, <1>2, <1>4, HeldFreed
  <2>2. charged'[m] >= charged[m] - Price
    BY <1>3, <1>4, SpendCapAssumption DEF SpendTypeOK
  <2>3. QED BY <1>0, <2>1, <2>2 DEF Changes, Frees
<1>5. CASE recharge[a].month # m
  BY <1>0, <1>1, <1>2, <1>3, <1>5, SetsShrink DEF Changes, Quiet
<1>6. QED BY <1>4, <1>5

LEMMA RechargeChanges ==
  ASSUME provider = "stripe", UNCHANGED provider, SpendTypeOK, StripeTypeOK, cap <= ceiling, NEW a \in Recharger, NEW m \in Months,
         CheckRecharge(a) \/ NoPaymentMethod(a) \/ Reserve(a) \/ Charge(a) \/ ChargeFails(a) \/ AnswerLost(a)
           \/ ReleaseRecharge(a) \/ RechargerDies(a)
  PROVE  Changes(m)
<1>1. CASE CheckRecharge(a)
  <2>0. UNCHANGED <<charged, strays, intent, bookedIn, revoked>> /\ recharge' = [recharge EXCEPT ![a].at = "checked"]
    BY <1>1 DEF CheckRecharge, OnlyRecharge
  <2>1. recharge'[a].at = "checked" /\ \A b \in Recharger : b # a => recharge'[b] = recharge[b]
    BY <2>0 DEF StripeTypeOK
  <2>2. Held(m)' \subseteq Held(m)
    BY <2>1, CardSets
  <2>3. QED BY <2>0, <2>2, CardSame, SetsShrink DEF Changes, Quiet
<1>2. CASE NoPaymentMethod(a)
  <2>0. UNCHANGED <<recharge, charged, strays, intent, bookedIn, revoked>>
    BY <1>2 DEF NoPaymentMethod, OnlyRecharge
  <2>1. QED BY <2>0, HeldSame, CardSame, SetsShrink DEF Changes, Quiet
<1>3. CASE RechargerDies(a)
  <2>0. UNCHANGED <<charged, strays, intent, bookedIn, revoked>> /\ Idle(a)
    BY <1>3 DEF RechargerDies, OnlyRecharge
  <2>1. Held(m)' \subseteq Held(m)
    BY <2>0, IdleHolds
  <2>2. QED BY <2>0, <2>1, CardSame, SetsShrink DEF Changes, Quiet
<1>4. QED BY <1>1, <1>2, <1>3, ReserveChanges, ChargeChanges, FailChanges, LostChanges, ReleaseChanges

-----------------------------------------------------------------------------
(* Checkout and Stripe's webhooks.                                         *)

\* Intents other than one Checkout session's are as they were, and that session is not newly counted.
LEMMA SessionChanges ==
  ASSUME provider = "stripe", UNCHANGED <<provider, recharge, charged, strays, bookedIn, revoked>>, StripeTypeOK,
         NEW c \in Checkout, NEW v, NEW m \in Months, bookedIn[c] = NoMonth,
         intent' = [intent EXCEPT ![c] = v]
  PROVE  Changes(m)
<1>1. m # NoMonth
  BY MonthsTyped DEF NoMonth
<1>2. \A i \in Intent : i # c => intent'[i] = intent[i]
  BY DEF StripeTypeOK
<1>3. Counted(m)' \subseteq Counted(m) /\ ChargedTo(m)' \subseteq ChargedTo(m)
  BY <1>1, <1>2, CardSets, FiniteSides
<1>4. QED BY <1>3, HeldSame, SetsShrink DEF Changes, Quiet

LEMMA ManualChanges ==
  ASSUME provider = "stripe", UNCHANGED provider, SpendTypeOK, StripeTypeOK,
         NEW c \in Checkout, NEW m \in Months, RecordManualCharge(c)
  PROVE  Changes(m)
<1>0. /\ UNCHANGED <<recharge, strays, ceiling, intent, revoked>> /\ charged' = [charged EXCEPT ![Month] = charged[Month] + Price]
      /\ bookedIn' = [bookedIn EXCEPT ![c] = Month]
  BY DEF RecordManualCharge, OnlyStripe, Draw
<1>1. c \in Intent /\ c \notin Time
  BY StripeAssumption DEF Intent
<1>2. bookedIn'[c] = Month /\ \A i \in Intent : i # c => bookedIn'[i] = bookedIn[i]
  BY <1>0, <1>1 DEF StripeTypeOK
<1>3. ChargedTo(m)' \subseteq ChargedTo(m)
  BY <1>0, <1>1, <1>2, CardSets, FiniteSides
<1>4. (m = Month => charged'[m] = charged[m] + Price) /\ (m # Month => charged'[m] = charged[m])
  BY <1>0, OneChange
<1>5. CASE m = Month
  <2>1. Counted(m)' \subseteq Counted(m) \cup {c}
    BY <1>0, <1>2, CardSets
  <2>2. ChargedTo(m)' \subseteq ChargedTo(m) \cup {c}
    BY <1>3
  <2>3. QED BY <1>0, <1>3, <1>4, <1>5, <2>1, <2>2, HeldSame, OneCounted DEF Changes, Draws
<1>6. CASE m # Month
  <2>1. Counted(m)' \subseteq Counted(m)
    BY <1>0, <1>2, <1>6, CardSets
  <2>2. QED BY <1>0, <1>3, <1>4, <1>6, <2>1, HeldSame, SetsShrink DEF Changes, Quiet
<1>7. QED BY <1>5, <1>6

LEMMA GreatestCovers == \A x \in Int : Greatest(0, x) \in Int /\ Greatest(0, x) >= x
  BY DEF Greatest

LEMMA RevokeChanges ==
  ASSUME provider = "stripe", UNCHANGED provider, SpendTypeOK, StripeTypeOK, PaidInv,
         NEW i \in Intent, NEW m \in Months, RevokeTopup(i)
  PROVE  Changes(m)
<1>0. /\ UNCHANGED <<recharge, ceiling, intent, bookedIn>> /\ revoked' = revoked \cup {i} /\ i \notin revoked /\ granted[i] # NoMonth
      /\ charged' = [charged EXCEPT ![granted[i]] = Greatest(0, @ - Price)]
      /\ strays' = [strays EXCEPT ![granted[i]] = IF bookedIn[i] = granted[i] THEN @ ELSE @ + 1]
  BY DEF RevokeTopup, OnlyStripe, RecordRefund
<1>1. Held(m)' \subseteq Held(m) /\ Counted(m)' \subseteq Counted(m) /\ ChargedTo(m)' \subseteq ChargedTo(m)
  BY <1>0, HeldSame, CardSame
<1>2. CASE granted[i] # m
  <2>1. charged'[m] = charged[m] /\ strays'[m] = strays[m]
    BY <1>0, <1>2 DEF SpendTypeOK
  <2>2. QED BY <1>1, <2>1, SetsShrink DEF Changes, Quiet
<1>3. CASE granted[i] = m
  <2>1. charged'[m] >= charged[m] - Price
    <3>1. charged'[m] = Greatest(0, charged[m] - Price)
      BY <1>0, <1>3 DEF SpendTypeOK
    <3>2. charged[m] - Price \in Int
      BY SpendCapAssumption DEF SpendTypeOK
    <3>3. QED BY <3>1, <3>2, GreatestCovers
  <2>2. strays'[m] = (IF bookedIn[i] = m THEN strays[m] ELSE strays[m] + 1)
    BY <1>0, <1>3 DEF SpendTypeOK
  <2>3. CASE bookedIn[i] = m
    <3>1. intent[i] = "paid"
      BY <1>0 DEF PaidInv
    <3>2. i \in Counted(m) /\ Counted(m)' \subseteq Counted(m) \ {i}
      BY <1>0, <2>3, <3>1, CardSets
    <3>3. Load(m)' + 1 <= Load(m) /\ Recharged(m)' <= Recharged(m)
      BY <1>1, <3>2, CountedFreed
    <3>4. QED BY <1>0, <2>1, <2>2, <2>3, <3>3 DEF Changes, Frees
  <2>4. CASE bookedIn[i] # m
    BY <1>0, <1>1, <2>1, <2>2, <2>4, SetsShrink DEF Changes, Drifts
  <2>5. QED BY <2>3, <2>4
<1>4. QED BY <1>2, <1>3

LEMMA WebhookChanges ==
  ASSUME provider = "stripe", UNCHANGED provider, SpendTypeOK, StripeTypeOK, PaidInv, NEW m \in Months,
         \/ BackoffExpires
         \/ \E c \in Checkout : OpenCheckout(c) \/ PayCheckout(c) \/ RecordManualCharge(c) \/ RecordingLost(c)
         \/ \E i \in Intent : GrantTopup(i) \/ RevokeTopup(i)
  PROVE  Changes(m)
<1>1. ASSUME NEW c \in Checkout, OpenCheckout(c) \/ PayCheckout(c) PROVE Changes(m)
  <2>1. /\ UNCHANGED <<recharge, charged, strays, bookedIn, revoked>> /\ intent[c] # "paid"
        /\ \E v \in {"open", "paid"} : intent' = [intent EXCEPT ![c] = v]
    BY <1>1 DEF OpenCheckout, PayCheckout, OnlyStripe
  <2>2. bookedIn[c] = NoMonth
    BY <2>1 DEF PaidInv
  <2>3. QED BY <2>1, <2>2, SessionChanges
<1>2. CASE UNCHANGED <<recharge, charged, strays, intent, bookedIn, revoked>>
  BY <1>2, HeldSame, CardSame, SetsShrink DEF Changes, Quiet
<1>3. BackoffExpires => UNCHANGED <<recharge, charged, strays, intent, bookedIn, revoked>>
  BY DEF BackoffExpires, OnlyRecharge
<1>4. ASSUME NEW c \in Checkout, RecordingLost(c) PROVE UNCHANGED <<recharge, charged, strays, intent, bookedIn, revoked>>
  BY <1>4 DEF RecordingLost, OnlyStripe
<1>5. ASSUME NEW i \in Intent, GrantTopup(i) PROVE UNCHANGED <<recharge, charged, strays, intent, bookedIn, revoked>>
  BY <1>5 DEF GrantTopup, OnlyStripe
<1>6. QED BY <1>1, <1>2, <1>3, <1>4, <1>5, ManualChanges, RevokeChanges

-----------------------------------------------------------------------------
(* Vercel purchases.                                                       *)

LEMMA VercelSets ==
  ASSUME provider # "stripe", UNCHANGED provider, NEW m
  PROVE  /\ Held(m) = {s \in Sale : sale[s].at \in {"reserved", "refused"} /\ sale[s].month = m}
         /\ Held(m)' = {s \in Sale : sale'[s].at \in {"reserved", "refused"} /\ sale'[s].month = m}
         /\ Counted(m) = ChargedTo(m) /\ Counted(m)' = ChargedTo(m)'
         /\ ChargedTo(m) = {s \in Sale : sale[s].at = "sold" /\ s \notin takenBack /\ sale[s].month = m}
         /\ ChargedTo(m)' = {s \in Sale : sale'[s].at = "sold" /\ s \notin takenBack' /\ sale'[s].month = m}
  BY DEF Held, Counted, ChargedTo, Sold

\* One call of purchase moves, and everything else in the sets stays.
LEMMA SaleMoves ==
  ASSUME provider # "stripe", UNCHANGED <<provider, takenBack>>, NEW s \in Sale, NEW m,
         \A t \in Sale : t # s => sale'[t] = sale[t]
  PROVE  /\ Held(m)' \subseteq Held(m) \cup {s} /\ ChargedTo(m)' \subseteq ChargedTo(m) \cup {s}
         /\ sale'[s].at \notin {"reserved", "refused"} \/ sale'[s].month # m => Held(m)' \subseteq Held(m) \ {s}
         /\ sale'[s].at # "sold" \/ sale'[s].month # m => ChargedTo(m)' \subseteq ChargedTo(m) \ {s}
  BY VercelSets

LEMMA PurchaseChanges ==
  ASSUME provider # "stripe", UNCHANGED provider, SpendTypeOK, VercelTypeOK, cap <= ceiling, NEW s \in Sale, NEW m \in Months,
         AskToBuy(s) \/ ReserveSale(s) \/ Grant(s) \/ GrantFails(s) \/ ReleaseSale(s) \/ SaleDies(s)
  PROVE  Changes(m)
<1>0. UNCHANGED <<ceiling, strays, takenBack>>
  BY DEF AskToBuy, ReserveSale, Grant, GrantFails, ReleaseSale, SaleDies, OnlySale
<1>1. \A t \in Sale : t # s => sale'[t] = sale[t]
  BY DEF AskToBuy, ReserveSale, Grant, GrantFails, ReleaseSale, SaleDies, VercelTypeOK
<1>2. CASE AskToBuy(s) \/ SaleDies(s) \/ (ReserveSale(s) /\ ~HasRoom)
  <2>1. charged' = charged /\ sale'[s].at \in {"asked", "idle"}
    BY <1>2 DEF AskToBuy, SaleDies, ReserveSale, VercelTypeOK
  <2>2. Held(m)' \subseteq Held(m) /\ ChargedTo(m)' \subseteq ChargedTo(m)
    BY <1>0, <1>1, <2>1, SaleMoves
  <2>3. QED BY <1>0, <2>1, <2>2, SetsShrink, VercelSets DEF Changes, Quiet
<1>3. CASE ReserveSale(s) /\ HasRoom
  <2>1. charged' = [charged EXCEPT ![Month] = charged[Month] + Price] /\ sale' = [sale EXCEPT ![s] = [at |-> "reserved", month |-> Month]]
    BY <1>3 DEF ReserveSale, Draw
  <2>2. sale'[s].at = "reserved" /\ sale'[s].month = Month
    BY <2>1 DEF VercelTypeOK
  <2>3. Held(m)' \subseteq Held(m) \cup {s} /\ ChargedTo(m)' \subseteq ChargedTo(m) /\ (m # Month => Held(m)' \subseteq Held(m))
    BY <1>0, <1>1, <2>2, SaleMoves
  <2>4. (m = Month => charged'[m] = charged[m] + Price) /\ (m # Month => charged'[m] = charged[m])
    BY <2>1, OneChange
  <2>5. CASE m = Month
    BY <1>0, <1>3, <2>3, <2>4, <2>5, OneHeld, RoomIsUnderCeiling, VercelSets DEF Changes, Draws
  <2>6. CASE m # Month
    BY <1>0, <2>3, <2>4, <2>6, SetsShrink, VercelSets DEF Changes, Quiet
  <2>7. QED BY <2>5, <2>6
<1>4. CASE Grant(s) \/ GrantFails(s)
  <2>0. charged' = charged /\ sale[s].at = "reserved"
    BY <1>4 DEF Grant, GrantFails
  <2>1. sale'[s].at \in {"sold", "refused"} /\ sale'[s].month = sale[s].month
    BY <1>4 DEF Grant, GrantFails, VercelTypeOK
  <2>2. CASE sale'[s].at = "sold"
    <3>1. Held(m)' \subseteq Held(m) \ {s} /\ ChargedTo(m)' \subseteq ChargedTo(m) \cup {s}
      BY <1>0, <1>1, <2>2, SaleMoves
    <3>2. CASE sale[s].month = m
      <4>1. s \in Held(m)
        BY <2>0, <3>2, VercelSets
      <4>2. QED BY <1>0, <2>0, <3>1, <4>1, HeldCharged, VercelSets DEF Changes, Quiet
    <3>3. CASE sale[s].month # m
      <4>1. ChargedTo(m)' \subseteq ChargedTo(m)
        BY <1>0, <1>1, <2>1, <3>3, SaleMoves
      <4>2. QED BY <1>0, <2>0, <3>1, <4>1, SetsShrink, VercelSets DEF Changes, Quiet
    <3>4. QED BY <3>2, <3>3
  <2>3. CASE sale'[s].at = "refused"
    <3>1. ChargedTo(m)' \subseteq ChargedTo(m)
      BY <1>0, <1>1, <2>3, SaleMoves
    <3>2. Held(m)' \subseteq Held(m)
      BY <1>1, <2>0, <2>1, <2>3, VercelSets
    <3>3. QED BY <1>0, <2>0, <3>1, <3>2, SetsShrink, VercelSets DEF Changes, Quiet
  <2>4. QED BY <2>1, <2>2, <2>3
<1>5. CASE ReleaseSale(s)
  <2>0. sale[s].at = "refused" /\ charged' = [charged EXCEPT ![sale[s].month] = @ - Price]
    BY <1>5 DEF ReleaseSale, ReleaseReservation
  <2>1. sale'[s].at = "idle"
    BY <1>5 DEF ReleaseSale, VercelTypeOK
  <2>2. Held(m)' \subseteq Held(m) \ {s} /\ ChargedTo(m)' \subseteq ChargedTo(m)
    BY <1>0, <1>1, <2>1, SaleMoves
  <2>3. charged'[m] = (IF sale[s].month = m THEN charged[m] - Price ELSE charged[m])
    BY <2>0 DEF SpendTypeOK
  <2>4. CASE sale[s].month = m
    <3>1. s \in Held(m)
      BY <2>0, <2>4, VercelSets
    <3>2. Load(m)' + 1 <= Load(m) /\ Recharged(m)' <= Recharged(m)
      BY <2>2, <3>1, HeldFreed, VercelSets
    <3>3. charged'[m] >= charged[m] - Price
      BY <2>3, <2>4, SpendCapAssumption DEF SpendTypeOK
    <3>4. QED BY <1>0, <3>2, <3>3 DEF Changes, Frees
  <2>5. CASE sale[s].month # m
    BY <1>0, <2>2, <2>3, <2>5, SetsShrink, VercelSets DEF Changes, Quiet
  <2>6. QED BY <2>4, <2>5
<1>6. QED BY <1>2, <1>3, <1>4, <1>5

LEMMA VercelSame ==
  ASSUME provider # "stripe", UNCHANGED <<provider, sale, charged, strays>>, takenBack \subseteq takenBack', NEW m
  PROVE  Changes(m)
<1>1. Held(m)' \subseteq Held(m) /\ ChargedTo(m)' \subseteq ChargedTo(m)
  BY VercelSets
<1>2. QED BY <1>1, SetsShrink, VercelSets DEF Changes, Quiet

LEMMA RefundChanges ==
  ASSUME provider # "stripe", UNCHANGED provider, SpendTypeOK, VercelTypeOK, SoldInv, NEW s \in Sale, NEW m \in Months, InvoiceRefunded(s)
  PROVE  Changes(m)
<1>1. CASE ~(s \in linked \ takenBack /\ Applied > 0)
  <2>1. UNCHANGED <<sale, charged, strays, takenBack>>
    BY <1>1 DEF InvoiceRefunded
  <2>2. QED BY <2>1, VercelSame
<1>2. CASE s \in linked \ takenBack /\ Applied > 0
  <2>0. /\ UNCHANGED <<sale, ceiling>> /\ takenBack' = takenBack \cup {s} /\ s \notin takenBack
        /\ charged' = [charged EXCEPT ![bookedAs[s]] = Greatest(0, @ - Price)]
        /\ strays' = [strays EXCEPT ![bookedAs[s]] = IF sale[s].month = bookedAs[s] THEN @ ELSE @ + 1]
    BY <1>2 DEF InvoiceRefunded, RecordRefund
  <2>1. Held(m)' \subseteq Held(m) /\ ChargedTo(m)' \subseteq ChargedTo(m)
    BY <2>0, VercelSets
  <2>2. CASE bookedAs[s] # m
    <3>1. charged'[m] = charged[m] /\ strays'[m] = strays[m]
      BY <2>0, <2>2 DEF SpendTypeOK
    <3>2. QED BY <2>1, <3>1, SetsShrink, VercelSets DEF Changes, Quiet
  <2>3. CASE bookedAs[s] = m
    <3>1. charged'[m] >= charged[m] - Price
      <4>1. charged'[m] = Greatest(0, charged[m] - Price)
        BY <2>0, <2>3 DEF SpendTypeOK
      <4>2. charged[m] - Price \in Int
        BY SpendCapAssumption DEF SpendTypeOK
      <4>3. QED BY <4>1, <4>2, GreatestCovers
    <3>2. strays'[m] = (IF sale[s].month = m THEN strays[m] ELSE strays[m] + 1)
      BY <2>0, <2>3 DEF SpendTypeOK
    <3>3. CASE sale[s].month = m
      <4>1. sale[s].at = "sold"
        BY <1>2 DEF SoldInv
      <4>2. s \in ChargedTo(m) /\ ChargedTo(m)' \subseteq ChargedTo(m) \ {s}
        BY <2>0, <3>3, <4>1, VercelSets
      <4>3. Load(m)' + 1 <= Load(m) /\ Recharged(m)' <= Recharged(m)
        BY <2>1, <4>2, CountedFreed, VercelSets
      <4>4. QED BY <2>0, <3>1, <3>2, <3>3, <4>3 DEF Changes, Frees
    <3>4. CASE sale[s].month # m
      BY <2>0, <2>1, <3>1, <3>2, <3>4, SetsShrink, VercelSets DEF Changes, Drifts
    <3>5. QED BY <3>3, <3>4
  <2>4. QED BY <2>2, <2>3
<1>3. QED BY <1>1, <1>2

LEMMA VercelChanges ==
  ASSUME OnVercel, SpendTypeOK, VercelTypeOK, SoldInv, cap <= ceiling, NEW m \in Months
  PROVE  Changes(m)
<1>0. provider # "stripe" /\ UNCHANGED provider
  BY DEF OnVercel
<1>1. ASSUME NEW s \in Sale, NEW by \in Submitter, Retry(s) \/ Post(s, by) \/ PostFails(s, by) \/ Link(s, by) \/ LinkFails(s, by)
      PROVE  UNCHANGED <<sale, charged, strays, takenBack>>
  BY <1>1 DEF Retry, Post, PostFails, Link, LinkFails, OnlyRaise, spendVars
<1>2. ASSUME NEW s \in Sale, CustomerPays(s) \/ VercelRefunds(s) \/ InvoicePaid(s) PROVE UNCHANGED <<sale, charged, strays, takenBack>>
  BY <1>2 DEF CustomerPays, VercelRefunds, Settle, InvoicePaid, OnlyPaid, spendVars
<1>3. UNCHANGED <<sale, charged, strays, takenBack>> => Changes(m)
  BY <1>0, VercelSame
<1>4. QED BY <1>0, <1>1, <1>2, <1>3, PurchaseChanges, RefundChanges, SubmittersTyped DEF OnVercel, VercelStep

-----------------------------------------------------------------------------
(* What was paid stays paid, and what was sold stays sold.                 *)

LEMMA AskKeepsPaid ==
  ASSUME SpendTypeOK, StripeTypeOK, PaidInv, UNCHANGED <<granted, unrecorded>>, NEW a \in Recharger,
         AskStripe(a) \/ UNCHANGED <<intent, bookedIn>>
  PROVE  PaidInv'
<1>1. CASE UNCHANGED <<intent, bookedIn>>
  BY <1>1 DEF PaidInv
<1>2. CASE intent[now] = "none" /\ AskStripe(a)
  <2>1. now \in Time /\ \A c \in Checkout : c # now /\ c \in Intent
    BY StripeAssumption DEF SpendTypeOK, Intent
  <2>2. \A i \in Intent : i # now => intent'[i] = intent[i] /\ bookedIn'[i] = bookedIn[i]
    BY <1>2 DEF AskStripe, StripeTypeOK
  <2>3. \A i \in Intent : intent[i] = "paid" => i # now
    BY <1>2
  <2>4. QED BY <2>1, <2>2, <2>3 DEF PaidInv
<1>3. QED BY <1>1, <1>2 DEF AskStripe

LEMMA StripeKeepsPaid ==
  ASSUME SpendTypeOK, StripeTypeOK, PaidInv, StripeStep
  PROVE  PaidInv'
<1>1. ASSUME NEW a \in Recharger,
             CheckRecharge(a) \/ NoPaymentMethod(a) \/ Reserve(a) \/ Charge(a) \/ ChargeFails(a) \/ AnswerLost(a)
               \/ ReleaseRecharge(a) \/ RechargerDies(a)
      PROVE  PaidInv'
  <2>1. UNCHANGED <<granted, unrecorded>>
    BY <1>1 DEF CheckRecharge, NoPaymentMethod, Reserve, Charge, ChargeFails, AnswerLost, ReleaseRecharge, RechargerDies, OnlyRecharge
  <2>2. AskStripe(a) \/ UNCHANGED <<intent, bookedIn>>
    BY <1>1 DEF CheckRecharge, NoPaymentMethod, Reserve, Charge, ChargeFails, AnswerLost, ReleaseRecharge, RechargerDies
  <2>3. QED BY <2>1, <2>2, AskKeepsPaid
<1>2. CASE BackoffExpires
  BY <1>2 DEF BackoffExpires, OnlyRecharge, PaidInv
<1>3. ASSUME NEW c \in Checkout, OpenCheckout(c) \/ PayCheckout(c) PROVE PaidInv'
  <2>1. /\ UNCHANGED <<bookedIn, granted, unrecorded>> /\ intent[c] # "paid"
        /\ \E v \in {"open", "paid"} : intent' = [intent EXCEPT ![c] = v]
    BY <1>3 DEF OpenCheckout, PayCheckout
  <2>2. \A i \in Intent : intent[i] = "paid" => intent'[i] = "paid"
    BY <2>1 DEF StripeTypeOK
  <2>3. QED BY <2>1, <2>2 DEF PaidInv, Intent
<1>4. ASSUME NEW c \in Checkout, RecordManualCharge(c) \/ RecordingLost(c) PROVE PaidInv'
  <2>1. UNCHANGED <<intent, granted>> /\ unrecorded' \subseteq unrecorded /\ c \in unrecorded
    BY <1>4 DEF RecordManualCharge, RecordingLost
  <2>2. \A d \in Checkout : d # c => bookedIn'[d] = bookedIn[d]
    BY <1>4 DEF RecordManualCharge, RecordingLost, StripeTypeOK, Intent
  <2>3. QED BY <2>1, <2>2 DEF PaidInv
<1>5. ASSUME NEW i \in Intent, GrantTopup(i) PROVE PaidInv'
  <2>1. UNCHANGED <<intent, bookedIn>> /\ intent[i] = "paid" /\ unrecorded' \subseteq unrecorded \cup {i}
    BY <1>5 DEF GrantTopup
  <2>2. \A j \in Intent : j # i => granted'[j] = granted[j]
    BY <1>5 DEF GrantTopup, StripeTypeOK
  <2>3. QED BY <2>1, <2>2 DEF PaidInv
<1>6. ASSUME NEW i \in Intent, RevokeTopup(i) PROVE PaidInv'
  BY <1>6 DEF RevokeTopup, PaidInv
<1>7. QED BY <1>1, <1>2, <1>3, <1>4, <1>5, <1>6 DEF StripeStep

LEMMA VercelKeepsSold ==
  ASSUME VercelTypeOK, SoldInv, VercelStep
  PROVE  SoldInv'
<1>1. ASSUME NEW s \in Sale,
             AskToBuy(s) \/ ReserveSale(s) \/ Grant(s) \/ GrantFails(s) \/ ReleaseSale(s) \/ SaleDies(s)
      PROVE  SoldInv'
  <2>1. UNCHANGED linked /\ sale[s].at # "sold"
    BY <1>1 DEF AskToBuy, ReserveSale, Grant, GrantFails, ReleaseSale, SaleDies, OnlySale
  <2>2. \A t \in Sale : t # s => sale'[t] = sale[t]
    BY <1>1 DEF AskToBuy, ReserveSale, Grant, GrantFails, ReleaseSale, SaleDies, VercelTypeOK
  <2>3. \A t \in Sale : sale[t].at = "sold" => sale'[t].at = "sold"
    BY <2>1, <2>2
  <2>4. \/ UNCHANGED raising
        \/ raising' = [raising EXCEPT ![<<s, "sale">>] = "posting"] /\ sale'[s].at = "sold"
    BY <1>1 DEF AskToBuy, ReserveSale, Grant, GrantFails, ReleaseSale, SaleDies, VercelTypeOK
  <2>5. \A t \in Sale, by \in Submitter : raising'[<<t, by>>] # "no" => raising[<<t, by>>] # "no" \/ sale'[t].at = "sold"
    BY <2>4, SubmittersTyped DEF VercelTypeOK
  <2>6. QED BY <2>1, <2>3, <2>5 DEF SoldInv, VercelTypeOK
<1>2. ASSUME NEW s \in Sale, NEW by \in Submitter,
             Retry(s) \/ Post(s, by) \/ PostFails(s, by) \/ Link(s, by) \/ LinkFails(s, by)
      PROVE  SoldInv'
  <2>1. UNCHANGED sale
    BY <1>2 DEF Retry, Post, PostFails, Link, LinkFails, OnlyRaise
  <2>2. sale[s].at = "sold"
    BY <1>2 DEF Retry, Post, PostFails, Link, LinkFails, Sold, SoldInv
  <2>3. linked' \subseteq linked \cup {s}
    BY <1>2 DEF Retry, Post, PostFails, Link, LinkFails
  <2>4. \A t \in Sale, b \in Submitter : t # s => raising'[<<t, b>>] = raising[<<t, b>>]
    BY <1>2, SubmittersTyped DEF Retry, Post, PostFails, Link, LinkFails, VercelTypeOK
  <2>5. QED BY <2>1, <2>2, <2>3, <2>4 DEF SoldInv
<1>3. ASSUME NEW s \in Sale, CustomerPays(s) \/ VercelRefunds(s) \/ InvoicePaid(s) \/ InvoiceRefunded(s) PROVE SoldInv'
  BY <1>3 DEF CustomerPays, VercelRefunds, Settle, InvoicePaid, OnlyPaid, InvoiceRefunded, SoldInv
<1>4. QED BY <1>1, <1>2, <1>3, SubmittersTyped DEF VercelStep

-----------------------------------------------------------------------------
(* The ceiling.                                                            *)

LEMMA CapInit == Init => CapInv
<1> SUFFICES ASSUME Init PROVE CapInv
  OBVIOUS
<1>1. cap <= ceiling
  BY SpendCapAssumption DEF Init, SpendInit
<1>2. ASSUME NEW m \in Months PROVE Covered(m)
  <2>1. Held(m) = {} /\ Counted(m) = {} /\ ChargedTo(m) = {}
    BY FiniteSides DEF Init, StripeInit, VercelInit, Held, Counted, ChargedTo, Sold
  <2>2. Load(m) = 0 /\ Recharged(m) = 0
    BY <2>1, FS_EmptySet DEF Load, Recharged
  <2>3. charged[m] = 0 /\ strays[m] = 0 /\ ceiling \in Nat /\ Price \in Nat
    BY <1>2, SpendCapAssumption DEF Init, SpendInit
  <2>4. QED BY <2>2, <2>3 DEF Covered
<1>3. PaidInv
  BY DEF Init, StripeInit, PaidInv, Intent
<1>4. SoldInv
  BY DEF Init, VercelInit, SoldInv
<1>5. QED BY <1>1, <1>2, <1>3, <1>4 DEF CapInv

LEMMA CeilingStep ==
  ASSUME SpendTypeOK, cap <= ceiling, [Next]_vars
  PROVE  ceiling <= ceiling' /\ cap' <= ceiling'
<1>1. cap \in Nat /\ ceiling \in Nat
  BY SpendCapAssumption DEF SpendTypeOK
<1>2. CASE UNCHANGED <<cap, ceiling>>
  BY <1>1, <1>2
<1>3. CASE UpdateCap
  <2>1. \A c \in Caps : c \in Nat
    BY SpendCapAssumption
  <2>2. QED BY <1>1, <1>3, <2>1 DEF UpdateCap, Greatest
<1>4. OnStripe => UNCHANGED <<cap, ceiling>>
  <2>1. ASSUME NEW a \in Recharger,
               CheckRecharge(a) \/ NoPaymentMethod(a) \/ Reserve(a) \/ Charge(a) \/ ChargeFails(a) \/ AnswerLost(a)
                 \/ ReleaseRecharge(a) \/ RechargerDies(a)
        PROVE  UNCHANGED <<cap, ceiling>>
    BY <2>1 DEF CheckRecharge, NoPaymentMethod, Reserve, Charge, ChargeFails, AnswerLost, ReleaseRecharge, RechargerDies, OnlyRecharge
  <2>2. ASSUME NEW c \in Checkout, OpenCheckout(c) \/ PayCheckout(c) \/ RecordManualCharge(c) \/ RecordingLost(c) PROVE UNCHANGED <<cap, ceiling>>
    BY <2>2 DEF OpenCheckout, PayCheckout, RecordManualCharge, RecordingLost, OnlyStripe
  <2>3. ASSUME NEW i \in Intent, GrantTopup(i) \/ RevokeTopup(i) PROVE UNCHANGED <<cap, ceiling>>
    BY <2>3 DEF GrantTopup, RevokeTopup, OnlyStripe
  <2>4. BackoffExpires => UNCHANGED <<cap, ceiling>>
    BY DEF BackoffExpires, OnlyRecharge
  <2>5. QED BY <2>1, <2>2, <2>3, <2>4 DEF OnStripe, StripeStep
<1>5. OnVercel => UNCHANGED <<cap, ceiling>>
  <2>1. ASSUME NEW s \in Sale,
               AskToBuy(s) \/ ReserveSale(s) \/ Grant(s) \/ GrantFails(s) \/ ReleaseSale(s) \/ SaleDies(s) PROVE UNCHANGED <<cap, ceiling>>
    BY <2>1 DEF AskToBuy, ReserveSale, Grant, GrantFails, ReleaseSale, SaleDies, OnlySale
  <2>2. ASSUME NEW s \in Sale, NEW by \in Submitter, Retry(s) \/ Post(s, by) \/ PostFails(s, by) \/ Link(s, by) \/ LinkFails(s, by)
        PROVE  UNCHANGED <<cap, ceiling>>
    BY <2>2 DEF Retry, Post, PostFails, Link, LinkFails, OnlyRaise, spendVars
  <2>3. ASSUME NEW s \in Sale, CustomerPays(s) \/ VercelRefunds(s) \/ InvoicePaid(s) \/ InvoiceRefunded(s) PROVE UNCHANGED <<cap, ceiling>>
    BY <2>3 DEF CustomerPays, VercelRefunds, Settle, spendVars, InvoicePaid, OnlyPaid, InvoiceRefunded
  <2>4. QED BY <2>1, <2>2, <2>3, SubmittersTyped DEF OnVercel, VercelStep
<1>6. Tick \/ Consume \/ UNCHANGED vars => UNCHANGED <<cap, ceiling>>
  BY DEF Tick, Consume, vars, spendVars
<1>7. QED BY <1>2, <1>3, <1>4, <1>5, <1>6 DEF Next, World

LEMMA WorldChanges ==
  ASSUME UNCHANGED <<provider, charged, strays, stripeVars, vercelVars>>, NEW m
  PROVE  Quiet(m)
<1>1. Held(m)' = Held(m) /\ Counted(m)' = Counted(m) /\ ChargedTo(m)' = ChargedTo(m)
  BY DEF stripeVars, vercelVars, Held, Counted, ChargedTo, Sold
<1>2. QED BY <1>1, SetsShrink DEF Quiet

LEMMA CapStep == TypeOK /\ CapInv /\ [Next]_vars => CapInv'
<1> SUFFICES ASSUME TypeOK, CapInv, [Next]_vars PROVE CapInv'
  OBVIOUS
<1>1. SpendTypeOK /\ StripeTypeOK /\ VercelTypeOK /\ SpendTypeOK'
  BY StepTypes DEF TypeOK
<1>2. cap <= ceiling /\ PaidInv /\ SoldInv /\ ceiling <= ceiling' /\ cap' <= ceiling'
  BY <1>1, CeilingStep DEF CapInv
<1>3. CASE OnStripe
  <2>1. provider = "stripe" /\ UNCHANGED <<provider, vercelVars>> /\ StripeStep
    BY <1>3 DEF OnStripe
  <2>2. PaidInv'
    BY <1>1, <1>2, <2>1, StripeKeepsPaid
  <2>3. SoldInv'
    BY <1>2, <2>1 DEF SoldInv, vercelVars
  <2>4. ASSUME NEW m \in Months PROVE Covered(m)'
    <3>1. Changes(m)
      BY <1>1, <1>2, <2>1, RechargeChanges, WebhookChanges DEF StripeStep
    <3>2. QED BY <1>1, <1>2, <3>1, CoveredKeeps DEF Changes, CapInv
  <2>5. QED BY <1>2, <2>2, <2>3, <2>4 DEF CapInv
<1>4. CASE OnVercel
  <2>1. UNCHANGED stripeVars /\ VercelStep
    BY <1>4 DEF OnVercel
  <2>2. PaidInv'
    BY <1>2, <2>1 DEF PaidInv, stripeVars
  <2>3. SoldInv'
    BY <1>1, <1>2, <2>1, VercelKeepsSold
  <2>4. ASSUME NEW m \in Months PROVE Covered(m)'
    <3>1. Changes(m)
      BY <1>1, <1>2, <1>4, VercelChanges
    <3>2. QED BY <1>1, <1>2, <3>1, CoveredKeeps DEF Changes, CapInv
  <2>5. QED BY <1>2, <2>2, <2>3, <2>4 DEF CapInv
<1>5. CASE (World /\ UNCHANGED <<provider, stripeVars, vercelVars>>) \/ UNCHANGED vars
  <2>1. UNCHANGED <<provider, charged, strays, stripeVars, vercelVars>>
    BY <1>5 DEF World, Tick, Consume, UpdateCap, vars, spendVars
  <2>2. PaidInv' /\ SoldInv'
    BY <1>2, <2>1 DEF PaidInv, SoldInv, stripeVars, vercelVars
  <2>3. ASSUME NEW m \in Months PROVE Covered(m)'
    BY <1>1, <1>2, <2>1, WorldChanges, CoveredKeeps DEF CapInv
  <2>4. QED BY <1>2, <2>2, <2>3 DEF CapInv
<1>6. QED BY <1>3, <1>4, <1>5 DEF Next

\* The inductive invariant of the ceiling: every month's total covers what is reserved and what was charged.
THEOREM CeilingInvariant == Spec => []CapInv
  BY RechargeTypesHold, CapInit, CapStep, PTL DEF Spec

\* ChargesWithinCap: what recharges charge in a month stays under the highest cap there has been, but for a charge
\* whose answer was lost and a refund booked to another month.
THEOREM ChargesWithinCapAlways == Spec => []ChargesWithinCap
<1>1. TypeOK /\ CapInv => ChargesWithinCap
  <2> SUFFICES ASSUME TypeOK, CapInv, NEW m \in Months
               PROVE  Price * Cardinality(ChargedTo(m)) <= ceiling + Price * strays[m]
    BY DEF ChargesWithinCap
  <2>1. /\ Price \in Nat /\ strays[m] \in Nat /\ ceiling \in Nat
        /\ Cardinality(ChargedTo(m)) \in Nat /\ Recharged(m) \in Nat /\ Cardinality(ChargedTo(m)) <= Recharged(m)
    BY Numbers, SpendCapAssumption DEF TypeOK, SpendTypeOK, Recharged
  <2>2. Price * Recharged(m) <= ceiling + Price * strays[m]
    BY DEF CapInv, Covered
  <2>3. Price * Cardinality(ChargedTo(m)) <= Price * Recharged(m)
    BY <2>1, TimesMono
  <2>4. QED BY <2>1, <2>2, <2>3, LowerTop
<1>2. QED BY <1>1, RechargeTypesHold, CeilingInvariant, PTL

=============================================================================
