---------------------------- MODULE VercelPurchases ----------------------------
(***************************************************************************)
(* Credit purchases of an organization billed through Vercel.              *)
(*                                                                         *)
(* A purchase reserves its price under the monthly cap, grants the credits *)
(* at once, and only then raises an invoice at Vercel; an organization     *)
(* with a purchase it has not paid cannot buy again.  An invoice that was  *)
(* not raised is submitted again by a daily job.  Vercel tells of paid and *)
(* refunded invoices by webhook, at least once and in any order, and does  *)
(* not know whether this side has linked the invoice to its purchase yet.  *)
(***************************************************************************)
EXTENDS SpendCap

CONSTANTS
    Sale,           \* calls of purchase, each with the purchase it may make
    PlanCredits     \* what a paid invoice of the plan grants

ASSUME VercelAssumption == PlanCredits \in Nat /\ IsFiniteSet(Sale)

Submitter == {"sale", "retry"}  \* the call that sold, and the job that retries

VARIABLES
    sale,       \* where each call of purchase is, and the month it reserved in
    bookedAs,   \* billing_period_key of the grant of a sold purchase
    raising,    \* submissions in progress, with Vercel's invoice id in hand or not yet
    atVercel,   \* (Vercel) the invoice of each purchase, under its externalId
    linked,     \* purchases whose invoice_id is set
    status,     \* vercel_invoice.status of a linked purchase
    takenBack,  \* purchases whose credits were revoked
    planGrants  \* purchases for whose invoice a plan's credits were granted

vercelVars == <<sale, bookedAs, raising, atVercel, linked, status, takenBack, planGrants>>

Nowhen == 0

VercelTypeOK ==
    /\ sale \in [Sale -> [at: {"idle", "asked", "reserved", "refused", "sold"}, month: Months \cup {Nowhen}]]
    /\ bookedAs \in [Sale -> Months \cup {Nowhen}]
    /\ raising \in [Sale \X Submitter -> {"no", "posting", "linking"}]
    /\ atVercel \in [Sale -> {"none", "owed", "paid", "refunded"}]
    /\ linked \subseteq Sale /\ status \in [Sale -> {"none", "submitted", "paid", "refunded"}]
    /\ takenBack \subseteq Sale /\ planGrants \subseteq Sale

VercelInit ==
    /\ sale = [s \in Sale |-> [at |-> "idle", month |-> Nowhen]]
    /\ bookedAs = [s \in Sale |-> Nowhen]
    /\ raising = [r \in Sale \X Submitter |-> "no"]
    /\ atVercel = [i \in Sale |-> "none"] /\ status = [i \in Sale |-> "none"]
    /\ linked = {} /\ takenBack = {} /\ planGrants = {}

Sold == {s \in Sale : sale[s].at = "sold"}

\* hasOutstandingPurchase: sold, and not known to be paid or refunded.
Outstanding == {s \in Sold : s \notin linked \/ status[s] = "submitted"}

-----------------------------------------------------------------------------
(* purchase.                                                               *)

OnlySale == UNCHANGED <<now, cap, ceiling, strays, atVercel, linked, status, takenBack, planGrants>>

\* The unlocked look: nothing is owed yet.
AskToBuy(s) ==
    /\ sale[s].at = "idle" /\ Outstanding = {}
    /\ sale' = [sale EXCEPT ![s].at = "asked"]
    /\ UNCHANGED <<charged, balance, bookedAs, raising>> /\ OnlySale

ReserveSale(s) ==
    /\ sale[s].at = "asked"
    /\ IF HasRoom
         THEN Draw(Month) /\ sale' = [sale EXCEPT ![s] = [at |-> "reserved", month |-> Month]]
         ELSE sale' = [sale EXCEPT ![s].at = "idle"] /\ UNCHANGED charged
    /\ UNCHANGED <<balance, bookedAs, raising>> /\ OnlySale

\* Mutant of Grant: the second look is dropped.
GrantUnchecked(s) ==
    /\ sale[s].at = "reserved"
    /\ sale' = [sale EXCEPT ![s].at = "sold"] /\ bookedAs' = [bookedAs EXCEPT ![s] = Month]
    /\ balance' = balance + PackageCredits /\ raising' = [raising EXCEPT ![<<s, "sale">>] = "posting"]
    /\ UNCHANGED charged /\ OnlySale

\* The second look holds the wallet's lock, and writes the purchase, the ledger and the balance.
Grant(s) ==
    /\ sale[s].at = "reserved"
    /\ IF Outstanding = {}
         THEN /\ sale' = [sale EXCEPT ![s].at = "sold"]
              /\ bookedAs' = [bookedAs EXCEPT ![s] = Month]
              /\ balance' = balance + PackageCredits
              /\ raising' = [raising EXCEPT ![<<s, "sale">>] = "posting"]
         ELSE /\ sale' = [sale EXCEPT ![s].at = "refused"]
              /\ UNCHANGED <<balance, bookedAs, raising>>
    /\ UNCHANGED charged /\ OnlySale

\* The grant's transaction fails.
GrantFails(s) ==
    /\ sale[s].at = "reserved" /\ sale' = [sale EXCEPT ![s].at = "refused"]
    /\ UNCHANGED <<charged, balance, bookedAs, raising>> /\ OnlySale

ReleaseSale(s) ==
    /\ sale[s].at = "refused" /\ ReleaseReservation(sale[s].month)
    /\ sale' = [sale EXCEPT ![s] = [at |-> "idle", month |-> Nowhen]]
    /\ UNCHANGED <<balance, bookedAs, raising>> /\ OnlySale

\* The host dies before it has sold; what it reserved stays reserved.
SaleDies(s) ==
    /\ sale[s].at \in {"asked", "reserved", "refused"}
    /\ sale' = [sale EXCEPT ![s] = [at |-> "idle", month |-> Nowhen]]
    /\ UNCHANGED <<charged, balance, bookedAs, raising>> /\ OnlySale

-----------------------------------------------------------------------------
(* raiseInvoice, by the call that sold or by the job that retries.         *)

OnlyRaise == UNCHANGED <<spendVars, sale, bookedAs, takenBack, planGrants>>

\* Mutant of Retry: the job takes only purchases Vercel has refused.
RetryNothing(s) ==
    /\ s \in Sold \ linked /\ raising[s, "retry"] = "no" /\ atVercel[s] # "none"
    /\ raising' = [raising EXCEPT ![<<s, "retry">>] = "posting"]
    /\ UNCHANGED <<atVercel, linked, status>> /\ OnlyRaise

Retry(s) ==
    /\ s \in Sold \ linked /\ raising[s, "retry"] = "no"
    /\ raising' = [raising EXCEPT ![<<s, "retry">>] = "posting"]
    /\ UNCHANGED <<atVercel, linked, status>> /\ OnlyRaise

\* Vercel takes the invoice, and the answer names it.
Post(s, by) ==
    /\ raising[s, by] = "posting" /\ atVercel[s] = "none"
    /\ atVercel' = [atVercel EXCEPT ![s] = "owed"] /\ raising' = [raising EXCEPT ![<<s, by>>] = "linking"]
    /\ UNCHANGED <<linked, status>> /\ OnlyRaise

\* The call fails: it never arrived, its answer was lost or unreadable, or the invoice is there already.
PostFails(s, by) ==
    /\ raising[s, by] = "posting"
    /\ \/ UNCHANGED atVercel
       \/ atVercel[s] = "none" /\ atVercel' = [atVercel EXCEPT ![s] = "owed"]
    /\ raising' = [raising EXCEPT ![<<s, by>>] = "no"]
    /\ UNCHANGED <<linked, status>> /\ OnlyRaise

Link(s, by) ==
    /\ raising[s, by] = "linking"
    /\ linked' = linked \cup {s} /\ status' = [status EXCEPT ![s] = "submitted"]
    /\ raising' = [raising EXCEPT ![<<s, by>>] = "no"]
    /\ UNCHANGED atVercel /\ OnlyRaise

\* The transaction fails, or the host dies.
LinkFails(s, by) ==
    /\ raising[s, by] = "linking" /\ raising' = [raising EXCEPT ![<<s, by>>] = "no"]
    /\ UNCHANGED <<atVercel, linked, status>> /\ OnlyRaise

-----------------------------------------------------------------------------
(* Vercel, and its webhooks.                                               *)

Settle(s, from, to) ==
    /\ atVercel[s] = from /\ atVercel' = [atVercel EXCEPT ![s] = to]
    /\ UNCHANGED <<spendVars, sale, bookedAs, raising, linked, status, takenBack, planGrants>>

CustomerPays(s) == Settle(s, "owed", "paid")
VercelRefunds(s) == Settle(s, "paid", "refunded")

\* The row's new status, where there is a row.
Mark(s, to) == status' = [status EXCEPT ![s] = IF @ = "none" THEN @ ELSE to]

OnlyPaid == UNCHANGED <<now, cap, ceiling, charged, strays, sale, bookedAs, raising, atVercel, linked, takenBack>>

\* processVercelInvoicePaid, now or later than the payment, and perhaps again: an invoice that is
\* not known as a purchase's is taken for one of the plan's.
InvoicePaid(s) ==
    /\ atVercel[s] \in {"paid", "refunded"}
    /\ Mark(s, "paid")
    /\ IF s \in linked \cup planGrants
         THEN UNCHANGED <<balance, planGrants>>
         ELSE balance' = balance + PlanCredits /\ planGrants' = planGrants \cup {s}
    /\ OnlyPaid

\* processVercelInvoiceRefunded, likewise: a linked purchase gives back what is left of its credits,
\* once, and reopens the month its grant is stamped with.
InvoiceRefunded(s) ==
    /\ atVercel[s] = "refunded"
    /\ Mark(s, "refunded")
    /\ IF s \in linked \ takenBack /\ Applied > 0
         THEN /\ balance' = balance - Applied /\ takenBack' = takenBack \cup {s}
              /\ RecordRefund(bookedAs[s])
              /\ strays' = [strays EXCEPT ![bookedAs[s]] = IF sale[s].month = bookedAs[s] THEN @ ELSE @ + 1]
         ELSE UNCHANGED <<balance, charged, strays, takenBack>>
    /\ UNCHANGED <<now, cap, ceiling, sale, bookedAs, raising, atVercel, linked, planGrants>>

VercelStep ==
    \/ \E s \in Sale : \/ AskToBuy(s) \/ ReserveSale(s) \/ Grant(s) \/ GrantFails(s) \/ ReleaseSale(s)
                       \/ SaleDies(s) \/ Retry(s)
                       \/ \E by \in Submitter : Post(s, by) \/ PostFails(s, by) \/ Link(s, by) \/ LinkFails(s, by)
    \/ \E s \in Sale : CustomerPays(s) \/ VercelRefunds(s) \/ InvoicePaid(s) \/ InvoiceRefunded(s)

=============================================================================
