------------------------------- MODULE Recharge -------------------------------
(***************************************************************************)
(* How an organization's wallet is refilled, on whichever of the two rails *)
(* it is billed by.                                                        *)
(***************************************************************************)
EXTENDS StripeTopUps, VercelPurchases

VARIABLE provider       \* billing_customer.provider

vars == <<provider, spendVars, stripeVars, vercelVars>>

TypeOK == provider \in {"stripe", "vercel"} /\ SpendTypeOK /\ StripeTypeOK /\ VercelTypeOK

Init == provider \in {"stripe", "vercel"} /\ SpendInit /\ StripeInit /\ VercelInit

OnStripe == provider = "stripe" /\ StripeStep /\ UNCHANGED <<provider, vercelVars>>
OnVercel == provider = "vercel" /\ VercelStep /\ UNCHANGED <<provider, stripeVars>>

Next == OnStripe \/ OnVercel \/ (World /\ UNCHANGED <<provider, stripeVars, vercelVars>>)

Stripe(A) == provider = "stripe" /\ A /\ UNCHANGED <<provider, vercelVars>>
Vercel(A) == provider = "vercel" /\ A /\ UNCHANGED <<provider, stripeVars>>

\* The reconciler sweeps, a failed attempt's backoff ends, and the billing job retries.  A process may
\* die and a call may fail, but not for ever: what is repeated without end gets through.
Fairness ==
    /\ SF_vars(Stripe(CheckRecharge(Sweep))) /\ WF_vars(Stripe(Reserve(Sweep)))
    /\ SF_vars(Stripe(Charge(Sweep))) /\ WF_vars(Stripe(ReleaseRecharge(Sweep)))
    /\ WF_vars(Stripe(BackoffExpires))
    /\ \A s \in Sale : WF_vars(Vercel(Retry(s))) /\ SF_vars(Vercel(Post(s, "retry")))

Spec == Init /\ [][Next]_vars /\ Fairness

-----------------------------------------------------------------------------
(* Properties.                                                             *)

\* What was charged to the organization without it asking each time, and not given back, by the
\* month whose headroom paid for it: card charges of recharges, purchases invoiced on Vercel.
ChargedTo(m) ==
    IF provider = "stripe"
      THEN {t \in Time : intent[t] = "paid" /\ bookedIn[t] = m /\ t \notin revoked}
      ELSE {s \in Sold \ takenBack : sale[s].month = m}

\* The ceiling (reserveForAutoTopUp "so two concurrent auto-top-up attempts can't both slip under
\* the cap"): what recharges really charged in a month stays under the highest cap there has been,
\* whatever is reserved, declined, released, refunded and redelivered around them - but for what the
\* total loses track of: a charge whose answer was lost, and a refund booked to another month than
\* the charge was.
ChargesWithinCap ==
    \A m \in Months : Price * Cardinality(ChargedTo(m)) <= ceiling + Price * strays[m]

\* Credit is extended once (VercelCreditPurchaseService): an organization holds at most one package
\* it has not paid for, whatever calls race between the look and the grant.
OneUnpaidPurchase == Cardinality(Outstanding) <= 1

\* No purchase stays unbilled (retryUnbilledPurchases): a package that was sold is invoiced, even if
\* the host died before the call or the call failed.
EverySaleIsInvoiced == \A s \in Sale : (s \in Sold) ~> (atVercel[s] # "none")

Due == provider = "stripe" /\ Low /\ HasRoom

\* The level-triggered net (AutoTopUpReconciler "an organization that should be recharged is, within
\* one tick"): an organization that is low and has room under its cap has its card asked in the
\* bucket it is, or stops being so - no deduction has to come by, and no failed attempt, dead process
\* or turn of the month leaves it waiting.
DueIsRecharged ==
    \A t \in Time : (now = t /\ Due) ~> (now # t \/ intent[t] # "none" \/ ~Due)

\* What the comment in processVercelInvoicePaid says of paying for a package: it "settles what they
\* owed, it does not entitle them to anything more".
PaymentEntitlesToNothingMore == planGrants = {}

=============================================================================
