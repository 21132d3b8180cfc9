----------------------------- MODULE StripeTopUps -----------------------------
(***************************************************************************)
(* Top-ups of an organization billed by card.                              *)
(*                                                                         *)
(* A recharge (after a deduction, or from the reconciler's sweep) finds    *)
(* the balance low, reserves the package's price under the monthly cap and *)
(* asks Stripe to charge the card under an idempotency key that is one per *)
(* five-minute bucket; a call that fails gives the reservation back.  A    *)
(* customer may buy by hand, which is only recorded under the cap.  Stripe *)
(* tells of settled charges and refunds by webhook, at least once and in   *)
(* any order.                                                              *)
(***************************************************************************)
EXTENDS SpendCap

CONSTANTS
    Recharger,      \* processes running maybeTriggerAutoTopUp
    Sweep,          \* the one of them that the reconciler runs
    Checkout        \* Checkout sessions

ASSUME StripeAssumption ==
    Sweep \in Recharger /\ Checkout \cap Time = {} /\ IsFiniteSet(Recharger) /\ IsFiniteSet(Checkout)

Intent == Time \cup Checkout        \* a recharge's PaymentIntent is known by its bucket

VARIABLES
    recharge,   \* where each recharge is, and the month it reserved in
    backoff,    \* auto_top_up_last_failure_at is recent
    intent,     \* (Stripe) each PaymentIntent
    bookedIn,   \* (Stripe, history) the month whose reservation a charge was made under
    granted,    \* intents with a TOPUP_PURCHASE row, and its billing_period_key
    unrecorded, \* Checkout intents granted but not yet recorded under the cap
    revoked     \* intents with a TOPUP_REFUND row

stripeVars == <<recharge, backoff, intent, bookedIn, granted, unrecorded, revoked>>

NoMonth == 0

StripeTypeOK ==
    /\ recharge \in [Recharger -> [at: {"idle", "checked", "reserved", "failed"}, month: Months \cup {NoMonth}]]
    /\ backoff \in BOOLEAN
    /\ intent \in [Intent -> {"none", "open", "paid", "declined"}]
    /\ bookedIn \in [Intent -> Months \cup {NoMonth}]
    /\ granted \in [Intent -> Months \cup {NoMonth}]
    /\ revoked \subseteq Intent /\ unrecorded \subseteq Checkout

StripeInit ==
    /\ recharge = [a \in Recharger |-> [at |-> "idle", month |-> NoMonth]]
    /\ backoff = FALSE
    /\ intent = [i \in Intent |-> "none"]
    /\ bookedIn = [i \in Intent |-> NoMonth] /\ granted = [i \in Intent |-> NoMonth]
    /\ unrecorded = {} /\ revoked = {}

-----------------------------------------------------------------------------
(* Recharges.                                                              *)

OnlyRecharge ==
    UNCHANGED <<now, cap, balance, ceiling, granted, unrecorded, revoked>>

Low == balance < Threshold

\* Mutant of WorthAsking: a month that was full keeps the sweep away for ever.
WorthAskingInAllMonths(a) ==
    a = Sweep => ~backoff /\ \A m \in Months : charged[m] + Price <= cap

\* The reconciler only asks about an organization with room and no recent failure; a deduction does not look.
WorthAsking(a) == a = Sweep => HasRoom /\ ~backoff

\* The wallet is read, and a saved card is found at Stripe.
CheckRecharge(a) ==
    /\ recharge[a].at = "idle" /\ Low /\ WorthAsking(a)
    /\ recharge' = [recharge EXCEPT ![a].at = "checked"]
    /\ UNCHANGED <<backoff, charged, strays, intent, bookedIn>> /\ OnlyRecharge

\* There is no card.
NoPaymentMethod(a) ==
    /\ recharge[a].at = "idle" /\ Low /\ WorthAsking(a)
    /\ backoff' = TRUE
    /\ UNCHANGED <<recharge, charged, strays, intent, bookedIn>> /\ OnlyRecharge

Reserve(a) ==
    /\ recharge[a].at = "checked"
    /\ IF HasRoom
         THEN Draw(Month) /\ recharge' = [recharge EXCEPT ![a] = [at |-> "reserved", month |-> Month]]
         ELSE recharge' = [recharge EXCEPT ![a].at = "idle"] /\ UNCHANGED charged
    /\ UNCHANGED <<backoff, strays, intent, bookedIn>> /\ OnlyRecharge

Idle(a) == recharge' = [recharge EXCEPT ![a] = [at |-> "idle", month |-> NoMonth]]

\* Stripe's answer to the charge: the first call of a bucket is carried out, later ones are replayed.
AskStripe(a) ==
    IF intent[now] # "none"
      THEN UNCHANGED <<intent, bookedIn>>
      ELSE /\ \E result \in {"paid", "declined"} : intent' = [intent EXCEPT ![now] = result]
           /\ bookedIn' = [bookedIn EXCEPT ![now] = recharge[a].month]

\* The charge went through and the call returned: the reservation has become the charge's.
Charge(a) ==
    /\ recharge[a].at = "reserved"
    /\ AskStripe(a) /\ intent'[now] = "paid"
    /\ Idle(a) /\ backoff' \in {FALSE, backoff}      \* clearFailure is best effort
    /\ UNCHANGED <<charged, strays>> /\ OnlyRecharge

\* The card was declined, or the call failed on the way there.
ChargeFails(a) ==
    /\ recharge[a].at = "reserved"
    /\ \/ AskStripe(a) /\ intent'[now] = "declined"
       \/ UNCHANGED <<intent, bookedIn>>
    /\ recharge' = [recharge EXCEPT ![a].at = "failed"] /\ backoff' \in {TRUE, backoff}
    /\ UNCHANGED <<charged, strays>> /\ OnlyRecharge

\* The charge went through and its answer was lost: the call fails all the same.
AnswerLost(a) ==
    /\ recharge[a].at = "reserved" /\ intent[now] = "none"
    /\ AskStripe(a) /\ intent'[now] = "paid"
    /\ recharge' = [recharge EXCEPT ![a].at = "failed"] /\ backoff' \in {TRUE, backoff}
    /\ strays' = [strays EXCEPT ![recharge[a].month] = @ + 1]
    /\ UNCHANGED charged /\ OnlyRecharge

ReleaseRecharge(a) ==
    /\ recharge[a].at = "failed"
    /\ ReleaseReservation(recharge[a].month) /\ Idle(a)
    /\ UNCHANGED <<backoff, strays, intent, bookedIn>> /\ OnlyRecharge

\* The process dies; what it reserved stays reserved.
RechargerDies(a) ==
    /\ recharge[a].at \in {"reserved", "failed"} /\ Idle(a)
    /\ UNCHANGED <<charged, backoff, strays, intent, bookedIn>> /\ OnlyRecharge

BackoffExpires ==
    /\ backoff /\ backoff' = FALSE
    /\ UNCHANGED <<recharge, charged, strays, intent, bookedIn>> /\ OnlyRecharge

-----------------------------------------------------------------------------
(* Checkout, the card, and Stripe's webhooks.                              *)

OnlyStripe == UNCHANGED <<now, cap, ceiling, recharge, backoff>>

\* A session is created only if the package would fit; nothing is reserved for it.
OpenCheckout(c) ==
    /\ intent[c] = "none" /\ HasRoom /\ intent' = [intent EXCEPT ![c] = "open"]
    /\ UNCHANGED <<charged, balance, strays, bookedIn, granted, unrecorded, revoked>> /\ OnlyStripe

PayCheckout(c) ==
    /\ intent[c] = "open" /\ intent' = [intent EXCEPT ![c] = "paid"]
    /\ UNCHANGED <<charged, balance, strays, bookedIn, granted, unrecorded, revoked>> /\ OnlyStripe

\* grantTopupCredits: the ledger row is unique on the intent, and stamped with the month it is now.
GrantTopup(i) ==
    /\ intent[i] = "paid" /\ granted[i] = NoMonth
    /\ balance' = balance + PackageCredits
    /\ granted' = [granted EXCEPT ![i] = Month]
    /\ unrecorded' = unrecorded \cup ({i} \cap Checkout)
    /\ UNCHANGED <<charged, strays, intent, bookedIn, revoked>> /\ OnlyStripe

\* The same webhook's second step, in the month it is by then.
RecordManualCharge(c) ==
    /\ c \in unrecorded
    /\ Draw(Month)
    /\ bookedIn' = [bookedIn EXCEPT ![c] = Month] /\ unrecorded' = unrecorded \ {c}
    /\ UNCHANGED <<balance, strays, intent, granted, revoked>> /\ OnlyStripe

\* The handler dies in between; delivered again, the webhook finds the grant and stops there.
RecordingLost(c) ==
    /\ c \in unrecorded /\ unrecorded' = unrecorded \ {c}
    /\ UNCHANGED <<charged, balance, strays, intent, bookedIn, granted, revoked>> /\ OnlyStripe

\* Money went back, and revokeTopupCredits hears of it: it needs the purchase's row and something
\* left to take back, and reopens the month the row is stamped with.  Else it leaves no trace.
RevokeTopup(i) ==
    /\ granted[i] # NoMonth /\ i \notin revoked /\ Applied > 0
    /\ balance' = balance - Applied /\ revoked' = revoked \cup {i}
    /\ RecordRefund(granted[i])
    /\ strays' = [strays EXCEPT ![granted[i]] = IF bookedIn[i] = granted[i] THEN @ ELSE @ + 1]
    /\ UNCHANGED <<intent, bookedIn, granted, unrecorded>> /\ OnlyStripe

StripeStep ==
    \/ \E a \in Recharger : \/ CheckRecharge(a) \/ NoPaymentMethod(a) \/ Reserve(a) \/ Charge(a)
                            \/ ChargeFails(a) \/ AnswerLost(a) \/ ReleaseRecharge(a) \/ RechargerDies(a)
    \/ BackoffExpires
    \/ \E c \in Checkout : OpenCheckout(c) \/ PayCheckout(c) \/ RecordManualCharge(c) \/ RecordingLost(c)
    \/ \E i \in Intent : GrantTopup(i) \/ RevokeTopup(i)

=============================================================================
