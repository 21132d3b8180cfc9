------------------------------- MODULE SpendCap -------------------------------
(***************************************************************************)
(* What both payment rails of an organization share when credits are       *)
(* bought: the wallet, the month the clock is in, and the monthly ceiling  *)
(* on what top-ups may charge (billing_topup_spend_period), with its five  *)
(* operations.  Each operation is one statement holding the row's lock.    *)
(***************************************************************************)
EXTENDS Integers, FiniteSets

CONSTANTS
    Horizon,            \* bound: the clock runs through 1..Horizon, one tick per idempotency bucket
    MonthOf,            \* the billing month of each tick
    Caps,               \* what the organization may set spend_cap_amount_cents to
    Price,              \* priceCents of the selected package
    PackageCredits,     \* credits it grants
    Threshold,          \* auto_top_up_threshold
    InitialBalance      \* credits held at first

Time == 1..Horizon
Months == {MonthOf[t] : t \in Time}

ASSUME SpendCapAssumption ==
    /\ Horizon \in Nat \ {0} /\ MonthOf \in [Time -> Nat \ {0}]
    /\ \A s, t \in Time : s <= t => MonthOf[s] <= MonthOf[t]
    /\ Caps \subseteq Nat /\ Price \in Nat \ {0} /\ PackageCredits \in Nat \ {0}
    /\ Threshold \in Nat /\ InitialBalance \in Nat

VARIABLES
    now,        \* the five-minute bucket it is
    cap,        \* spend_cap_amount_cents
    charged,    \* amount_charged_cents of each month's period row
    balance,    \* credit_balance
    ceiling,    \* (history) the highest cap there has been
    strays      \* (history) per month, what the total has lost track of

spendVars == <<now, cap, charged, balance, ceiling, strays>>

SpendTypeOK ==
    /\ now \in Time /\ cap \in Caps /\ ceiling \in Caps
    /\ charged \in [Months -> Int] /\ strays \in [Months -> Nat] /\ balance \in Nat

SpendInit ==
    /\ now = 1 /\ cap \in Caps /\ ceiling = cap
    /\ charged = [m \in Months |-> 0] /\ strays = [m \in Months |-> 0]
    /\ balance = InitialBalance

Greatest(a, b) == IF a > b THEN a ELSE b
Least(a, b) == IF a < b THEN a ELSE b

Month == MonthOf[now]

\* Mutant of HasRoom: the purchase's own price is left out.
HasRoomBefore == charged[Month] < cap

\* A package still fits under this month's ceiling: the gate of a reservation, and of a checkout.
HasRoom == charged[Month] + Price <= cap

\* A total after one more package.
Draw(m) == charged' = [charged EXCEPT ![m] = @ + Price]

\* releaseReservation: hands a reservation back to the month it was made in.
ReleaseReservation(m) == charged' = [charged EXCEPT ![m] = @ - Price]

\* recordRefund: reopens a month's headroom, never below zero.
RecordRefund(m) == charged' = [charged EXCEPT ![m] = Greatest(0, @ - Price)]

\* What can still be taken back of a refunded package.
Applied == Least(balance, PackageCredits)

-----------------------------------------------------------------------------
(* The organization itself: time passes, credits are spent, settings move. *)

Tick == now < Horizon /\ now' = now + 1 /\ UNCHANGED <<cap, charged, balance, ceiling, strays>>

Consume == \E left \in 0..balance - 1 : balance' = left /\ UNCHANGED <<now, cap, charged, ceiling, strays>>

UpdateCap ==
    /\ \E c \in Caps \ {cap} : cap' = c /\ ceiling' = Greatest(ceiling, c)
    /\ UNCHANGED <<now, charged, balance, strays>>

World == Tick \/ Consume \/ UpdateCap

=============================================================================
