SPECIFICATION Spec
CHECK_DEADLOCK FALSE
CONSTANTS
  a1 = a1
  a2 = a2
  c1 = c1
  s1 = s1
  s2 = s2
  Horizon = 2
  MonthOf <- OneMonth
  Caps = {15, 20}
  Price = 10
  PackageCredits = 1
  Threshold = 1
  InitialBalance = 0
  Recharger = {a1, a2}
  Sweep = a1
  Checkout = {c1}
  Sale = {s1, s2}
  PlanCredits = 1
INVARIANT ChargesWithinCap
INVARIANT OneUnpaidPurchase
