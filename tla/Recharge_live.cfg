SPECIFICATION Spec
CHECK_DEADLOCK FALSE
CONSTANTS
  a1 = a1
  a2 = a2
  c1 = c1
  s1 = s1
  s2 = s2
  Horizon = 3
  MonthOf <- OneThenTwo
  Caps = {10}
  Price = 10
  PackageCredits = 1
  Threshold = 1
  InitialBalance = 0
  Recharger = {a1}
  Sweep = a1
  Checkout = {}
  Sale = {s1}
  PlanCredits = 1
PROPERTY EverySaleIsInvoiced
PROPERTY DueIsRecharged
