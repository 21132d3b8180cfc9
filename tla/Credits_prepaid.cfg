SPECIFICATION Spec
CHECK_DEADLOCK FALSE
CONSTANTS
  b1 = b1
  b2 = b2
  g1 = g1
  g2 = g2
  g3 = g3
  u1 = u1
  u2 = u2
  q1 = q1
  r1 = r1
  p1 = p1
  Batch = {b1}
  Runs <- TwoRuns
  RunCost = 2
  Usage = {u1, u2}
  UsageMicros <- Costs
  MicrosPerCredit = 6
  Request = {q1}
  RequestCost <- OneCredit
  Purchase = {p1}
  PackageCredits = 2
  Refund = {r1}
  RefundOf <- RefundsP1
  RefundCredits <- InFull
  Invoice = {i1, i2}
  PlanCredits = 3
  InitialBalance = 3
  Floors <- FloorZero
  Exemptions = {}
  MaxAdmin = 0
INVARIANT SubscriptionIsPart
PROPERTY ExhaustedStaysBlocked
