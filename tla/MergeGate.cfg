SPECIFICATION Spec
CHECK_DEADLOCK FALSE
SYMMETRY Symmetric
CONSTANTS
  h1 = h1
  h2 = h2
  p1 = p1
  p2 = p2
  Heads = {h1, h2}
  Op = {p1, p2}
  None = None
  Verdicts = {"failure", "neutral"}
  MaxMishaps = 1
INVARIANT OneCheckPerHead
INVARIANT RowTellsCheck
INVARIANT BlockStands
INVARIANT InProgressHasRun
