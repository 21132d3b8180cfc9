SPECIFICATION Spec
CHECK_DEADLOCK FALSE
SYMMETRY Symmetry
CONSTANTS
  h1 = h1
  h2 = h2
  Build = {h1, h2}
  o1 = o1
  Other = {o1}
  MaxMishaps = 1
INVARIANT ReadyIsReal
INVARIANT GoneIsAccounted
PROPERTY DeadHasNotLived
