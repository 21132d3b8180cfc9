SPECIFICATION Spec
CHECK_DEADLOCK FALSE
CONSTANTS
  h1 = h1
  h2 = h2
  Build = {h1, h2}
  o1 = o1
  Other = {o1}
  MaxMishaps = 0
PROPERTY SuccessorKeepsRow
