SPECIFICATION Spec
CONSTANTS
  Callers = {c1, c2}
  large = large
  twin1 = twin1
  twin2 = twin2
  small = small
  Outpoints = {twin1, twin2}
  Value <- MCValue
  Amounts = {2}
  Redelivery = TRUE
CHECK_DEADLOCK FALSE
SYMMETRY SymmetryTwins
INVARIANT ExclusiveHold
