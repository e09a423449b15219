SPECIFICATION Spec
CONSTANTS
  Callers = {c1, c2}
  large = large
  twin1 = twin1
  twin2 = twin2
  small = small
  Outpoints = {large, twin1, twin2, small}
  Value <- MCValue
  Amounts = {0, 3, 5}
  Redelivery = FALSE
SYMMETRY SymmetryTwins
INVARIANTS
  TypeOK
  ExclusiveHold
  NoDoubleSpend
PROPERTY FewestInputs
