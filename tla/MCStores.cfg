SPECIFICATION Spec
CONSTANTS
  Ids = {1, 2}
  Parents = {w1, w2}
  Texts = {"1", "1.0", ""}
  Canonical <- MCCanonical
  IsNumeric <- MCIsNumeric
  Cooling = 1
  MaxTime = 3
  MaxCount = 2
INVARIANTS SameRows KnownDifferences InflightIsInFlight
CHECK_DEADLOCK FALSE
