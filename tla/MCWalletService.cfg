SPECIFICATION FairSpec
CONSTANTS
  w1 = w1
  w2 = w2
  Wallets = {w1, w2}
  Callers = {c1, c2}
  Scenarios <- MCScenarios
  Retries = 2
  MaxIndex = 2
  Keys = {k1, k2, k3}
  KeyCoolingPeriod = 2
  MaxTime = 5
  Canonical <- MCCanonical
  IsNumeric <- MCIsNumeric
  None = None
INVARIANTS ReturnsUsable KeepsAddress LoneCallSucceeds OneCurrentKey CoolingKept
PROPERTY CallReturns
CHECK_DEADLOCK FALSE
