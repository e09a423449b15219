SPECIFICATION Spec
CONSTANTS
  w1 = w1
  w2 = w2
  Wallets = {w1, w2}
  Callers = {c1, c2}
  Scenarios <- SolanaScenarios
  Retries = 2
  MaxIndex = 2
  Keys = {k1, k2, k3}
  KeyCoolingPeriod = 2
  MaxTime = 5
  Canonical <- MCCanonical
  IsNumeric <- MCIsNumeric
  None = None
INVARIANT SolanaReturnsIt
CHECK_DEADLOCK FALSE
