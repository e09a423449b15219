SPECIFICATION Spec
CONSTANTS
  Workers = {w1, w2, w3}
  r1 = r1
  r2 = r2
  r3 = r3
  o1 = o1
  o2 = o2
  Ids = {r1, r2, r3}
  Payment <- MCPayment
  Amount <- MCAmount
  Outpoints = {o1, o2}
  Value <- MCValue
  None = None
  MaxNonce = 4
  Settings <- MCSettings
SYMMETRY Symmetry
CHECK_DEADLOCK FALSE
INVARIANTS TypeOK NoSharedResource RowDescribesTx NoOrphanLock OnePayout PolicyGate
PROPERTY FollowsLifecycle
