CONSTANTS
  Handlers = {h1, h2}
  Drainers = {d1, d2}
  BatchSize = 2
  MaxFaults = 1
  Events <- MCEvents
  Info <- MCInfo
  Asset = "eth"
  ConfirmationsEVM = 12
  ConfirmationsBTC = 6
  HotWalletMinBalance = 2
  Requests = {r1, r2}
  LockAmount = 1
  MaxLocked = 1
  MaxReorgs = 1
  Provisioned = {TRUE, FALSE}
  Workloads <- MCWorkloads
  Empty = Empty
  None = None
SPECIFICATION FairSpec
INVARIANTS TypeOK Conservation AuditedOnce DeliveredIsPublished DistinctSeqs OneOpenRequest
PROPERTIES BlockSeenMonotone ImplementsBook LowIsRequested AuditReachesLog
