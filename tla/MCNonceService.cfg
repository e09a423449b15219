SPECIFICATION FairSpec
CONSTANTS
  c1 = c1
  c2 = c2
  c3 = c3
  Callers = {c1, c2, c3}
  None = None
  MaxRetries = 2
  MaxNonce = 3
INVARIANTS
  TypeOK
  DistinctReservations
  SentNeverReissued
  BroadcastBehindPending
PROPERTIES
  BroadcastMonotone
  ImplementsAllocator
  ReserveReturns
