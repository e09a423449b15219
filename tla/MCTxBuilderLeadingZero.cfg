SPECIFICATION Spec
CONSTANTS
  b1 = b1
  b2 = b2
  Builders = {b1, b2}
  Scenarios <- MCScenarios
  Nonces = {0, 127, 128, 255, 256}
  To <- MCTo
  Signatures <- MCSignatures
  MaxInputs = 2
  MaxTime = 7
  MaxIndex = 3
  HardenedFrom = 3
  Width = 32
  Coordinate <- MCCoordinate
INVARIANT EveryEvmAddressOwned
CHECK_DEADLOCK FALSE
