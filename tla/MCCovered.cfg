CONSTANTS
  Surfaces <- MCSurfaces
  MaxTaps = 1
  MobileAttempts = 1
  MaxFaults = 0
  MaxOrderFaults = 1
  Unit = 1000
  FeeBps = 700
  Prices <- MCPrices
SPECIFICATION Spec
CHECK_DEADLOCK FALSE
INVARIANTS
  AdmittedIsCovered
