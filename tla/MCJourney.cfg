CONSTANTS
  Surfaces <- MCSurfaces
  MaxTaps = 2
  MobileAttempts = 3
  MaxFaults = 2
  MaxOrderFaults = 1
  Unit = 1000
  FeeBps = 700
  Prices <- MCPrices
SPECIFICATION Spec
CHECK_DEADLOCK FALSE
INVARIANTS
  HandledOnce
  SuccessIsReal
  UndisturbedAgrees

  
