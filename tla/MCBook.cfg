SPECIFICATION BookSpec
CONSTANTS
  Dollar = 4
  Cent = 5
  Bps = 10
  MaxTakerFeeBps = 10
  alice = alice
  bob = bob
  post = post
  Accounts = {alice, bob}
  Nobody = Nobody
  Posts = {}
  NoPost = NoPost
  SignedOrders <- NoSignedOrders
  Sizes = {1, 2}
  TakerFees = {}
  FeeShares = {}
  FlatFees = {}
  Amounts = {}
  InitialFees <- InitFees
  InitTakerFee = 2
  InitFeeShare = 5
  InitWithdrawalFee = 1
  InitSettlementFee = 5
  MaxMarkets = 1
  MaxOrders = 3
  MaxBids = 0
  MaxTime = 0
INVARIANTS
  BookConsistent
  NeverCrossed
  FullyCollateralized
PROPERTIES
  PriceTimePriority
  MatchingEnds
CHECK_DEADLOCK FALSE
