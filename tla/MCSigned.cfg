SPECIFICATION SignedSpec
CONSTANTS
  Dollar = 4
  Cent = 5
  Bps = 100
  MaxTakerFeeBps = 20
  alice = alice
  bob = bob
  post = post
  Accounts = {alice, bob}
  Nobody = Nobody
  Posts = {post}
  NoPost = NoPost
  SignedOrders <- FewSignedOrders
  Sizes = {2}
  TakerFees = {20}
  FeeShares = {}
  FlatFees = {}
  Amounts = {10}
  InitialFees <- InitFees
  InitTakerFee = 6
  InitFeeShare = 50
  InitWithdrawalFee = 2
  InitSettlementFee = 5
  MaxMarkets = 1
  MaxOrders = 3
  MaxBids = 0
  MaxTime = 1
INVARIANTS
  ChargeWithinBound
CHECK_DEADLOCK FALSE
