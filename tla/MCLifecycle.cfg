SPECIFICATION Spec
CONSTANTS
  Dollar = 2
  Cent = 2
  Bps = 4
  MaxTakerFeeBps = 4
  alice = alice
  bob = bob
  post = post
  Accounts = {alice, bob}
  Nobody = Nobody
  Posts = {post}
  NoPost = NoPost
  SignedOrders <- NoSignedOrders
  Sizes = {2}
  TakerFees = {}
  FeeShares = {}
  FlatFees = {}
  Amounts = {4}
  InitialFees <- InitFees
  InitTakerFee = 4
  InitFeeShare = 2
  InitWithdrawalFee = 1
  InitSettlementFee = 2
  MaxMarkets = 1
  MaxOrders = 3
  MaxBids = 2
  MaxTime = 1
SYMMETRY AccountSymmetry
INVARIANTS
  OneOpenBid
PROPERTIES
  OutcomeFinal
CHECK_DEADLOCK FALSE
