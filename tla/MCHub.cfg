SPECIFICATION Spec
CONSTANTS
  alice = alice
  bob = bob
  carol = carol
  markets = markets
  outcome = outcome
  question = question
  Accounts = {alice, bob, carol}
  Requesters = {alice}
  Nodes = {bob}
  Nobody = Nobody
  Clients = {markets}
  MaxAge <- Ages
  Inputs = {question}
  Answers = {outcome}
  Base = 3
  BidAmounts = {3, 4}
  StakeAmounts = {1}
  MinAges = {0, 1}
  SignerSets <- Signers
  MaxBids = 2
  MaxReceived = 2
  MaxStake = 2
  MaxTime = 1
INVARIANTS
  HubSolvent
  StakeAgrees
  AnsweredOnce
  FeesAccounted
CHECK_DEADLOCK FALSE
