SPECIFICATION Spec
CONSTANTS
  relayer1 = relayer1
  relayer2 = relayer2
  relayerLock = relayerLock
  Nobody = Nobody
  Runners = {relayer1, relayer2}
  Roles = {relayerLock}
  RoleOf <- TheRoleOf
  StartNonce = 0
  MaxNonce = 2
INVARIANTS
  NonceOnce
  NoSkippedNonce
PROPERTIES
  MinedUnlessLost
