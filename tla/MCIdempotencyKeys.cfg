SPECIFICATION KeysSpec
CONSTANTS
  c1 = c1
  c2 = c2
  c3 = c3
  c4 = c4
  transfers = transfers
  rewards = rewards
  Acquirers <- FourCalls
  Scopes <- TwoScopes
SYMMETRY Symmetry
INVARIANTS
  OneAcquirerOfScopedKey
CHECK_DEADLOCK FALSE
