SPECIFICATION FairSpec
CONSTANTS
  Calls = {c1, c2}
  Users = {u1, u2}
  Names = {n1, n2}
  None = None
  PoolMax = 3
  MaxYear = 1
  MaxCalls = 4
INVARIANTS
  TypeOK
  NamesAreUnique
  UsernameIsOwnTag
  LimitsHoldForOrderlyUsers
PROPERTY EveryRequestEnds
CHECK_DEADLOCK FALSE
