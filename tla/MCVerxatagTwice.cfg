SPECIFICATION Spec
CONSTANTS
  Calls = {c1, c2}
  Users = {u1}
  Names = {n1, n2}
  None = None
  PoolMax = 3
  MaxYear = 0
  MaxCalls = 2
INVARIANT OneActiveTagPerUser
CHECK_DEADLOCK FALSE
