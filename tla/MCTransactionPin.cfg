SPECIFICATION Spec
CONSTANTS
  Calls = {c1, c2, c3}
  maxAttempts = 3
  MaxCalls = 6
SYMMETRY Symmetry
INVARIANTS
  TypeOK
  RateLimitNeverFires
  LockoutIsEarned
  SequentialBudget
CHECK_DEADLOCK FALSE
