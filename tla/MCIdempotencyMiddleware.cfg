SPECIFICATION MiddlewareSpec
CONSTANTS
  s1 = s1
  s2 = s2
  b1 = b1
  b2 = b2
  Slots <- TwoSlots
  Bodies <- TwoBodies
  MaxRequests = 4
INVARIANTS
  RunsOnceInTurn
CHECK_DEADLOCK FALSE
