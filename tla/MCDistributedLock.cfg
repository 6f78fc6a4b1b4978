SPECIFICATION FairSpec
CONSTANTS
  c1 = c1
  c2 = c2
  Callers <- MCCallers
  MaxRetries = 3
  MaxCalls = 4
INVARIANTS
  TypeOK
  UnexpiredLeaseIsKept
PROPERTIES
  EveryCallEnds
  IsALease
CHECK_DEADLOCK FALSE
