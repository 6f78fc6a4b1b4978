SPECIFICATION FairChainSpec
CONSTANTS
  c1 = c1
  c2 = c2
  Senders <- TwoSenders
  ProviderOrder <- TwoProviders
  MAX_FAILURES = 3
  Retries = 3
  MaxSends = 2
INVARIANTS
  BreakerBoundsFailures
PROPERTY EverySendEnds
CHECK_DEADLOCK FALSE
