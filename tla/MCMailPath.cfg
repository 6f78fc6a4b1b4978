SPECIFICATION Spec
CONSTANTS
  c1 = c1
  c2 = c2
  h1 = h1
  h2 = h2
  m1 = m1
  Slots <- const_Slots
  Hooks <- const_Hooks
  Messages <- const_Messages
  Kinds <- const_Kinds
  maxCacheSize = 1
  MaxMails = 3
  MaxEvents = 3
INVARIANT CacheIsBounded
INVARIANT MailsAreComplete
INVARIANT StatusFollowsEvents
SYMMETRY Interchangeable
CHECK_DEADLOCK FALSE
