SPECIFICATION Spec
CONSTANTS
  SignIns = {s1, s2}
  g1 = g1
  g2 = g2
  a1 = a1
  a2 = a2
  address1 = address1
  address2 = address2
  NoEmail = NoEmail
  Tokens = {g1, g2, a1, a2}
  Identity <- TokenIdentity
  Email <- TokenEmail
  Users <- Accounts
  MaxSignIns = 3
  Lapsing = {g1}
  Changes = {c1, c2, c3}
  MAX_HISTORY_SIZE = 2
  MaxUploads = 4
  Overwrites <- AvatarOverwrites
  Pins = {p1, p2}
  Thresholds = {2}
  Always = 4
  MaxFailures = 5
  Visits = {v1, v2, v3}
  Languages = {en, fr}
  Default = en
  Devices = {d1, d2}
  PushTokens = {t1, t2}
  TrustTokens = {k1, k2}
  NoToken = NoToken
  Senders = {n1}
  MaxRegistrations = 2
SYMMETRY Symmetry
INVARIANTS
  OneAccountPerIdentity
  TokenAcceptedOnce
  AvatarHistoryIsKept
  EveryThresholdBlocks
  CacheFollowsRow
  CleanupSparesLiveTokens
CHECK_DEADLOCK FALSE
