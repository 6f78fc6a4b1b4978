SPECIFICATION Spec
CONSTANTS
  Accounts = {a, r}
  Established = {r}
  Devices = {d1, d2}
  Nobody = Nobody
  NoDevice = NoDevice
  Calls = {c1, c2}
  MaxCalls = 4
SYMMETRY Symmetry
INVARIANTS
  TypeOK
  NoSelfReferral
  VerifiedHasTokens
  TrustedByOneValidation
  NoCodeAfterVerification
CHECK_DEADLOCK FALSE
