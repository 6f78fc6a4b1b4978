SPECIFICATION Spec
CONSTANTS
  Calls = {c1, c2}
  Codes = {k1, k2}
  NoCode = NoCode
  MAX_RESEND_ATTEMPTS = 1
  MAX_VERIFICATION_ATTEMPTS = 2
  Production = TRUE
  MaxCalls = 5
SYMMETRY Symmetry
INVARIANTS
  TypeOK
  GuessBudget
  MailBudget
  SingleUse
CHECK_DEADLOCK FALSE
PROPERTIES
  GuessingIsBudget
  MailingIsBudget
