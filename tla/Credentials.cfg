SPECIFICATION Spec
INVARIANTS
  TypeOK
  SpentTokenRefused
  ResetRetiresLinks
  ForgotAnswersAlike
  ErrorMeansDeleted
SYMMETRY Symmetry
CONSTANTS
  Requests = {r1, r2}
  Passwords = {old, new, tiny, huge}
  Short = {tiny}
  Long = {huge}
  FirstPassword = old
  old = old
  new = new
  tiny = tiny
  huge = huge
  LegacyHash = TRUE
  TokenIds = {t1, t2}
  MaxSalt = 5
  None = None
