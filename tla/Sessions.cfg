SPECIFICATION Spec
INVARIANTS
  SignInAtHome
  CsrfRefusalHasCause
  RefusalGoesBack
  NoEntryAfterEnd
SYMMETRY Interchangeable
CONSTANTS
  laptop = laptop
  phone = phone
  t1 = t1
  t2 = t2
  Browsers = {laptop, phone}
  Tabs = {t1, t2}
  Homes <- MCHomes
  Users = {ann}
  Pages = {"/register", "elsewhere"}
  Nonces = {n1, n2}
  None = None
