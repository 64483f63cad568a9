SPECIFICATION FairSpec
INVARIANT SoleOwner
PROPERTY SignInConverges
CONSTANTS
  a = a
  A = A
  b = b
  g1 = g1
  g2 = g2
  Emails = {a, A}
  Lower <- MCLower
  AddressOf <- MCAddressOf
  UserIds = {u1, u2, u3}
  GoogleIds = {g1}
  Requests = {r1, r2}
  Kinds = {"register", "google", "delete"}
  Fresh = Fresh
  Gone = Gone
  None = None
