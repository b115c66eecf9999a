SPECIFICATION SessionSpec
CONSTANTS
  a = a  A = A  b = b  g1 = g1  g2 = g2  r1 = r1  r2 = r2  r3 = r3  r4 = r4
  c1 = c1  c2 = c2  c3 = c3
  None = None
  Emails <- OneEmail
  Lower <- SameSpelling
  GoogleIds = {g1}
  Requests = {r1, r2}
  Operations = {"google", "register"}
  TokenTTL = 1
  MaxTime = 1
  MaxFaults = 1
  Calls = {c1, c2, c3}
  AccessTTL = 1
  HoldTTL = 1
SYMMETRY AnonymousCalls
INVARIANTS
  SessionTypeOK
  TokensNameAccounts
  HoldIsForGoogleUser
PROPERTIES
  ImplementsSessionLifecycle
