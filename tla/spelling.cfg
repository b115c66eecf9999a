SPECIFICATION Spec
CONSTANTS
  a = a  A = A  b = b  g1 = g1  g2 = g2  r1 = r1  r2 = r2  r3 = r3  r4 = r4
  None = None
  Emails <- TwoSpellings
  Lower <- CapitalSpelling
  GoogleIds = {g1}
  Requests = {r1, r2}
  Operations = {"google", "register"}
  TokenTTL = 1
  MaxTime = 0
  MaxFaults = 0
INVARIANTS
  OneAccountPerEmail
