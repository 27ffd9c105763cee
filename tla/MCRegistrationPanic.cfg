CONSTANTS
  Email = {e1}
  Profile = {p1}
  AccountID = {i1, i2}
  Call = {c1, c2}
  e1 = e1
  p1 = p1
  i1 = i1
  i2 = i2
  c1 = c1
  c2 = c2
  Ops = {"CreateAccount", "RequestAccountVerificationToken", "VerifyAccount"}
  Faults = {}
  TTL = 1
  Second = 1
  MaxTime = 0
  None = None

SPECIFICATION Spec
SYMMETRY Symmetry
INVARIANT NoNilTransaction
