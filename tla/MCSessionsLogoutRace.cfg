CONSTANTS
  SessionID = {s1}
  AccountID = {a1}
  MachineID = {m1}
  Call = {c1, c2}
  Task = {t1}
  s1 = s1
  a1 = a1
  m1 = m1
  c1 = c1
  c2 = c2
  t1 = t1
  Ops = {"SignIn", "Logout", "GetAccountID"}
  Faults = FALSE
  TTL = 1
  MaxTime = 0
  None = None

SPECIFICATION Spec
SYMMETRY Symmetry
INVARIANT LogoutEnds
