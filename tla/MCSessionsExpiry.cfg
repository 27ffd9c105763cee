CONSTANTS
  SessionID = {s1, s2}
  AccountID = {a1}
  MachineID = {m1}
  Call = {c1}
  Task = {t1, t2}
  s1 = s1
  s2 = s2
  a1 = a1
  m1 = m1
  c1 = c1
  t1 = t1
  t2 = t2
  Ops = {"SignIn", "GetAccountID", "Logout", "TerminateSessions"}
  Faults = FALSE
  TTL = 2
  MaxTime = 3
  None = None

SPECIFICATION Spec
SYMMETRY Symmetry
INVARIANT IndexOutlivesKeys
PROPERTY LifecycleSpec
