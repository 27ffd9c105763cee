CONSTANTS
  SessionID = {s1, s2}
  AccountID = {a1, a2}
  MachineID = {m1, m2}
  Call = {c1, c2}
  Task = {t1}
  s1 = s1
  s2 = s2
  a1 = a1
  a2 = a2
  m1 = m1
  m2 = m2
  c1 = c1
  c2 = c2
  t1 = t1
  Ops = {"SignIn", "GetAccountID", "Logout", "GetAllSessions", "TerminateSessions"}
  Faults = TRUE
  TTL = 1
  MaxTime = 0
  None = None

SPECIFICATION Spec
SYMMETRY Symmetry
INVARIANT TypeOK
INVARIANT BindingIntact
INVARIANT IndexOnlyOwn
INVARIANT EndingsLast
PROPERTY EndedByRequest
PROPERTY LifecycleSpec
