CONSTANTS
  SessionID = {s1, s2}
  AccountID = {a1}
  MachineID = {m1}
  Call = {c1, c2}
  Task = {t1, t2}
  s1 = s1
  s2 = s2
  a1 = a1
  m1 = m1
  c1 = c1
  c2 = c2
  t1 = t1
  t2 = t2
  Ops = {"SignIn", "TerminateSessions"}
  Faults = FALSE
  TTL = 1
  MaxTime = 0
  None = None

SPECIFICATION Spec
SYMMETRY Symmetry
INVARIANT NamedSessionsEnd
