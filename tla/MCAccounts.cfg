CONSTANTS
  Email = {e1}
  Password = {p1, p2}
  AccountID = {a1, a2}
  SessionID = {s1}
  Call = {c1, c2}
  Task = {t1, t2}
  e1 = e1
  p1 = p1
  p2 = p2
  a1 = a1
  a2 = a2
  s1 = s1
  c1 = c1
  c2 = c2
  t1 = t1
  t2 = t2
  NumRetries = 2
  Faults = {"redis", "db", "kafka", "ctx", "crash"}
  None = None

SPECIFICATION Spec
SYMMETRY Symmetry
INVARIANT TypeOK
INVARIANT DeletedMeansDone
 
PROPERTY LifecycleSpec
PROPERTY PasswordOnlyByToken
PROPERTY ChangedMeansWritten
