CONSTANTS
  Email = {e1}
  Password = {p1}
  AccountID = {a1}
  SessionID = {s1}
  Call = {c1, c2}
  Task = {t1}
  e1 = e1
  p1 = p1
  a1 = a1
  s1 = s1
  c1 = c1
  c2 = c2
  t1 = t1
  NumRetries = 2
  Faults = {"redis", "kafka", "ctx"}
  None = None

SPECIFICATION FairSpec
PROPERTY Answered
