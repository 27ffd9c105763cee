CONSTANTS
  Email = {e1}
  Profile = {p1, p2}
  AccountID = {i1, i2}
  Call = {c1, c2}
  e1 = e1
  p1 = p1
  p2 = p2
  i1 = i1
  i2 = i2
  c1 = c1
  c2 = c2
  Ops = {"CreateAccount", "RequestAccountVerificationToken", "VerifyAccount"}
  Faults = {"redis", "db", "kafka", "crash"}
  TTL = 2
  Second = 2
  MaxTime = 2
  None = None

SPECIFICATION FairSpec
INVARIANT TypeOK
INVARIANT EventsMatchRows
INVARIANT EmailUnique
INVARIANT VerifiedMeansDone
INVARIANT AcceptedEmailKept
 
PROPERTY Answered
