CONSTANTS
  Call = {c1, c2}
  c1 = c1
  c2 = c2

SPECIFICATION FairSpec
\* The process ends.
CHECK_DEADLOCK FALSE
INVARIANT TypeOK
INVARIANT RequestsHaveStores
INVARIANT OpenedAreClosed
PROPERTY CutOnlyBeforeNotify
PROPERTY Stops
