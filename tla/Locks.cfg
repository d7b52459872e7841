SPECIFICATION FairSpec
CONSTANTS
  c1 = c1
  c2 = c2
  c3 = c3
  LockIds = {11, 12}
  Calls = {c1, c2, c3}
  Ttl = 3
  MaxWait = 1
  MaxTime = 6
  None = None
INVARIANTS
  LocksTypeOK
  LockLasts
PROPERTIES
  ImplementsRunLock
  LockComesFree
CHECK_DEADLOCK FALSE
