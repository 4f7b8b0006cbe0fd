CONSTANTS
  p1 = p1
  p2 = p2
  p3 = p3
  Procs = {p1, p2, p3}
  NoPid = NoPid
  TTL = 3
  MaxLate = 5
  Setups <- LockSetups
SPECIFICATION LockFairSpec
INVARIANT OneHolderUnlessRaced
PROPERTIES
  Excludes
  
  LocksEnd
CHECK_DEADLOCK FALSE
