SPECIFICATION FairSpec
CONSTANTS
  r1 = r1
  r2 = r2
  v1 = v1
  v2 = v2
  Runs = {r1, r2}
  Revisions = {v1}
  Task <- OneCheckout
  MaxPushes = 0
  MaxStarts = 1
INVARIANTS Exclusive LocksReturned
PROPERTIES StopsSoon GoneLetsGo
CHECK_DEADLOCK FALSE
