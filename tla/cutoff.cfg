SPECIFICATION Spec
CONSTANTS
  r1 = r1
  r2 = r2
  v1 = v1
  v2 = v2
  Runs = {r1, r2}
  Revisions = {v1, v2}
  Task <- Shared
  MaxPushes = 0
  MaxStarts = 0
PROPERTIES StopsAfterStream
CHECK_DEADLOCK FALSE
