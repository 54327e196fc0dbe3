SPECIFICATION Spec
CONSTANTS
  r1 = r1
  r2 = r2
  v1 = v1
  v2 = v2
  Runs = {r1, r2}
  Revisions = {v1, v2}
  Task <- Shared
  MaxPushes = 2
  MaxStarts = 1
INVARIANTS NotAllRefused PostedOnce CertifiedIsPosted
PROPERTIES SubmittedStays RunsPublishOnce
CHECK_DEADLOCK FALSE
