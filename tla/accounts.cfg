SPECIFICATION Spec
CONSTANTS
  PRs = {p1}
  Bases = {b1}
  Heads = {h1}
  Findings = {f1}
  Accounts = {a1, a2}
  Attempts = 2
  MaxEdits = 0
  MaxFaults = 1
  Modes = {FALSE}
  StorageFails = TRUE
  StateLoss = FALSE
  ListingLags = FALSE
  None = None
INVARIANT AtMostOnce
CHECK_DEADLOCK FALSE
