SPECIFICATION Spec
CONSTANTS
  PRs = {p1}
  Bases = {b1}
  Heads = {h1}
  Findings = {f1}
  Accounts = {a1}
  Attempts = 1
  MaxEdits = 0
  MaxFaults = 2
  Modes = {FALSE}
  StorageFails = FALSE
  StateLoss = FALSE
  ListingLags = FALSE
  None = None
INVARIANT ExhaustedIsRetriable
CHECK_DEADLOCK FALSE
