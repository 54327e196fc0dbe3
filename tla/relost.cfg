SPECIFICATION Spec
CONSTANTS
  PRs = {p1}
  Bases = {b1}
  Heads = {h1}
  Findings = {f1}
  Accounts = {a1}
  Attempts = 2
  MaxEdits = 0
  MaxFaults = 1
  Modes = {FALSE}
  StorageFails = FALSE
  StateLoss = TRUE
  ListingLags = FALSE
  None = None
INVARIANT CertifiedFindings

CHECK_DEADLOCK FALSE
