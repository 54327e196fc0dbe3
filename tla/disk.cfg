SPECIFICATION Spec
CONSTANTS
  PRs = {p1}
  Bases = {b1}
  Heads = {h1, h2}
  Findings = {f1}
  Accounts = {a1}
  Attempts = 2
  MaxEdits = 1
  MaxFaults = 1
  Modes = {TRUE, FALSE}
  StorageFails = TRUE
  StateLoss = TRUE
  ListingLags = FALSE
  None = None
INVARIANT AtMostOnce SavedStateLoads NoWorkWhileUncertain
PROPERTY DryRunLeavesLive
CHECK_DEADLOCK FALSE
