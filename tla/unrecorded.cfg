SPECIFICATION FairSpec
CONSTANTS
  PRs = {p1}
  Bases = {b1}
  Heads = {h1}
  Findings = {f1}
  Accounts = {a1}
  Attempts = 1
  MaxEdits = 1
  MaxFaults = 1
  Modes = {FALSE}
  StorageFails = TRUE
  StateLoss = FALSE
  ListingLags = FALSE
  None = None

CHECK_DEADLOCK FALSE
PROPERTY PublicationRecorded
