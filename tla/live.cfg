SPECIFICATION FairSpec
CONSTANTS
  PRs = {p1}
  Bases = {b1}
  Heads = {h1, h2}
  Findings = {f1}
  Accounts = {a1}
  Attempts = 2
  MaxEdits = 1
  MaxFaults = 2
  Modes = {FALSE}
  StorageFails = FALSE
  StateLoss = FALSE
  ListingLags = TRUE
  None = None

PROPERTY PublicationRecorded Settles
CHECK_DEADLOCK FALSE
