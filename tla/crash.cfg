SPECIFICATION Spec
CONSTANTS
  PRs = {p1}
  Bases = {b1}
  Heads = {h1, h2}
  Findings = {f1}
  Accounts = {a1}
  Attempts = 2
  MaxEdits = 2
  MaxFaults = 2
  Modes = {FALSE}
  StorageFails = FALSE
  StateLoss = FALSE
  ListingLags = TRUE
  None = None
INVARIANTS TypeOK AtMostOnce DurableIntent
PROPERTIES NothingMissedIsPosted PublicationsStand PublishesOnce
CHECK_DEADLOCK FALSE
