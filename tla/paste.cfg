\* A link that delivers the bytes of one press more than a tick apart.
SPECIFICATION KeysSpec
CONSTANTS
  Presses = {"q", "paste"}
  Chunk = 4
  MaxPending = 4
  SlowLink = TRUE
  MaxTyped = 2
PROPERTY PasteIsDiscarded
CHECK_DEADLOCK FALSE
