\* Parts that share no state, one per behaviour.
SPECIFICATION PartsSpec
CONSTANTS
  Presses = {"up", "esc", "q", "paste"}
  Chunk = 4
  MaxPending = 4
  SlowLink = FALSE
  MaxTyped = 3
  ReportLimit = 2
  ActivityLimit = 2
  Heights = {0, 1}
  DetailRows = {1}
  ClipAt = 2
  Sizes = {1, 2}
  Widths = {1, 2}
  Saved = 1
  MaxReviews = 3
  MaxLines = 3
  MaxKeys = 2
  Streams = {"a", "b"}
  Texts <- MCTexts
  MaxPieces = 5
  Bytes = {"a", "m"}
  Middle = {"m"}
  Chunks <- MCChunks
  Capacity = 2
  MaxOutput = 5
  MaxLine = 4
  PerPage = 2
  MaxPages = 3
  AtStart = 3
  MaxEdits = 3
  Discussion = {d1}
  Dirs = {dir1, dir2, dir3}
  Verify = TRUE
  MaxFindings = 3
  MaxAttempts = 2
INVARIANTS
  PartsTypeOK
  KeysAsPressed
  OpenedStays
  SummaryIsOfThisRun
  LinesAreReadable
  KeepsTheEnd
  NoFragment
  AnchoredIsShown
  
  FilesAreComplete
  ComparedWithAll
  PayloadIsEvidence
  SessionsCleanUp
  EvidenceUntampered
PROPERTIES
  SelectionStays
  ReadingStays
  StopIsHeard
  StopEnds
\* Every part may come to its end.
CHECK_DEADLOCK FALSE
