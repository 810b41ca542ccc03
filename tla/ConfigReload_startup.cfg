SPECIFICATION FairSpec
CONSTANTS
  a = a
  b = b
  StartPath = a
  NoPath = NoPath
  Paths <- OnePath
  MaxWrites = 3
  MaxTuning = 0
  WebOps <- NoOps
  FineClock = TRUE
  StartupEdits = TRUE
CHECK_DEADLOCK FALSE
PROPERTY FileTakesEffect
