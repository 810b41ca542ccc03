SPECIFICATION FairSpec
CONSTANTS
  a = a
  b = b
  StartPath = a
  NoPath = NoPath
  Paths <- OnePath
  MaxWrites = 4
  MaxTuning = 0
  WebOps <- NoOps
  FineClock = FALSE
  StartupEdits = FALSE
CHECK_DEADLOCK FALSE
PROPERTY FileTakesEffect
