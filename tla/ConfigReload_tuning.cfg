SPECIFICATION FairSpec
CONSTANTS
  a = a
  b = b
  StartPath = a
  NoPath = NoPath
  Paths <- OnePath
  MaxWrites = 3
  MaxTuning = 1
  WebOps <- TuningOnly
  FineClock = TRUE
  StartupEdits = FALSE
CHECK_DEADLOCK FALSE
PROPERTY TuningTakesEffect
