SPECIFICATION FairSpec
CONSTANTS
  a = a
  b = b
  StartPath = a
  NoPath = NoPath
  Paths <- TwoPaths
  MaxWrites = 3
  MaxTuning = 0
  WebOps <- PathOnly
  FineClock = TRUE
  StartupEdits = FALSE
CHECK_DEADLOCK FALSE
INVARIANTS
  NothingUnnoticed
PROPERTIES
  FileTakesEffect
  HotSpec
