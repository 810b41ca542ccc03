SPECIFICATION Spec
CONSTANTS
  a = a
  b = b
  StartPath = a
  NoPath = NoPath
  Paths <- OnePath
  MaxWrites = 4
  MaxTuning = 1
  WebOps <- EditAndTuning
  FineClock = TRUE
  StartupEdits = FALSE
CHECK_DEADLOCK FALSE
INVARIANTS
  TypeOK
  NoMissedUpdate
  MtimeSound
  NothingUnnoticed
