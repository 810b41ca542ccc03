SPECIFICATION FairSpec
CONSTANTS
  MaxConfigs = 3
  Big <- SecondBig
  MapFaults = FALSE
INVARIANTS
  TypeOK
  InStep
PROPERTIES
  ProcForced
  ForcedKeepsTrying
