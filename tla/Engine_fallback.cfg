SPECIFICATION FairSpec
CONSTANTS
  MaxConfigs = 2
  Big <- SecondBig
  MapFaults = FALSE
PROPERTY SettlesInStep
