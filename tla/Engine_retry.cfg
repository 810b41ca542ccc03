SPECIFICATION FairSpec
CONSTANTS
  MaxConfigs = 1
  Big <- NoBig
  MapFaults = FALSE
PROPERTY RetryHonoured
