SPECIFICATION Spec
CONSTANTS
  default = default
  other = other
  odd = odd
  notGiven = notGiven
  Paths <- MCPaths
  OddPath = odd
  DefaultPath = default
  NotGiven = notGiven
  CliIntervals <- MCInRange
  CliPaths <- MCCliPaths
  Intervals <- MCWebIntervals
  MaxRequests = 1
  Failures = TRUE
  Corruption = FALSE
  EarlyRequests = FALSE
PROPERTY WebStaysEnabled
