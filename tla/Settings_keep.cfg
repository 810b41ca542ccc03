SPECIFICATION Spec
CONSTANTS
  default = default
  other = other
  odd = odd
  notGiven = notGiven
  Paths <- MCPaths
  OddPath = odd
  DefaultPath = default
  NotGiven = notGiven
  CliIntervals <- MCInRange
  CliPaths <- MCCliPaths
  Intervals <- MCWebIntervals
  MaxRequests = 2
  Failures = TRUE
  Corruption = TRUE
  EarlyRequests = FALSE
INVARIANTS TypeOK SavedIsInForce RestartKeeps
