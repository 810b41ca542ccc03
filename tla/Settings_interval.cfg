SPECIFICATION Spec
CONSTANTS
  default = default
  other = other
  odd = odd
  notGiven = notGiven
  Paths <- MCPaths
  OddPath = odd
  DefaultPath = default
  NotGiven = notGiven
  CliIntervals <- MCTooLong
  CliPaths <- MCNoPaths
  Intervals <- MCWebIntervals
  MaxRequests = 1
  Failures = FALSE
  Corruption = FALSE
  EarlyRequests = FALSE
INVARIANT RestartKeeps
