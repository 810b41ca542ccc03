SPECIFICATION Spec
CONSTANTS
  c1 = c1
  c2 = c2
  pa = pa
  pb = pb
  Clients <- MCOneClient
  Pkgs <- MCPkgs
  MaxValue = 1
  Ops <- MCRuleOps
  MaxRequests = 4
  Failures = FALSE
  MaxHandEdits = 0
  Shapes <- MCFine
CHECK_DEADLOCK FALSE
INVARIANT ConflictMeansRules
