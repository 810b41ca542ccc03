SPECIFICATION Spec
CONSTANTS
  c1 = c1
  c2 = c2
  pa = pa
  pb = pb
  Clients <- MCOneClient
  Pkgs <- MCPkgs
  MaxValue = 1
  Ops <- MCRuleOps
  MaxRequests = 2
  Failures = FALSE
  MaxHandEdits = 2
  Shapes <- MCGarbled
CHECK_DEADLOCK FALSE
PROPERTY EditKeepsOthers
