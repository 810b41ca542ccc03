SPECIFICATION Spec
CONSTANTS
  c1 = c1
  c2 = c2
  pa = pa
  pb = pb
  Clients <- MCClients
  Pkgs <- MCPkgs
  MaxValue = 1
  Ops <- MCEveryOp
  MaxRequests = 3
  Failures = TRUE
  MaxHandEdits = 1
  Shapes <- MCUnclosed
SYMMETRY MCSymmetry
CHECK_DEADLOCK FALSE
INVARIANTS TypeOK AllOrNothing CloneFaithful TuningDurable
PROPERTY CloneOnlyAdds
