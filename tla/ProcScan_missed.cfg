SPECIFICATION FairSpec
CONSTANTS
  MaxPid = 2
  MaxThread = 1
  app = app
  other = other
  Pkgs <- MCPkgs
  Other = other
  Worlds <- MCChurning
PROPERTY LaunchNoticed
