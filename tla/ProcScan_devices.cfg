SPECIFICATION FairSpec
CONSTANTS
  MaxPid = 3
  MaxThread = 2
  app = app
  other = other
  Pkgs <- MCPkgs
  Other = other
  Worlds <- MCWorlds
INVARIANTS TypeOK NoneForgotten
PROPERTIES Discovered GoneForgotten KeptInPlace
