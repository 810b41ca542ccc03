SPECIFICATION Spec
CONSTANTS
  WordBits = 2
  CpuWords = 2
  Junk <- MCJunk
  Comms <- MCComms
  Main = "main"
  Gone = "gone"
  Unnamed = ""
  Patterns <- MCPatterns
  NoPattern = "none"
  Topo <- MCTopo
  SystemCpus <- MCSystemCpus
  Bases = {"AppOpt", "Other"}
  No = No
  MaxClamp = 2
  Groups = {"g", "h"}
  MaxEvents = 2
  Worlds <- MCReniced
PROPERTY OwnNiceKept
