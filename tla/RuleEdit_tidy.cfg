SPECIFICATION Spec
CONSTANTS
  Pkgs = {a, b}
  Threads = {t}
  NoName = NoName
  Braced = Braced
  Length = 3
  Entered = 4
  Cpus <- MCCpus
  NewSpecs <- MCSpecs
  Files <- MCFiles
  AnyFiles <- MCAnyFiles
  MaxEdits = 2
SYMMETRY Symmetry
CHECK_DEADLOCK FALSE
INVARIANT TypeOK
PROPERTIES EditsKeepPromises StaysTidy OthersKept
