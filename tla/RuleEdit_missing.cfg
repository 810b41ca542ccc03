SPECIFICATION Spec
CONSTANTS
  Pkgs = {a, b}
  Threads = {t}
  NoName = NoName
  Braced = Braced
  Length = 3
  Entered = 4
  Cpus <- MCCpus
  NewSpecs <- MCSpecs
  Files = {}
  AnyFiles <- CleanFiles
  MaxEdits = 1
SYMMETRY Symmetry
CHECK_DEADLOCK FALSE
PROPERTY MissingIsTrue
