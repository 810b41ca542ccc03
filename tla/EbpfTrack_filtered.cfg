SPECIFICATION Spec
CONSTANTS
  Workers <- MCWorkers
  ThreadName <- MCNames
  MaxEvents = 3
  Worlds <- MCHurried
INVARIANT RenamePasses
