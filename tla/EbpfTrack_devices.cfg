SPECIFICATION FairSpec
CONSTANTS
  Workers <- MCWorkers
  ThreadName <- MCNames
  MaxEvents = 3
  Worlds <- MCWorlds
INVARIANTS TypeOK CachedMarked MarksHaveOwners
PROPERTIES ThreadsFollow DeadForgotten
