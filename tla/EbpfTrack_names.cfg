SPECIFICATION FairSpec
CONSTANTS
  Workers <- MCWorkers
  ThreadName <- MCNames
  MaxEvents = 3
  Worlds <- MCRenaming
PROPERTY NamesFollowed
