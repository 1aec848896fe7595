SPECIFICATION MCSpec
CONSTANTS
  MaxNodes = 8
  MaxSize = 3
  PathCalls <- MCCalls
  Targets <- MCTargets
  Rights <- MCRights
  SharedRoot = FALSE
  MaxSymlinks = 3
  MaxCalls = 2
  FirstBlock = 1
  Groups = 2
  BlocksPerGroup = 4
  InodesPerGroup = 3
  FirstInode = 3
  Direct = 2
  PointersPerBlock = 2
  BlockSize = 2
  DirSize = 10
  NameSize <- MCNameSize
  MaxRequests = 3
  OthersTake <- MCOthersTake
INVARIANTS
  DirectoriesConsistent NoPseudoFdLost  AppendsKept
  BlocksAccounted DirectoriesTrue 
CHECK_DEADLOCK FALSE
