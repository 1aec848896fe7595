SPECIFICATION MCSpec
CONSTANTS
  NPages = 3
  FirstFree = 0
  FilePages = 2
  Slots = 2
  MaxRefs = 2
  MapLengths = {2}
  MaxCalls = 3
  Keeps <- MCKeeps
  Masks <- MCMasks
  Protections <- MCProtections
  MapProtections <- MCMapProtections
INVARIANTS
  RefsCounted
  ExitedCleanly
  
  
PROPERTIES
  RightsOnlyShrink
  ExitCompletes
CHECK_DEADLOCK FALSE
