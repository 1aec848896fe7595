SPECIFICATION Spec
CONSTANTS
  Threads <- MCThreads
  NWaiters <- MCNWaiters
INVARIANT
  CondvarAssertHolds
CHECK_DEADLOCK FALSE
