SPECIFICATION FairSpec
CONSTANTS
  Threads <- MCThreads
  NWaiters <- MCNWaiters
INVARIANTS
  IInv
  LockWordTrue
PROPERTIES
  NoBarging
  ImplementsRWLock
  WritersServed
  SignalledServed
CHECK_DEADLOCK FALSE
