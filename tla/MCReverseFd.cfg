SPECIFICATION FairSpec
CONSTANTS
  Threads = {t1, t2}
  Pseudos = {p1}
  None = None
  Failures <- AllFailures
  MaxQueue = 2
INVARIANTS
  ProtocolInStep
  LockNotLost
PROPERTIES
  ImplementsRpc
  
CHECK_DEADLOCK FALSE
