SPECIFICATION FairSpec
CONSTANTS
  i1 = i1
  a = a
  b = b
  P1 = P1
  P2 = P2
  None = None
  FirstThread = i1
  Threads <- MCThreads
  Processes = {P1, P2}
  Signalers = {s}
  process <- MCProcess
INVARIANTS
  SchedulerConsistent
PROPERTIES
  ReadyRuns
  WokenReturns
