SPECIFICATION Spec
CONSTANTS
  Threads = {t1, t2, t3}
  MAX_SIZE_BUFFERS = 3
  SIZE_T = 16
  Senders = {1}
  SendLens = {0, 1, 2}
  SendFds = {0, 1}
  RecvLens <- MCRecvLens
  RecvFlags <- Waitall
  MaxMessages = 2
INVARIANTS
  QueueConsistent
  
  EofReachesReceivers
PROPERTIES
  EofIsFinal
SYMMETRY ThreadSymmetry
CHECK_DEADLOCK FALSE
