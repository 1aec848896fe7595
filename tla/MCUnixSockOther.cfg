SPECIFICATION Spec
CONSTANTS
  Threads = {t1, t2}
  MAX_SIZE_BUFFERS = 3
  SIZE_T = 16
  Senders = {1, 2}
  SendLens = {0, 1, 2}
  SendFds = {0, 1}
  RecvLens <- MCRecvLens
  RecvFlags <- NoFlags
  MaxMessages = 3
INVARIANT OthersockAssertHolds
CHECK_DEADLOCK FALSE
