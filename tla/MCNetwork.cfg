SPECIFICATION MCSpec
CONSTANTS
  AddrBits = 3
  Sockets = {"out", "loop"}
  Asked <- MCAsked
  Loopback <- MCLoopback
  MacOf <- MCMacOf
  Leases <- MCLeases
  Gateways = {2}
  MAX_UDP_PACKETS = 1
  MaxDatagrams = 2
  MaxCommands = 1
  MaxTrouble = 1
  Hosts = {"C", "S"}
  Connectors = {"C"}
  Listeners = {"S"}
  ISN <- MCISN
  SeqSpace = 1000
  MaxData <- MCData
  MaxGot = 3
  MaxMishaps = 1
  Callers = {"t1", "t2", "t3"}
  Commands <- MCCommands
  Disk <- MCDisk
  MaxPrefix = 2
  MaxNumber = 1
  QueueSize = 2
  Buffers = 2
  IdxSpace = 4
  MaxCalls = 6
  MaxFrames = 4
INVARIANTS  NothingStranded LeaseConsistent  NothingForgotten
PROPERTIES  EstablishReturns InterfaceConfigured
CHECK_DEADLOCK FALSE
