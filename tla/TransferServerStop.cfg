CONSTANTS
  c1 = c1
  c2 = c2
  NoClient = NoClient
  Client <- OneClient
  Files = 2
  Limit = 2
  Port <- OnePort
  Descriptors = 8
  Commands <- Everything
  MaxCommands = 2
  MaxThreads = 2
  Faults <- FaultKinds
SPECIFICATION FairSpec
CHECK_DEADLOCK FALSE
PROPERTIES ShutdownEnds HandlerReturns
