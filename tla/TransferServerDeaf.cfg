CONSTANTS
  c1 = c1
  c2 = c2
  NoClient = NoClient
  Client <- OneClient
  Files = 1
  Limit = 2
  Port <- OnePort
  Descriptors = 8
  Commands <- OnlyGet
  MaxCommands = 2
  MaxThreads = 2
  Faults <- NoFaults
SPECIFICATION Spec
CHECK_DEADLOCK FALSE
INVARIANTS NoMutualWait
