CONSTANTS
  c1 = c1
  c2 = c2
  NoClient = NoClient
  Client <- TwoClients
  Files = 2
  Limit = 2
  Port <- TwoPorts
  Descriptors = 9
  Commands <- OnlyGet
  MaxCommands = 1
  MaxThreads = 2
  Faults <- NoFaults
SPECIFICATION Spec
CHECK_DEADLOCK FALSE
INVARIANTS DoneMeansAll
