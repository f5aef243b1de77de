CONSTANTS
  c1 = c1
  c2 = c2
  NoClient = NoClient
  Client <- TwoClients
  Files = 2
  Limit = 1
  Port <- TwoPorts
  Descriptors = 6
  Commands <- Everything
  MaxCommands = 3
  MaxThreads = 2
  Faults <- NoFaults
SPECIFICATION Spec
CHECK_DEADLOCK FALSE
INVARIANTS DescriptorsOwned DoneMeansAll HandlersWithinLimit ConnectionKept PlacesCounted
PROPERTY DeliversWhole
