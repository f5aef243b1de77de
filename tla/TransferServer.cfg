CONSTANTS
  c1 = c1
  c2 = c2
  NoClient = NoClient
  Client <- TwoClients
  Files = 2
  Limit = 2
  Port <- OnePort
  Descriptors = 11
  Commands <- GetOrStop
  MaxCommands = 1
  MaxThreads = 2
  Faults <- Late
SPECIFICATION Spec
CHECK_DEADLOCK FALSE
SYMMETRY ClientSymmetry
INVARIANTS TypeOK OwnFileOnly DescriptorsApart
PROPERTY DeliversInOrder
