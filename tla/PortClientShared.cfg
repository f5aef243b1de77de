SPECIFICATION MCSpec
CONSTANTS
  t1 = t1  t2 = t2  t3 = t3  s1 = s1  s2 = s2  empty = empty  sock1 = sock1  sock2 = sock2  sock3 = sock3
  Name <- MCNames
  EmptyName = empty
  PortNo <- MCPorts
  Incoming = {}
  Unterminated = {}
  Overread = {}
  MaxPorts = 1
  KeepAliveTime = 1
  MaxTime = 2
  Threads = {t1, t2}
  Socket <- OneSocket
  Calls <- TwoServices
  MaxCalls = 3
  CSharp = {}
  MaxLost = 0
  Char = {1, 2}
  NameLen = 3
  Ports <- WirePorts
  Heads <- WireHeads
INVARIANTS LookupAnswersTheName
CHECK_DEADLOCK FALSE
