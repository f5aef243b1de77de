SPECIFICATION FairMCSpec
CONSTANTS
  t1 = t1  t2 = t2  t3 = t3  s1 = s1  s2 = s2  empty = empty  sock1 = sock1  sock2 = sock2  sock3 = sock3
  Name <- MCNames
  EmptyName = empty
  PortNo <- MCPorts
  Incoming = {}
  Unterminated = {}
  Overread = {}
  MaxPorts = 1
  KeepAliveTime = 1
  MaxTime = 1
  Threads = {t1, t2, t3}
  Socket <- OwnSockets
  Calls <- ServerAndClient
  MaxCalls = 3
  CSharp = {t3}
  MaxLost = 1
  Char = {1, 2}
  NameLen = 3
  Ports <- WirePorts
  Heads <- WireHeads
INVARIANTS OwnAnswer LookupWasHeld ArrivesAsAsked AnswerComesBack
PROPERTIES ImplementsService CallReturns
CHECK_DEADLOCK FALSE
