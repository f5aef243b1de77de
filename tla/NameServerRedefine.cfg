SPECIFICATION Spec
CONSTANTS
  n1 = n1  n2 = n2  long = long  junk = junk  empty = empty
  Name <- MCNames
  EmptyName = empty
  PortNo <- MCPorts
  Incoming <- Crowd
  Unterminated = {long}
  Overread = {long, junk}
  MaxPorts = 2
  KeepAliveTime = 1
  MaxTime = 3
INVARIANTS DefinedPortIsServed
CHECK_DEADLOCK FALSE
