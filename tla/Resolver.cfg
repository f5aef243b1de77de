SPECIFICATION MCSpec
CONSTANTS
  c1 = c1
  c2 = c2
  www = www
  ftp = ftp
  zone = zone
  n1 = n1
  n2 = n2
  EmptyName = EmptyName
  NoName = NoName
  root_server = root
  Name <- MCNames
  Trim <- MCTrim
  Octets <- MCOctets
  address = address
  another = another
  InAddr = {address, another}
  NoAddress = NoAddress
  Misread <- MCMisread
  Ns = {n1, n2}
  Says <- MCSays
  Client = {c1, c2}
  Requests <- MCRequests
  Impatient = {c1}
  Limit = 2
  MaxIdle = 0
  Silent = {root}
  Sent <- MCSent
INVARIANTS TypeOK SlotsCounted AnswerIsOwn QueriesBounded DecodedAsSent ReferralFound
PROPERTIES LookupAnswered ShutdownEnds
CHECK_DEADLOCK FALSE
