SPECIFICATION FairSpec
CONSTANTS
  t1 = t1  t2 = t2  f1 = f1  f2 = f2
  Threads = {t1, t2}
  Fds = {f1, f2}
  Content <- MCContent
  Byte = {"a", "b", "c", "d", "e", "n"}
  NoFd = NoFd
  Newline = "n"
  Owner <- OneEach
  BlockSize = 2
  Sizes = {2, 3}
  MaxFaults = 1
INVARIANTS TypeOK NoByteLost LineShape
PROPERTIES CallReturns
CHECK_DEADLOCK FALSE
