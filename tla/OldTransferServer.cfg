SPECIFICATION MCSpec
CONSTANTS
  c1 = c1  c2 = c2  c3 = c3
  Client = {c1, c2, c3}
  File = {"f", "g"}
  Missing = {"g"}
  Port = {1, 2}
  Other <- MCOther
  Slow = {c1}
INVARIANTS TypeOK AnnouncedOnce NoneLeftOut
PROPERTIES ServerMovesOn
CHECK_DEADLOCK FALSE
