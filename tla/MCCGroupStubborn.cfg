SPECIFICATION FairSpec
CONSTANTS
  Sessions = {s1}
  Procs = {p1, p2, p3}
  Stubborn = {p3}
  KillTime = 8
  Timeout = 10
  Faults = {}
  None = None
PROPERTY KillAllEnds
CHECK_DEADLOCK FALSE
