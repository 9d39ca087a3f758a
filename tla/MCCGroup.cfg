SPECIFICATION FairSpec
CONSTANTS
  Sessions = {s1}
  Procs = {p1, p2, p3, p4}
  Stubborn = {}
  KillTime = 8
  Timeout = 10
  Faults = {"mkdir", "exception"}
  None = None
INVARIANTS TypeOK TrackedAreGone WaitedIsTracked
PROPERTY KillAllReturns
CHECK_DEADLOCK FALSE
