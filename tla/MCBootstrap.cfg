SPECIFICATION FairSpec
CONSTANTS
  builder = builder
  Procs = {p1, p2}
  Stubborn = {}
  Faults = {"mkdir", "exception"}
  dev = dev
  pts = pts
  root = root
  virtual = virtual
  loop = loop
  Targets <- MCTargets
  Devs <- MCDevs
  Above <- MCAbove
  ChrootTab <- MCChrootTab
  MTab <- MCMTab
  MaxRuns = 2
  Modes = {"plain", "clean", "repack"}
  None = None
  NoMount = NoMount
INVARIANTS UndoneWithoutProcesses FreshCopyReachesThisBuild DetachedUnmounted
PROPERTIES KeepsPromise RunEnds
CHECK_DEADLOCK FALSE
