SPECIFICATION Spec
CONSTANTS
  builder = builder
  Procs = {p1}
  Stubborn = {}
  Faults = {}
  dev = dev
  pts = pts
  root = root
  virtual = virtual
  loop = loop
  Targets <- MCTargets
  Devs <- MCDevs
  Above <- MCAbove
  ChrootTab <- MCChrootTab
  MTab <- MCMTab
  MaxRuns = 2
  Modes = {"plain", "repack"}
  None = None
  NoMount = NoMount
INVARIANT CopyReachesThisBuild
CHECK_DEADLOCK FALSE
