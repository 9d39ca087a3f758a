SPECIFICATION FairSpec
CONSTANTS
  dev = dev
  pts = pts
  proc = proc
  root = root
  boot = boot
  virtual = virtual
  loop0 = loop0
  loop1 = loop1
  Targets <- MCTargets
  Devs <- MCDevs
  Above <- MCAbove
  ChrootTab <- MCChrootTab
  MTab <- MCMTab
  Holders = {h1, h2}
  MaxRuns = 2
  NoMount = NoMount
INVARIANTS TypeOK NothingForgotten ChrootReady FailedInitUndone ChildrenFirst
PROPERTY LoopsEnd
CHECK_DEADLOCK FALSE
