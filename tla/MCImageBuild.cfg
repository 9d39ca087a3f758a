SPECIFICATION FairSpec
CONSTANTS
  disk = disk
  boot = boot
  root = root
  extra = extra
  l1 = l1
  l2 = l2
  l3 = l3
  slash = slash
  slashBoot = slashBoot
  tagRoot = tagRoot
  tagBoot = tagBoot
  None = None
  Images <- MCImages
  Order <- MCOrder
  Parent <- MCParent
  Kind <- MCKind
  Configs <- MCConfigs
  Loops = {l1, l2, l3}
  Faults = {"error", "old", "status", "busy"}
INVARIANTS ContentInPlace CopyReachesOwn BoundIsTracked
PROPERTIES OthersUntouched AllDetached
CHECK_DEADLOCK FALSE
