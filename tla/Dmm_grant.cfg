\* One container with two devices, one reload, one failure or kill of the manager.
SPECIFICATION FairSpec
CONSTANTS
  c1 = c1
  d1 = d1
  d2 = d2
  Containers = {c1}
  Devices = {d1, d2}
  Mounts <- MCMounts
  Bases = {"runc"}
  None = None
  MaxReloads = 1
  MaxFaults = 1
INVARIANTS
  TypeOK
  NoProgramIsLost
  
PROPERTY
  MountsAreGranted
CHECK_DEADLOCK FALSE
