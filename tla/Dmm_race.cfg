\* Both goroutines work on one container around a reload; nothing fails.
SPECIFICATION FairSpec
CONSTANTS
  c1 = c1
  d1 = d1
  d2 = d2
  Containers = {c1}
  Devices = {d1, d2}
  Mounts <- MCMounts
  Bases = {"runc"}
  None = None
  MaxReloads = 1
  MaxFaults = 0
PROPERTY
  ReplacingIsAtomicEnough
CHECK_DEADLOCK FALSE
