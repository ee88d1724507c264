SPECIFICATION Spec
CONSTANTS
  factory = factory  good = good  bad = bad  old = old
  Images = {factory, good, bad, old}
  Healthy = {factory, good, old}
  Factory = factory
  RollbackIndex <- MCRollbackIndex
  MAX_BOOT_ATTEMPTS = 3
  GENERATION_MAX = 4
  None = None
  Absent = Absent
  Torn = Torn
INVARIANTS
  AlwaysBootable
CHECK_DEADLOCK FALSE
