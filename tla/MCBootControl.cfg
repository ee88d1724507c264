SPECIFICATION FairSpec
CONSTANTS
  factory = factory  good = good  bad = bad  old = old
  Images = {factory, good, bad, old}
  Healthy = {factory, good, old}
  Factory = factory
  RollbackIndex <- MCRollbackIndex
  MAX_BOOT_ATTEMPTS = 3
  GENERATION_MAX = 14
  None = None
  Absent = Absent
  Torn = Torn
INVARIANTS
  ContextCurrent
  ConfirmedIsGood
PROPERTIES
  StaysReadable
  RollbackIndexNeverDrops
  UpdateCannotLoop
  ImplementsPolicy
  TrialsEnd
CHECK_DEADLOCK FALSE
