SPECIFICATION FairSpec
CONSTANTS
  BOOTSTRAP_USER_THREAD_COUNT = 4
  Isolated = {2}
  MaxSleep = 1
INVARIANTS
  JoinSymmetry
PROPERTIES
  NoOvertaking
  EventuallyServed
  SleepersWake
CHECK_DEADLOCK FALSE
