SPECIFICATION Spec
CONSTANTS
  t0 = t0
  t1 = t1
  Threads <- MCThreads
  NoThread = NoThread
  Status = {"exited", "faulted"}
  MAX_LIVE_PROCESSES = 2
  MAX_EXIT_RECORDS = 4
  LAST_PROCESS_ID = 9
INVARIANT EveryIdAccountedFor
CHECK_DEADLOCK FALSE
