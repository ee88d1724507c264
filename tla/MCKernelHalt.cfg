SPECIFICATION Spec
CONSTANTS
  BOOTSTRAP_USER_THREAD_COUNT = 3
  MaxSleep = 1
  Endpoint = {a, b}
  NoEndpoint = NoEndpoint
  Masks <- FullMask
  Queued = Queued
  Gone = Gone
  MAX_QUEUE = 1
  MAX_TRANSFER = 1
  MAX_WAITS = 2
  Status = {"exited"}
  MAX_LIVE_PROCESSES = 1
  MAX_EXIT_RECORDS = 2
  LAST_PROCESS_ID = 4
PROPERTIES
  IsolatedExitNeverHalts
CHECK_DEADLOCK FALSE
