SPECIFICATION MCSpec
CONSTANTS
  None = None
  Queued = Queued
  Gone = Gone
  Isolated = {2}
  Threads = {t0}
  Masks <- FullMask
  OBJECT_GEN_MAX = 2
  HANDLE_GEN_MAX = 3
  OBJECT_CAPACITY = 8
  HANDLE_CAPACITY = 3
  CHANNEL_CAPACITY = 2
  MAX_QUEUE = 1
  MAX_TRANSFER = 1
  MAX_PROCESSES = 2
  MAX_WAITS = 1
INVARIANTS
  RefsExact
  CollectionSucceeds
PROPERTIES
  ImplementsChannels
  StaleHandlesStayStale
CHECK_DEADLOCK FALSE
CONSTRAINT FewVacated
