SPECIFICATION Spec
CONSTANTS
  a1 = a1  a2 = a2  b1 = b1  b2 = b2
  Endpoint <- MCEndpoint
  Threads = {t0}
  Masks <- MCMasks
  NoEndpoint = NoEndpoint
  Queued = Queued
  Gone = Gone
  Isolated = {2}
  MAX_QUEUE = 1
  MAX_TRANSFER = 2
  MAX_PROCESSES = 2
  MAX_WAITS = 1
SYMMETRY Symmetry
INVARIANTS
  OnePlace
  PairedEnds
  NoLostWakeup
PROPERTIES
  RightsOnlyShrink
  ConnectivityFromConnectivity
CHECK_DEADLOCK FALSE
