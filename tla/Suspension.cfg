SPECIFICATION FairSpec
CONSTANTS
  Threads = {t1, t2, t3}
  None = None
  MaxStops = 2
INVARIANTS WorldStopped NoLostWakeup
PROPERTIES Resumed GetsStopped
CHECK_DEADLOCK FALSE
