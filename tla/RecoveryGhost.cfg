SPECIFICATION Spec
CONSTANTS
  Threads = {t1}
  Ghosts = {g1}
  NoThread = NoThread
  MaxDepth = 1
  MaxConn = 1
INVARIANT LocalAtCleanup
CHECK_DEADLOCK FALSE
