SPECIFICATION Spec
CONSTANTS
  Threads = {t1}
  Ghosts = {}
  NoThread = NoThread
  MaxDepth = 3
  MaxConn = 1
INVARIANT WaiterNotVulnerable
CHECK_DEADLOCK FALSE
