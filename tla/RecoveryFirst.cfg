SPECIFICATION Spec
CONSTANTS
  Threads = {t1, t2}
  Ghosts = {}
  NoThread = NoThread
  MaxDepth = 1
  MaxConn = 2
INVARIANT OnlyThenConnects
CHECK_DEADLOCK FALSE
