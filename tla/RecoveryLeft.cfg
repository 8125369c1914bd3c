SPECIFICATION Spec
CONSTANTS
  Threads = {t1, t2}
  Ghosts = {g1}
  NoThread = NoThread
  MaxDepth = 3
  MaxConn = 2
INVARIANTS NothingLeft
CHECK_DEADLOCK FALSE
