SPECIFICATION FairSpec
CONSTANTS
  Threads = {t1, t2}
  Ghosts = {}
  NoThread = NoThread
  MaxDepth = 1
  MaxConn = 1
PROPERTY CleanupDone
CHECK_DEADLOCK FALSE
