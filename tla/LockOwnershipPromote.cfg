SPECIFICATION FairSpec
CONSTANTS
  Threads = {t1, t2}
  None = None
PROPERTY Promoted
CHECK_DEADLOCK FALSE
