SPECIFICATION Spec
CONSTANTS
  Threads = {t1, t2}
  None = None
PROPERTY GrantsWhatItOwns
CHECK_DEADLOCK FALSE
