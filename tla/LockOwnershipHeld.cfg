SPECIFICATION Spec
CONSTANTS
  Threads = {t1, t2}
  None = None
INVARIANT HeldIsOwned
CHECK_DEADLOCK FALSE
