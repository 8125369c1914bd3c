SPECIFICATION Spec
CONSTANTS
  Threads = {t1, t2}
  None = None
INVARIANTS
  OwnershipConserved
  Exclusive
  MutexAccounted
CHECK_DEADLOCK FALSE
