SPECIFICATION Spec
INVARIANT WriteKept
CHECK_DEADLOCK FALSE
CONSTANTS
  Thread = {t1, t2}
  MaxWrite = 2
  MaxPush = 2
