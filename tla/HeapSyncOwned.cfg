SPECIFICATION Spec
INVARIANT GrabOwns
CHECK_DEADLOCK FALSE
CONSTANTS
  Thread = {t1, t2}
  MaxWrite = 1
  MaxPush = 2
