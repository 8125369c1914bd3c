SPECIFICATION Spec
INVARIANT OwnerFresh
CHECK_DEADLOCK FALSE
CONSTANTS
  Thread = {t1, t2}
  MaxWrite = 2
  MaxPush = 3
