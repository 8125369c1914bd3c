SPECIFICATION Spec
CONSTANTS
  Threads = {t1, t2, t3}
  None = None
  MaxSent = 2
SYMMETRY ThreadSymmetry
INVARIANTS
  WaitSetExact
  InterruptWakes
  WaitersCounted
CHECK_DEADLOCK FALSE
