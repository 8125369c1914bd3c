SPECIFICATION FifoSpec
CONSTANTS
  B = 3
  MaxPush = 7
  MaxSize = 10
  Junk = Junk
INVARIANTS
  HoldsStream
