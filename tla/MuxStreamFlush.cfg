SPECIFICATION Spec
CONSTANTS
  G = 2
  AckThreshold = 1
  MaxPacket = 2
  Conns = 3
  MaxLoss = 1
  MaxSent = 4
INVARIANT FlushedAll
CHECK_DEADLOCK FALSE
