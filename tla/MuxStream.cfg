SPECIFICATION FairSpec
CONSTANTS
  G = 2
  AckThreshold = 1
  MaxPacket = 2
  Conns = 3
  MaxLoss = 1
  MaxSent = 2
INVARIANTS KarmaSafe DebtExact
PROPERTIES InOrder Delivered
CHECK_DEADLOCK FALSE
