SPECIFICATION ClientSpec
INVARIANT DeadDisconnected
CHECK_DEADLOCK FALSE
CONSTANTS
  K = 1
  AckThreshold = 1
  VPacketSize = 1
  Uses = 1
