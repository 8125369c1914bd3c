SPECIFICATION FairClientSpec
INVARIANTS KarmaConserved
PROPERTY Forgotten
CHECK_DEADLOCK FALSE
CONSTANTS
  K = 2
  AckThreshold = 2
  VPacketSize = 2
  Uses = 1
