SPECIFICATION FairSpec
CONSTANTS
  a = a
  b = b
  PhoneIds = {a}
  ServerIds = {b}
  PhoneRefs <- MCPhoneRefs
  ServerRefs <- MCServerRefs
  JunkIds = {a}
  MaxStarts = 1
  MaxSerial = 3
INVARIANTS
  InStep
  QueueTracked
  SameObjects
PROPERTIES
  ExactTrim
  TrimEnds
CHECK_DEADLOCK FALSE
