SPECIFICATION FairSpec
CONSTANTS
  a = a
  b = b
  PhoneIds = {a}
  ServerIds = {b}
  PhoneRefs <- MCPhoneRefs
  ServerRefs <- MCServerRefs
  JunkIds = {a}
  MaxStarts = 1
  MaxSerial = 3
PROPERTY LossEndsTrim
CHECK_DEADLOCK FALSE
