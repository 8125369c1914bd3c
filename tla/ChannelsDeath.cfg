SPECIFICATION Spec
INVARIANT DeathTold
CHECK_DEADLOCK FALSE
CONSTANTS
  Threads = {t1}
  Ghosts = {g1}
  NoPacket = NoPacket
  MaxPacket = 2
  MaxOut = 2
  MaxIn = 2
  MaxConn = 2
