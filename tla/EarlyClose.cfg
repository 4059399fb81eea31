\* A HAL that may close a socket whose open is not yet answered, more sockets
\* than instances, and endpoints no microapp registered.
SPECIFICATION Spec
CONSTANTS
  SocketId = {1, 2}
  NumInst = 1
  NumSock = 2
  IdSpace = 4
  MaxConn = 1
  LinkFaults = {}
  MaxApp = 1
  Offers <- PoolOffers
  EarlyClose = TRUE
  QueueBound = 2
INVARIANTS OneHolder SlotsCounted
CHECK_DEADLOCK FALSE
