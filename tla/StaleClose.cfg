\* The connection that the close of an unanswered open takes down.
SPECIFICATION Spec
CONSTANTS
  SocketId = {1, 6}
  NumInst = 2
  NumSock = 2
  IdSpace = 4
  MaxConn = 1
  LinkFaults = {}
  MaxApp = 1
  Offers <- RfcommOffers
  EarlyClose = TRUE
  QueueBound = 2
PROPERTY CloseIsOwned
CHECK_DEADLOCK FALSE
