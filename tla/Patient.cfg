\* A HAL that waits for the answer to an open before it closes, and an RFCOMM
\* microapp that may refuse.
SPECIFICATION FairSpec
CONSTANTS
  SocketId = {1, 6}
  NumInst = 2
  NumSock = 2
  IdSpace = 4
  MaxConn = 1
  LinkFaults = {"RFCOMM"}
  MaxApp = 1
  Offers <- RfcommAppOffers
  EarlyClose = FALSE
  QueueBound = 2
INVARIANTS PseudoIdLookup NoOrphanInstance QuiescentAgreement
PROPERTIES CloseIsOwned ServiceSpec
