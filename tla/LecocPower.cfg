\* The LE CoC microapp over cycles of Bluetooth off and on.
SPECIFICATION Spec
CONSTANTS
  SocketId = {1, 2, 3}
  NumInst = 1
  NumSock = 1
  IdSpace = 4
  MaxApp = 2
  App = {"LECOC"}
  QueueBound = 4
INVARIANT NothingLeftOver
