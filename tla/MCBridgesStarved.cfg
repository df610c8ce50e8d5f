SPECIFICATION FairSpec
CONSTANTS
  Workers = {w1, w2}
  MainThread = main
  NoThread = none
  MaxLogging = 2
  SocketCap = 1
  VsockCap = 1
PROPERTIES
  LogWriteReturns
