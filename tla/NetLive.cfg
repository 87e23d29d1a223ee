SPECIFICATION FairSpec
CONSTANTS
  K = 1
  W = 2
  Limit <- MCLimit
  SeqMod = 8
  DelayMod = 3
  NetMb = 2
  AppMb = 1
  CallNodes = 1
  MaxUpdates = 0
  MaxI = 1
  MaxU = 1
  Sendable = {"call"}
  MayLeave = FALSE
PROPERTIES
  ReceivedIsAcknowledged
  ExpiryCloses
  CloseRequestCloses
CHECK_DEADLOCK FALSE
