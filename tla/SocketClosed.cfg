SPECIFICATION FairSpec
CONSTANTS
  K = 1
  W = 2
  Limit <- MCLimit
  SeqMod = 8
  DelayMod = 3
  NetMb = 4
  AppMb = 8
  CallNodes = 0
  MaxUpdates = 0
  MaxI = 1
  MaxU = 1
  Sendable = {"command"}
  MayLeave = FALSE
PROPERTIES
  ClosedSocketDeletesLink
CHECK_DEADLOCK FALSE
