SPECIFICATION Spec
CONSTANTS
  K = 1
  W = 2
  Limit <- MCLimit
  SeqMod = 8
  DelayMod = 3
  NetMb = 2
  AppMb = 1
  CallNodes = 0
  MaxUpdates = 0
  MaxI = 3
  MaxU = 1
  Sendable = {"rejected"}
  MayLeave = FALSE
INVARIANTS
  ReceiveBacklogTimed
  BacklogCounted
  DeliveredAsCounted
CHECK_DEADLOCK FALSE
