SPECIFICATION Spec
CONSTANTS
  K = 2
  W = 2
  Limit <- MCLimit
  SeqMod = 8
  DelayMod = 3
  NetMb = 4
  AppMb = 8
  CallNodes = 0
  MaxUpdates = 0
  MaxI = 2
  MaxU = 1
  Sendable = {"rejected", "command"}
  MayLeave = FALSE
INVARIANTS
  DataFramesCounted
CHECK_DEADLOCK FALSE
