SPECIFICATION Spec
CONSTANTS
  K = 2
  W = 2
  Limit <- MCLimit
  SeqMod = 8
  DelayMod = 3
  NetMb = 4
  AppMb = 8
  CallNodes = 0
  MaxUpdates = 0
  MaxI = 2
  MaxU = 2
  Sendable = {"command"}
  MayLeave = FALSE
INVARIANTS
  UnconfirmedIsTimed
CHECK_DEADLOCK FALSE
