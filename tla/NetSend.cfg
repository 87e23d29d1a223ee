SPECIFICATION Spec
CONSTANTS
  K = 2
  W = 1
  Limit <- MCLimit
  SeqMod = 8
  DelayMod = 3
  NetMb = 2
  AppMb = 1
  CallNodes = 0
  MaxUpdates = 1
  MaxI = 1
  MaxU = 2
  Sendable = {"call"}
  MayLeave = FALSE
INVARIANTS
  TypeOK
  SendWindow
  ConfirmedWasReceived
PROPERTIES
  ImplementsApci
CHECK_DEADLOCK FALSE
