SPECIFICATION Spec
CONSTANTS
  SerialMb = 2
  AppMb = 2
  CallNodes = 1
  MaxUpdates = 1
  MaxRequests = 4
  MaxRepeats = 1
  MaxLosses = 1
  MaxEarly = 1
  Commands = {"call", "command"}
PROPERTIES
  RepeatedIsAnswered
CHECK_DEADLOCK FALSE
