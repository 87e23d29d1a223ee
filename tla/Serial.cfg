SPECIFICATION Spec
CONSTANTS
  SerialMb = 2
  AppMb = 2
  CallNodes = 1
  MaxUpdates = 1
  MaxRequests = 4
  MaxRepeats = 1
  MaxLosses = 1
  MaxEarly = 1
  Commands = {"call", "command"}
INVARIANTS
  TypeOK
  CommandsOnce
  NewIsAccepted
  CarriedOutAsHanded
  TransferWasCalled
  ClassOneAnnounced
CHECK_DEADLOCK FALSE
