SPECIFICATION Spec
CONSTANTS
  NodesPerAsdu = 2
  Wired <- MCWired
  Measured <- MCMeasured
  Readings = {0, 50}
  Links = {1}
  Commands <- MCCommands
  Polled = TRUE
  Garbage = {0, 19}
  StartSignals <- MCSignals
  Changing = {4}
  AppMb = 3
  MaxCommands = 2
  MaxMoves = 4
  MaxAsked = 1
INVARIANTS
  TypeOK
  CallInOrder
  HandedIsOwed
  NoFalseConfirm
PROPERTIES
  AnswerGoesFirst
CHECK_DEADLOCK FALSE
