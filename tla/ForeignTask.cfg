SPECIFICATION Spec
CONSTANTS
  NodesPerAsdu = 2
  Wired <- MCWired
  Measured <- MCMeasured
  Readings = {0, 50}
  Links = {1, 2}
  Commands <- MCCommands
  Polled = FALSE
  Garbage = {0, 19}
  StartSignals <- MCSignals
  Changing = {4}
  AppMb = 3
  MaxCommands = 2
  MaxMoves = 2
  MaxAsked = 1
PROPERTIES
  AskerIsAnswered
CHECK_DEADLOCK FALSE
