SPECIFICATION Spec
CONSTANTS
  Junk = Junk
  ARRAYLIST_INITIAL_CAPACITY = 1
  Doublings = {2, 4, 8}
  Socks = {"s1"}
  HwSocks = {"h1"}
  BadSock = "bad"
  CFG_LINK_MAX = 2
  CFG_APP_MAX = 1
  SysMb = 12
  NumObjs = 4
  MaxFaults = 1
INVARIANTS
  TypeOK
  ServedIsBound
  SlotsAreLive
  ListedAreLive
PROPERTIES
  FreedOnlyAtItsEnd
  EndedIsDeleted
  ImplementsLinkLife
CHECK_DEADLOCK FALSE
