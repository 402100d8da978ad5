SPECIFICATION FairSpec
CONSTANTS
  MAX = 10
  MaxSpurious = 3
INVARIANTS PrintsTheItem
PROPERTIES FifoLive Termination
CHECK_DEADLOCK FALSE
