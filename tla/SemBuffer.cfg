SPECIFICATION FairSpec
CONSTANTS
  Items = 7
  Slots = 2
INVARIANTS PlacesAddUp
PROPERTIES FifoLive Termination
CHECK_DEADLOCK FALSE
