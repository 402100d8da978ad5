SPECIFICATION FairSpec
CONSTANTS
  a = a
  b = b
  c = c
  d = d
  number = 3
  Conn <- FourConns
  MaxOpen = 2
  MaxKilled = 1
INVARIANTS WokenHaveWork
PROPERTIES RaceSparesTheLast ReserveReplacesOne EveryoneAccepted
CHECK_DEADLOCK FALSE
