SPECIFICATION FairSpec
CONSTANTS
  a = a
  b = b
  c = c
  NoClient = NoClient
  Conn <- ThreeConns
  Limit = 5
  PipeSize = 1
  SendSize = 1
  MaxBody = 2
  MaxOutput = 2
INVARIANTS NothingHeldBetween BodyAsSent ReplyComplete KilledForAReason
PROPERTIES ComesBack
CHECK_DEADLOCK FALSE
