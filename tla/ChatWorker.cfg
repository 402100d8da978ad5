SPECIFICATION FairSpec
CONSTANTS
  a = a
  b = b
  c = c
  NoConn = NoConn
  Stdin = Stdin
  Part = Part
  Conn <- TwoConns
  Fd <- Descriptors
  Number <- TextOrSix
  listen_sock = 3
  MAX_EVENTS = 2
  MaxLines = 2
INVARIANTS TypeOK MapsNameClients NoLostEdge PartnerIsTalking
PROPERTIES RelaySpec LinesAreRead HangUpsAreReclaimed
CHECK_DEADLOCK FALSE
