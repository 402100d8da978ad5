SPECIFICATION Spec
CONSTANTS
  a = a
  b = b
  c = c
  NoConn = NoConn
  Stdin = Stdin
  Part = Part
  Conn <- ThreeConns
  Fd <- Descriptors
  Number <- Numbers
  listen_sock = 3
  MAX_EVENTS = 4
  MaxLines = 1
PROPERTIES AcceptedUnpaired
CHECK_DEADLOCK FALSE
