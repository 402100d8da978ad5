SPECIFICATION FairSpec
CONSTANTS
  prog = prog
  other = other
  Conn <- Connections
  Program = prog
  Char <- Bytes
  LF <- Newline
  echo_contents <- Text
  MAX_LINE = 2
  FD_SETSIZE = 5
  FirstFds <- Starts
  Limits <- DescriptorLimits
  SendSize = 2
  MaxTyped = 4
INVARIANTS EchoIsTheStream
PROPERTIES EchoComes ClientEnds
CHECK_DEADLOCK FALSE
