SPECIFICATION FairSpec
CONSTANTS
  HeaderSize = 2
  PodSize = 5
  SerializeSize = 4
  NET_PACKET_SIZE = 6
  Enough = 3
  MaxPackets = 5
INVARIANTS HandledAsSent RecvHasRoom
PROPERTIES ClientEnds
CHECK_DEADLOCK FALSE
