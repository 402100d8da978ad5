SPECIFICATION FairRequestSpec
CONSTANTS
  Size = 6
  WordSize = 3
  Input <- Inputs
INVARIANTS RequestAsSent FileAsSent
PROPERTIES RequestTaken
CHECK_DEADLOCK FALSE
