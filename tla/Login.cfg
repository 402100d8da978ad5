SPECIFICATION FairSpec
CONSTANTS
  a = a
  b = b
  Client <- Clients
  auth_login <- Rows
  Typed <- Logins
  Stack <- Contents
  SendSize = 4
INVARIANTS ConnectedMeansLoggedIn RefusedForAReason KilledByAReset
PROPERTIES GoodClientGetsIn
CHECK_DEADLOCK FALSE
