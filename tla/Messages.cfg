SPECIFICATION MessagesSpec
CONSTANTS
  header = header
  other = other
  Object <- Objects
  Text <- Texts
  Number <- Numbers
  MaxFields = 5
SYMMETRY Symmetry
INVARIANTS DefaultsBehindBits RoundTrip NothingInvented
