SPECIFICATION BufferSpec
CONSTANTS
  Base = 5
  Unset = Unset
  Types <- AllTypes
  Chars <- OneChar
  MaxLength = 2
  MaxBytes = 5
INVARIANTS RoundTrip AbortsOnOverread
CHECK_DEADLOCK FALSE
