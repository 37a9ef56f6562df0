SPECIFICATION BufferSpec
CONSTANTS
  Frames <- Both
  Base = 4
  End = 191
  Guard = 15
  Size = 20
  MaxSends = 2
CHECK_DEADLOCK FALSE
INVARIANT ParsedWhole
