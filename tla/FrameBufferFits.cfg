SPECIFICATION BufferSpec
CONSTANTS
  Frames <- Short
  Base = 4
  End = 191
  Guard = 15
  Size = 20
  MaxSends = 4
CHECK_DEADLOCK FALSE
INVARIANT FitsBuffer
