SPECIFICATION BufferSpec
CONSTANTS
  Frames <- Mixed
  Base = 4
  End = 191
  Guard = 15
  Size = 20
  MaxSends = 2
INVARIANTS InStep HandledInOrder
PROPERTIES PiecesMakeWhole
CHECK_DEADLOCK FALSE
