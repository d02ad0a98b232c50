CONSTANTS
  Sizes = {5, 9}
  BufferSize = 8
  Room = 1024
  Cuts = {4, 5, 6, 7, 8, 9, 10, 11, 12}
SPECIFICATION Spec
INVARIANTS NoFalseClose
CHECK_DEADLOCK FALSE
