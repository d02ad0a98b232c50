CONSTANTS
  Sizes = {1, 5, 8}
  BufferSize = 16
  Room = 16
  Cuts = {4, 5, 6, 7, 8, 9, 10, 11}
SPECIFICATION FairSpec
INVARIANTS TypeOK NoFalseClose StaysInBuffer DeliveredIntact
PROPERTIES ImplementsChannel Delivered
CHECK_DEADLOCK FALSE
