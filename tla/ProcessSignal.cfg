CONSTANTS
  Workers = {broadcast}
  Main = main
  Broadcast = broadcast
  AnyPoint = TRUE
  MaxSignals = 1
SPECIFICATION FairSpec
PROPERTIES ShutdownCompletes
CHECK_DEADLOCK FALSE
