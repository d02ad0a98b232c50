CONSTANTS
  Workers = {broadcast, client}
  Main = main
  Broadcast = broadcast
  AnyPoint = FALSE
  MaxSignals = 1
SPECIFICATION FairSpec
INVARIANTS TypeOK Exclusive LocksAlive NoDeadlock
PROPERTIES ShutdownCompletes
