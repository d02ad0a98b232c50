CONSTANTS
  a = a
  b = b
  macA = macA
  macB = macB
  NULL = NULL
  Hosts <- MCHosts
  Addr <- TwoAddr
  Mac <- Macs
  FdLimit = 1
  MaxStarts <- BTwice
  Strays = {b}
  MaxSeconds = 0
SPECIFICATION Spec
INVARIANTS TypeOK AnnouncedOnce GenuinePeers
PROPERTIES AnsweredOnce
