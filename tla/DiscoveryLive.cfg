CONSTANTS
  a = a
  b = b
  macA = macA
  macB = macB
  NULL = NULL
  Hosts <- MCHosts
  Addr <- OneAddr
  Mac <- NoMacs
  FdLimit = NULL
  MaxStarts <- Once
  Strays = {}
  MaxSeconds = 1
SPECIFICATION FairSpec
PROPERTIES Discovered Settles
CHECK_DEADLOCK FALSE
