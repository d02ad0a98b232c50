CONSTANTS
  Producers = {p1, p2}
  Owner = owner
  Nodes = {m1, m2, m3}
  NULL = NULL
SPECIFICATION FairSpec
INVARIANTS TypeOK ChainIntact SingleOwner ControlInv
PROPERTIES ImplementsFifo PushedLeaves ThreadsEnd
