CONSTANTS
  Hosts = {h1, h2, h3}
  Stable = {}
  Paths <- MCOnePath
  Contents <- MCContents
  Blocks <- MCBlocks
  Text = Text
  Garbage = Garbage
  a1 = a1
  a2 = a2
  b1 = b1
  Cut <- MCCut
  MaxDepth = 3
  MaxFaults = 0
SPECIFICATION Spec
SYMMETRY Symmetry
INVARIANT Downloaded
CHECK_DEADLOCK FALSE
