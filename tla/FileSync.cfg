CONSTANTS
  Hosts = {h1, h2}
  Stable = {h1}
  Paths <- MCPaths
  Contents <- MCContents
  Blocks <- MCBlocks
  Text = Text
  Garbage = Garbage
  a1 = a1
  a2 = a2
  b1 = b1
  Cut <- MCCut
  MaxDepth = 2
  MaxFaults = 1
SPECIFICATION FairSpec
INVARIANTS TypeOK Genuine JobsOnce
PROPERTIES ImplementsSync Synced
CHECK_DEADLOCK FALSE
ACTION_CONSTRAINT OneOrOther
