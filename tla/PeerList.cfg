CONSTANTS
  Ids = {a, b}
  Addrs <- MCAddrs
  MaxTime = 2
SPECIFICATION Spec
INVARIANTS TypeOK UniqueEntries ListIsTable PrefersIPv6
