SPECIFICATION Spec
CONSTANTS
  SizeLimit = 65536
  k1 = k1
  k2 = k2
  Keys = {k1, k2}
  NoKey = NoKey
  Packets <- MCPackets
INVARIANTS AcceptsExactlyPackets RangesInsideSpan ViewIsAuthenticated
