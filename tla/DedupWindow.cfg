SPECIFICATION DedupSpec
CONSTANTS
  Keys = {k1, k2, k3}
  Sources = {zmq}
  None = None
  MaxCapacity = 2
  Ttl = 2
  MaxClock = 4
  MaxOffers = 6
INVARIANT DedupTypeOK
INVARIANT DedupBounded
INVARIANT TtlSeparates
CHECK_DEADLOCK FALSE
