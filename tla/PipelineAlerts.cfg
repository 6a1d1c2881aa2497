SPECIFICATION PipelineSpec
CONSTANTS
  k1 = k1
  k2 = k2
  a1 = a1
  zmq = zmq
  None = None
  Keys <- MCKeys
  Sources <- MCSources
  Activities <- MCActivities
  Observations <- MCObservations
  MaxCapacity = 2
  Ttl = 1
  MaxClock = 1
  MaxOffers = 10
  ChannelBound = 2
  MaxAttempts = 3
  MaxSent = 3
  MaxFaults = 0
  MaxCrashes = 0
INVARIANT AlertsStored
CHECK_DEADLOCK FALSE
