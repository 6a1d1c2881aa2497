SPECIFICATION FairPipelineSpec
CONSTANTS
  k1 = k1
  k2 = k2
  a1 = a1
  zmq = zmq
  None = None
  Keys <- MCKeys
  Sources <- MCSources
  Activities <- MCActivities
  Observations <- MCObservations
  MaxCapacity = 1
  Ttl = 1
  MaxClock = 1
  MaxOffers = 10
  ChannelBound = 2
  MaxAttempts = 2
  MaxSent = 3
  MaxFaults = 2
  MaxCrashes = 1
INVARIANT PipelineTypeOK
INVARIANT LossIsCounted
PROPERTY QueueServed
CHECK_DEADLOCK FALSE
