SPECIFICATION FairSpec
CONSTANTS
  Modulus = 10
  InitialBackoff = 1
  MaxBackoff = 3
  Capacity = 2
  None = None
  FirstPublished = 8
  MaxPublished = 12
  MaxLossRun = 1
  MaxOutages = 2
  MaxFaults = 1
INVARIANT TypeOK
INVARIANT MissedIsExact
INVARIANT ConnectedMeansClean
PROPERTY ReconnectsAfterOutage
PROPERTY OutageIsNoticed
CHECK_DEADLOCK FALSE
