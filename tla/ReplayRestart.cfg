SPECIFICATION OperatedSpec
CONSTANTS
  r1 = r1
  r2 = r2
  e1 = e1
  e2 = e2
  e3 = e3
  NoRun = NoRun
  NoJob = NoJob
  NoEvent = NoEvent
  Events <- MCEvents
  EventsAt <- MCEventsAt
  IntervalEvents <- MCIntervalEvents
  LookupEvents <- MCLookupEvents
  Node <- MCNode
  Runs = {r1}
  MaxHeight = 3
  MaxRange = 2
  Interval = 2
  MaxCrashes = 1
  MaxFaults = 0
  MaxSignals = 0
  MaxOverlaps = 0
PROPERTY JobSettles
CHECK_DEADLOCK FALSE
